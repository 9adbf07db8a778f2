------------------------------- MODULE ConsoleLog -------------------------------
(***************************************************************************)
(* get_job_console_log: the console log of a job, read up to a limit and   *)
(* cut to its last lines.  A log is a sequence of newlines and of other    *)
(* bytes.                                                                  *)
(***************************************************************************)
EXTENDS Integers, FiniteSets, SequencesExt

CONSTANTS MaxConsoleBytes,  \* maxConsoleBytes, 2 MiB
          DefaultLines      \* the 200 lines of the handler

ASSUME ConsoleAssumption == MaxConsoleBytes \in Nat /\ DefaultLines \in Nat \ {0}

Newline == "newline"

(* What a reader limited to n bytes leaves of s: its beginning.            *)
ReadLimited(s, n) == SubSeq(s, 1, Min({Len(s), n}))

(* The handler takes 0, which is also an absent tail_lines, for its        *)
(* default.                                                                *)
TailLines(n) == IF n = 0 THEN DefaultLines ELSE n

Breaks(s) == {i \in DOMAIN s : s[i] = Newline}

(* strings.TrimRight(s, "\n").                                             *)
TrimNewlines(s) == SubSeq(s, 1, Max({0} \cup (DOMAIN s \ Breaks(s))))

(* Mutant: newlines at the end count as the beginning of a line.           *)
MutantTailOf(s, n) ==
    IF n <= 0 \/ Cardinality(Breaks(s)) < n THEN s
    ELSE LET b == CHOOSE i \in Breaks(s) : Cardinality({j \in Breaks(s) : j >= i}) = n
         IN  SubSeq(s, b + 1, Len(s))

(* tail: from behind the n-th newline, counted from the end.               *)
TailOf(s, n) ==
    LET t == TrimNewlines(s)
    IN  IF n <= 0 THEN s
        ELSE IF Cardinality(Breaks(t)) < n THEN t
        ELSE LET b == CHOOSE i \in Breaks(t) : Cardinality({j \in Breaks(t) : j >= i}) = n
             IN  SubSeq(t, b + 1, Len(t))

JobConsoleLog(log, asked) == TailOf(ReadLimited(log, MaxConsoleBytes), TailLines(asked))
===============================================================================
