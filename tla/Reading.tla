--------------------------------- MODULE Reading ---------------------------------
(***************************************************************************)
(* Two conversions of what GoCD answers, each done once on one input: the  *)
(* tail of a console log, and the error kept of a refusal.  Each is        *)
(* compared with a definition of what it should give that is written       *)
(* another way.                                                            *)
(***************************************************************************)
EXTENDS ConsoleLog, ErrorBody

CONSTANTS Logs, TailValues,    \* console logs, and values of tail_lines
          StatusCodes, Bodies  \* answers of GoCD

ASSUME LogsAssumption   == Logs \subseteq Seq({"byte", Newline}) /\ TailValues \subseteq Int
ASSUME BodiesAssumption ==
    \A b \in Bodies : b.message \in Seq(Bytes) /\ b.bytes \in Seq(Bytes) /\ IsTree(b.data)

VARIABLES st,      \* "asked" until the conversion is done
          input,   \* what comes from outside
          output   \* what is made of it

readVars == <<st, input, output>>

Asked ==
    /\ st = "asked"
    /\ output = <<>>
    /\ \/ \E log \in Logs, asked \in TailValues :
            input = [kind |-> "log", log |-> log, asked |-> asked]
       \/ \E code \in StatusCodes, body \in Bodies :
            input = [kind |-> "answer", code |-> code, body |-> body]

Answer(result) == st' = "answered" /\ output' = result /\ UNCHANGED input

TailLog   == /\ st = "asked" /\ input.kind = "log"
             /\ Answer(JobConsoleLog(input.log, input.asked))

KeepError == /\ st = "asked" /\ input.kind = "answer"
             /\ Answer(StatusError(input.code, input.body))

Read == TailLog \/ KeepError

ReadSpec == Asked /\ [][Read]_readVars

Answered(kind) == st = "answered" /\ input.kind = kind
----------------------------------------------------------------------------
(* The text is the last lines of a log: it ends with the last byte that is *)
(* no newline, it begins with a line, and it has n lines or all there are. *)
AreLastLines(text, log, n) ==
    \E last \in 0 .. Len(log) : \E first \in 1 .. last + 1 :
        /\ text = SubSeq(log, first, last)
        /\ \A i \in last + 1 .. Len(log) : log[i] = Newline
        /\ last > 0 => first <= last /\ log[last] # Newline
        /\ first > 1 => log[first - 1] = Newline
        /\ LET lines == 1 + Cardinality({i \in first .. last : log[i] = Newline})
           IN  lines <= n /\ (first > 1 => lines = n)

(* What get_job_console_log returns are the last lines of the part of the  *)
(* log that was read, as many as were asked for, whatever newlines it      *)
(* begins and ends with; a negative number returns all that was read       *)
(* (JobConsoleLog, tail).                                                  *)
TailOfKept ==
    Answered("log") =>
        LET read == [i \in 1 .. Min({Len(input.log), MaxConsoleBytes}) |-> input.log[i]]
            n    == IF input.asked = 0 THEN DefaultLines ELSE input.asked
        IN  IF n > 0 THEN AreLastLines(output, read, n) ELSE output = read
----------------------------------------------------------------------------
FieldErrors(data) ==
    UNION {{[path |-> p, field |-> f] : f \in data[p].errors} :
              p \in {q \in DOMAIN data : data[q].object}}

(* Every field that GoCD's refusal names in an object of errors, however   *)
(* deep in arrays and objects and also below an object with errors of its  *)
(* own, is named once and under its path; a body of another shape, or one  *)
(* of which the read limit cuts off more than white space, names none      *)
(* (readErrorBody, validationDetails).  This is said of the details before *)
(* the message made of them is cut to its limit.                           *)
EveryFieldNamed ==
    Answered("answer") =>
        LET body  == input.body
            named == IF /\ input.code \notin {401, 403, 404}
                        /\ body.message # <<>>
                        /\ \A i \in DOMAIN body.bytes :
                              i > ReadLimit => body.bytes[i] = "space"
                     THEN FieldErrors(body.data) ELSE {}
        IN  /\ ToSet(output.details) = named
            /\ Len(output.details) = Cardinality(named)

(* The text is all of the whole, or as much of it as the limit admits      *)
(* without its last rune being broken.                                     *)
CutAtRune(text, whole) ==
    /\ IsPrefix(text, whole)
    /\ Len(text) <= TextLimit
    /\ text # whole =>
        /\ whole[Len(text) + 1] # "more" \/ text = <<>>
        /\ \A i \in Len(text) + 2 .. Min({Len(whole), TextLimit + 1}) : whole[i] = "more"

(* The texts kept of an error are bounded and cut between two runes,       *)
(* wherever the limit falls, and no shorter than that asks for: the        *)
(* message with its details, and what was read of the body without the     *)
(* white space around it (truncate).  A rune that the limit of the reader  *)
(* breaks stays broken if white space before it has let it come so far.    *)
RunesKept ==
    Answered("answer") =>
        /\ output.raw # <<>> => CutAtRune(output.raw, TrimSpace(WasRead(input.body)))
        /\ output.msg # <<>> =>
            CutAtRune(output.msg, input.body.message \o Rendered(output.details))
===============================================================================
