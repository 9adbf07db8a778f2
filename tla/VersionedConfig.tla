-------------------------- MODULE VersionedConfig --------------------------
(***************************************************************************)
(* What the config tools promise their callers of one document (a pipeline *)
(* or a template) that several people edit: a compare-and-set register.    *)
(* The document is the log of its changes.  A call takes effect at most    *)
(* once, as a whole; an update takes effect only on the version it names;  *)
(* and a call that says what became of it says the truth, for good.        *)
(***************************************************************************)
EXTENDS Integers, Sequences

CONSTANTS Calls,     \* tool calls
          Elsewhere  \* everyone who edits the document without this server

NoTag == 0

VARIABLES log,     \* the changes made to the document, oldest first
          verdict  \* verdict[c]: what call c has said of itself

vars == <<log, verdict>>

Changes == [op  : {"create", "update", "delete"},
            by  : Calls \cup {Elsewhere},
            tag : 0..Len(log)]

(* The version a log ends in: the place of its last change, NoTag when     *)
(* there is no document.                                                   *)
VersionAfter(changes) ==
    IF changes = <<>> \/ changes[Len(changes)].op = "delete" THEN NoTag ELSE Len(changes)

(* What a document that stands at version v lets happen to it.             *)
Fits(change, v) == CASE change.op = "create" -> v = NoTag
                     [] change.op = "update" -> v # NoTag /\ change.tag = v
                     [] change.op = "delete" -> v # NoTag

Acted(changes, c) == \E n \in 1..Len(changes) : changes[n].by = c

Init == log = <<>> /\ verdict = [c \in Calls |-> "none"]

Take(change) == Fits(change, VersionAfter(log)) /\ log' = Append(log, change)

(* Even a call that said it did not know may yet take effect, once.        *)
Act(change) == /\ change.by # Elsewhere
               /\ verdict[change.by] \in {"none", "unknown"}
               /\ ~Acted(log, change.by)
               /\ Take(change)
               /\ UNCHANGED verdict

Edit(change) == change.by = Elsewhere /\ Take(change) /\ UNCHANGED verdict

Say(c, v) == /\ verdict[c] = "none"
             /\ v = "applied" => Acted(log, c)
             /\ v = "refused" => ~Acted(log, c)
             /\ verdict' = [verdict EXCEPT ![c] = v]
             /\ UNCHANGED log

Next == \/ \E change \in Changes : Act(change) \/ Edit(change)
        \/ \E c \in Calls, v \in {"applied", "refused", "unknown"} : Say(c, v)

Spec == Init /\ [][Next]_vars
===============================================================================
