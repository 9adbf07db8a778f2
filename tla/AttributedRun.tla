---------------------------- MODULE AttributedRun ----------------------------
(***************************************************************************)
(* What trigger_pipeline and trigger_stage promise their caller, apart     *)
(* from how they find out.  GoCD keeps a growing log of runs, each with    *)
(* the owner it recorded.  A call marks the end of the log, asks GoCD for  *)
(* a run, and ends in one of three ways:                                   *)
(*   error        only while GoCD has not accepted the request;            *)
(*   confirmed(k) k is a run after the mark, owned by the caller's login;  *)
(*   unconfirmed  accepted, and nothing more is claimed.                   *)
(* A caller may repeat a call that ended in an error, never another.       *)
(***************************************************************************)
EXTENDS Integers, Sequences

CONSTANTS Calls,    \* calls of the tool
          Owners,   \* owners GoCD records: logins, and the automatic one
          LoginOf   \* the login each call runs under

VARIABLES log,      \* the owners of the runs, oldest first
          mark,     \* mark[c]: the length of the log when c took its baseline
          outcome   \* outcome[c]: where the call stands

vars == <<log, mark, outcome>>

Outcomes == [status : {"new", "marked", "accepted", "error", "unconfirmed", "confirmed"},
             run    : Nat]

Status(s) == [status |-> s, run |-> 0]

Init == /\ log = <<>>
        /\ mark = [c \in Calls |-> 0]
        /\ outcome = [c \in Calls |-> Status("new")]

NewRun == /\ \E o \in Owners : log' = Append(log, o)
          /\ UNCHANGED <<mark, outcome>>

Mark(c) == /\ outcome[c] = Status("new")
           /\ mark' = [mark EXCEPT ![c] = Len(log)]
           /\ outcome' = [outcome EXCEPT ![c] = Status("marked")]
           /\ UNCHANGED log

Move(c, from, to) == /\ outcome[c] = Status(from)
                     /\ outcome' = [outcome EXCEPT ![c] = to]
                     /\ UNCHANGED <<log, mark>>

Fail(c) == \/ Move(c, "new", Status("error"))
           \/ Move(c, "marked", Status("error"))

Accept(c) == Move(c, "marked", Status("accepted"))

GiveUp(c) == Move(c, "accepted", Status("unconfirmed"))

Confirm(c) ==
    \E k \in (mark[c] + 1)..Len(log) :
        /\ log[k] = LoginOf[c]
        /\ Move(c, "accepted", [status |-> "confirmed", run |-> k])

Again(c) == /\ outcome[c] = Status("error")
            /\ outcome' = [outcome EXCEPT ![c] = Status("new")]
            /\ mark' = [mark EXCEPT ![c] = 0]
            /\ UNCHANGED log

Next == \/ NewRun
        \/ \E c \in Calls : \/ Mark(c) \/ Fail(c) \/ Accept(c)
                            \/ GiveUp(c) \/ Confirm(c) \/ Again(c)

Spec == Init /\ [][Next]_vars
===============================================================================
