--------------------------- MODULE TriggerPipeline ---------------------------
(***************************************************************************)
(* Calls of Service.TriggerPipeline (internal/domain/actions.go) on one    *)
(* pipeline, against a GoCD that schedules asynchronously.  The baseline   *)
(* is the highest counter in the pipeline's history; the run confirmed is  *)
(* a forced run of the caller's login on the first page of the history.    *)
(*                                                                         *)
(* GoCD is external: it queues accepted requests, turns each into a run    *)
(* later or drops it, and runs the pipeline for other reasons (material    *)
(* changes, timers, people).                                               *)
(***************************************************************************)
EXTENDS TriggerCall

CONSTANTS OtherRuns,  \* the [by, forced] of runs this server did not ask for
          PageSize    \* runs on one page of the history

ASSUME OtherRunsAssumption == OtherRuns \subseteq [by : Logins \cup {Changes}, forced : BOOLEAN]
ASSUME PageAssumption      == PageSize \in Nat \ {0}

Runs == [by : Logins \cup {Changes}, forced : BOOLEAN, src : SUBSET Requests]

vars == callVars

-------------------------------------------------------------------------------
(* What the history shows *)

FirstPage == {k \in 1..Len(runs) : k > Len(runs) - PageSize}

(* Mutant: the page is taken to be sorted the other way round.             *)
MutantLatestCounter(k) == \/ FirstPage = {} /\ k = 0
                          \/ k \in FirstPage /\ \A j \in FirstPage : j >= k

(* latestCounter: the highest counter on the first page, 0 for none.       *)
LatestCounter(k) == \/ FirstPage = {} /\ k = 0
                    \/ k \in FirstPage /\ \A j \in FirstPage : j <= k

(* Mutant: counter growth under the login, forced or not.                  *)
MutantUnforced(c) == {k \in FirstPage : k > base[c] /\ runs[k].by = LoginOf[c]}

(* Mutant: the run must be above the counter after the baseline.           *)
MutantAbove(c) == {k \in FirstPage : /\ k > base[c] + 1
                                     /\ runs[k].forced
                                     /\ runs[k].by = LoginOf[c]}

(* newInstanceBy: the runs on the first page attributed to c ...           *)
Attributed(c) == {k \in FirstPage : /\ k > base[c]
                                    /\ runs[k].forced
                                    /\ runs[k].by = LoginOf[c]}

(* Mutant: the latest attributed run instead of the earliest.              *)
MutantNewInstance(c, k) == k \in Attributed(c) /\ \A j \in Attributed(c) : k >= j

(* ... of which it returns the earliest.                                   *)
NewInstance(c, k) == k \in Attributed(c) /\ \A j \in Attributed(c) : k <= j

-------------------------------------------------------------------------------
(* The call *)

ReadBaseline(c) == \E k \in 0..Len(runs) : LatestCounter(k) /\ Baseline(c, k)

(* Mutant: a conflict is reported as an error.                             *)
MutantAccepted(code) == ErrorOf(code) = "nil"

(* A POST that went through, or a conflict, starts the wait.               *)
Accepted(code) == ErrorOf(code) \in {"nil", "ErrConflict"}

(* GoCD can answer 409 and still schedule the run.                         *)
Schedule(c, code) == Post(c, code, Accepted(code), MayHaveActed(code) \/ code = 409)

PollConfirms(c) == \E k \in FirstPage : NewInstance(c, k) /\ Confirm(c, k)

PollMisses(c) == Attributed(c) = {} /\ Miss(c)

Step(c) == \/ FailEarly(c) \/ ReadBaseline(c)
           \/ \E code \in Codes : Schedule(c, code)
           \/ PollConfirms(c) \/ PollMisses(c) \/ PollFails(c)

-------------------------------------------------------------------------------
(* GoCD *)

Materialize(req) ==
    /\ req \in queue
    /\ AddRun([by |-> LoginOf[req.call], forced |-> TRUE, src |-> {req}])
    /\ queue' = queue \ {req}

OtherRun(o) == /\ AddRun([by |-> o.by, forced |-> o.forced, src |-> {}])
               /\ UNCHANGED queue

GoCD == \/ \E req \in queue : Materialize(req) \/ Drop(req)
        \/ \E o \in OtherRuns : OtherRun(o)

-------------------------------------------------------------------------------
Init == CallInit

Next == GoCD \/ \E c \in Calls : Step(c) \/ Retry(c)

Spec == Init /\ [][Next]_vars

(* Every request has the http client's timeout and every sleep a timer, so *)
(* a call that has a step to take takes one.  Nothing is assumed of GoCD   *)
(* or of the caller.                                                       *)
FairSpec == Spec /\ \A c \in Calls : WF_vars(Step(c))

-------------------------------------------------------------------------------
(* Properties *)

(* Type invariant.                                                         *)
TypeOK == runs \in Seq(Runs) /\ CallTypeOK

(* Nobody but c forces runs under c's login.                               *)
SoleUser(c) == /\ \A d \in Calls \ {c} : LoginOf[d] # LoginOf[c]
               /\ \A o \in OtherRuns : o.forced => o.by # LoginOf[c]

(* Timers, material changes, other users and unforced runs are never       *)
(* mistaken for the caller's run (actions.go:30-39): see ConfirmedOwn.     *)
ConfirmedIsOwn == \A c \in Calls : SoleUser(c) => ConfirmedOwn(c)

(* Calls of one login that took the same baseline settle on the same run,  *)
(* whichever polls saw it, as long as it is still on the first page: the   *)
(* reason newInstanceBy returns the earliest (actions.go:91-92).           *)
SameBaselineSameRun ==
    \A c, d \in Calls :
        (/\ LoginOf[c] = LoginOf[d] /\ base[c] = base[d]
         /\ result[c].kind = "confirmed" /\ result[d].kind = "confirmed"
         /\ Len(runs) - base[c] <= PageSize)
            => result[c].counter = result[d].counter

(* A call gives up after its last poll only if its own run is not there to *)
(* be seen: not created yet, or already pushed off the first page          *)
(* (actions.go:93-96).                                                     *)
OverlooksNothing ==
    \A c \in Calls : GivesUp(c) => \A k \in FirstPage : Request(c) \notin runs[k].src

NoVisibleRunMissed == [][OverlooksNothing]_vars

(* The promise common to both triggers.  GoCD's owner of a run is its      *)
(* approver if it was forced, and nobody in particular otherwise.          *)
Owner(r) == IF r.forced THEN r.by ELSE Changes

Promise == INSTANCE AttributedRun
               WITH Owners  <- Logins \cup {Changes},
                    log     <- [k \in 1..Len(runs) |-> Owner(runs[k])],
                    mark    <- base,
                    outcome <- [c \in Calls |-> Outcome(c)]

(* A call marks the true end of the history, errs only before acceptance,  *)
(* and confirms only a later run of its login.                             *)
KeepsPromise == Promise!Spec
===============================================================================
