---------------------------- MODULE TriggerStage ----------------------------
(***************************************************************************)
(* Calls of Service.TriggerStage (internal/domain/stage.go) on one stage   *)
(* of one pipeline run.  The pipeline instance shows only the latest run   *)
(* of the stage: the baseline is its counter, and a run is confirmed when  *)
(* the stage is shown scheduled above the baseline and approved by the     *)
(* caller's login.                                                         *)
(*                                                                         *)
(* GoCD is external: while a stage of the pipeline run is active it        *)
(* refuses to run another (409) and queues nothing; it queues the requests *)
(* it accepts, and people and automatic approvals run the stage too.       *)
(***************************************************************************)
EXTENDS TriggerCall

CONSTANT OtherUsers  \* approvers of the stage runs this server did not ask for

ASSUME OtherUsersAssumption == OtherUsers \subseteq Logins \cup {Changes}

Runs == [by : Logins \cup {Changes}, src : SUBSET Requests]

VARIABLE active  \* a stage of the pipeline run is in progress

vars == <<callVars, active>>

-------------------------------------------------------------------------------
(* What the instance shows of the stage: a manual stage that has not run   *)
(* yet is shown unscheduled, with counter 1.                               *)

Scheduled    == runs # <<>>
ShownCounter == IF Scheduled THEN Len(runs) ELSE 1
ApprovedBy(login) == Scheduled /\ runs[Len(runs)].by = login

(* Mutant: the counter of a pending stage is believed.                     *)
MutantStageBase == ShownCounter

StageBase == IF Scheduled THEN ShownCounter ELSE 0

(* Mutant: a new counter is enough, whoever approved the run.              *)
MutantShowsRunOf(c) == Scheduled /\ ShownCounter > base[c]

(* The stage is shown with a run of c's login that is not the old one.     *)
ShowsRunOf(c) == Scheduled /\ ShownCounter > base[c] /\ ApprovedBy(LoginOf[c])

-------------------------------------------------------------------------------
(* The call *)

(* Mutant: a refusal is folded into the wait, as for a pipeline.           *)
MutantStageAccepted(code) == ErrorOf(code) \in {"nil", "ErrConflict"}

(* Any error of the POST is returned, a conflict too.                      *)
StageAccepted(code) == ErrorOf(code) = "nil"

(* GoCD accepts only while nothing is active, and answers 409 only then.   *)
Answers(code) == (Success(code) => ~active) /\ (code = 409 => active)

RunStage(c, code) ==
    /\ Answers(code)
    /\ Post(c, code, StageAccepted(code), MayHaveActed(code) /\ ~active)

ReadStage(c) == Baseline(c, StageBase)

PollConfirms(c) == ShowsRunOf(c) /\ Confirm(c, ShownCounter)

PollMisses(c) == ~ShowsRunOf(c) /\ Miss(c)

Step(c) == /\ \/ FailEarly(c) \/ ReadStage(c)
              \/ \E code \in Codes : RunStage(c, code)
              \/ PollConfirms(c) \/ PollMisses(c) \/ PollFails(c)
           /\ UNCHANGED active

-------------------------------------------------------------------------------
(* GoCD: runs of one pipeline instance never overlap.                      *)

StartRun(r) == ~active /\ AddRun(r) /\ active' = TRUE

Materialize(req) == /\ req \in queue
                    /\ StartRun([by |-> LoginOf[req.call], src |-> {req}])
                    /\ queue' = queue \ {req}

OtherRun(user) == StartRun([by |-> user, src |-> {}]) /\ UNCHANGED queue

(* Another stage of the pipeline run starts; the active one finishes.      *)
Busy == /\ active' = ~active
        /\ UNCHANGED callVars

GoCD == \/ \E req \in queue : Materialize(req) \/ (Drop(req) /\ UNCHANGED active)
        \/ \E user \in OtherUsers : OtherRun(user)
        \/ Busy

-------------------------------------------------------------------------------
Init == CallInit /\ active = FALSE

Next == GoCD \/ \E c \in Calls : Step(c) \/ (Retry(c) /\ UNCHANGED active)

Spec == Init /\ [][Next]_vars

-------------------------------------------------------------------------------
(* Properties *)

(* Type invariant.                                                         *)
TypeOK == runs \in Seq(Runs) /\ active \in BOOLEAN /\ CallTypeOK

(* Nobody but c runs the stage under c's login.                            *)
SoleUser(c) == LoginOf[c] \notin OtherUsers /\ \A d \in Calls \ {c} : LoginOf[d] # LoginOf[c]

(* Automatic approvals and other users' re-runs are never mistaken for the *)
(* caller's run (stage.go:19-27): see ConfirmedOwn.                        *)
ConfirmedIsOwn == \A c \in Calls : SoleUser(c) => ConfirmedOwn(c)

(* The only run a call overlooks is one hidden by a later run of the same  *)
(* stage, as its doc comment says (stage.go:33-37): at the last poll, the  *)
(* call's own run is not the one shown.                                    *)
OverlooksHidden ==
    \A c \in Calls : GivesUp(c) =>
        \A k \in 1..Len(runs) : Request(c) \in runs[k].src => k < Len(runs)

OnlyHiddenRunsAreMissed == [][OverlooksHidden]_vars

(* A call that posts while a stage is in progress is told so, with an      *)
(* error (stage.go:29-32); it never waits for a run that was refused.      *)
RefusesWhileActive ==
    \A c \in Calls :
        (pc[c] = "schedule" /\ pc'[c] # "schedule" /\ active) => result'[c] = Error

RefusedWhileActive == [][RefusesWhileActive]_vars

Promise == INSTANCE AttributedRun
               WITH Owners  <- Logins \cup {Changes},
                    log     <- [k \in 1..Len(runs) |-> runs[k].by],
                    mark    <- base,
                    outcome <- [c \in Calls |-> Outcome(c)]

(* The promise common to both triggers: the baseline is the true number of *)
(* runs so far, errors come only before acceptance, and a confirmed run is *)
(* a later one of the caller's login.                                      *)
KeepsPromise == Promise!Spec
===============================================================================
