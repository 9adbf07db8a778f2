------------------------- MODULE TriggerStageProofs -------------------------
(***************************************************************************)
(* Proofs about TriggerStage, for every set of calls, logins and foreign   *)
(* users and every number of attempts.                                     *)
(***************************************************************************)
EXTENDS TriggerStage, TriggerCallProofs

(* A run has one source, and carries its source's login.                   *)
SourceOf(r) == \/ r.src = {} /\ r.by \in OtherUsers
               \/ \E req \in Requests : r.src = {req} /\ r.by = LoginOf[req.call]

(* The run a request materialises as, and a run of another user's, are     *)
(* runs.                                                                   *)
LEMMA NewRunsAreRuns ==
    /\ \A req \in Requests : [by |-> LoginOf[req.call], src |-> {req}] \in Runs
    /\ \A user \in OtherUsers : [by |-> user, src |-> {}] \in Runs
  BY LoginsAssumption, OtherUsersAssumption DEF Runs, Requests

(* An answer that is not accepted, a conflict in particular, is decisive   *)
(* or lost.                                                                *)
LEMMA RunStageIsPosted ==
    ASSUME NEW c \in Calls, NEW code \in Codes, RunStage(c, code)
    PROVE  Posted(c)
<1>1. StageAccepted(code) <=> Success(code)
  BY CodesAssumption DEF StageAccepted, ErrorOf, Success, NoResponse
<1>2. ~StageAccepted(code) /\ ~Undecided(code) => ~(MayHaveActed(code) /\ ~active)
  BY <1>1 DEF MayHaveActed
<1> QED
  BY <1>2, PostIsPosted DEF RunStage

(* The counter shown is the number of runs, once there are any, and the    *)
(* baseline is that number from the start.                                 *)
LEMMA CountersShown ==
    ASSUME TypeOK
    PROVE  /\ Len(runs) \in Nat /\ ShownCounter \in Nat
           /\ StageBase = Len(runs)
           /\ Scheduled => ShownCounter = Len(runs) /\ Len(runs) \in 1..Len(runs)
<1>1. Len(runs) \in Nat /\ (runs = <<>> <=> Len(runs) = 0)
  BY DEF TypeOK
<1> QED
  BY <1>1 DEF StageBase, ShownCounter, Scheduled

(* The steps of a call, seen without GoCD: quiet, or a request posted.     *)
LEMMA StepsOfACall ==
    ASSUME TypeOK, NEW c \in Calls, Step(c)
    PROVE  /\ Quiet(c) \/ Posted(c)
           /\ UNCHANGED <<runs, active>>
           /\ \A k : Baseline(c, k) => k \in 0..Len(runs)
<1>1. Quiet(c) \/ Posted(c)
  BY CountersShown, RunStageIsPosted DEF Step, ReadStage, PollConfirms, PollMisses, Quiet
<1>2. UNCHANGED <<runs, active>>
  BY <1>1 DEF Step, Quiet, Posted, FailEarly, Baseline, Confirm, Miss, PollFails, gocd
<1>3. ASSUME NEW k, Baseline(c, k) PROVE k \in 0..Len(runs)
  <2>1. pc[c] = "start" /\ pc'[c] = "schedule" /\ base'[c] = k
    BY <1>3 DEF Baseline, Goto, TypeOK, CallTypeOK
  <2>2. CASE ReadStage(c)
    BY <2>1, <2>2, CountersShown DEF ReadStage, Baseline, TypeOK, CallTypeOK
  <2>3. CASE FailEarly(c)
    BY <2>1, <2>3 DEF FailEarly, Return, TypeOK, CallTypeOK
  <2>4. CASE ~ReadStage(c) /\ ~FailEarly(c)
    BY <2>1, <2>4, RunStageIsPosted
       DEF Step, Posted, PollConfirms, Confirm, PollMisses, Miss, PollFails
  <2> QED
    BY <2>2, <2>3, <2>4
<1> QED
  BY <1>1, <1>2, <1>3

(* What GoCD does leaves the calls alone; if it runs the stage, it does so *)
(* for a request of its queue or for somebody else.                        *)
LEMMA GoCDSteps ==
    ASSUME TypeOK, GoCD
    PROVE  /\ UNCHANGED <<pc, base, attempt, result, try, lost>>
           /\ queue' \subseteq queue
           /\ active' \in BOOLEAN
           /\ \/ UNCHANGED runs
              \/ \E r \in Runs : AddRun(r) /\ r.src \subseteq queue /\ SourceOf(r)
<1>1. ASSUME NEW q \in queue, Materialize(q)
      PROVE  \E r \in Runs : /\ AddRun(r) /\ queue' \subseteq queue /\ active' = TRUE
                             /\ r.src \subseteq queue /\ SourceOf(r)
  <2> DEFINE r == [by |-> LoginOf[q.call], src |-> {q}]
  <2>1. q \in Requests /\ r \in Runs /\ AddRun(r) /\ queue' \subseteq queue /\ active' = TRUE
    BY <1>1, NewRunsAreRuns DEF Materialize, StartRun, TypeOK, CallTypeOK
  <2>2. r.src \subseteq queue /\ SourceOf(r)
    BY <2>1 DEF SourceOf
  <2> HIDE DEF r
  <2> QED
    BY <2>1, <2>2
<1>2. ASSUME NEW user \in OtherUsers, OtherRun(user)
      PROVE  \E r \in Runs : /\ AddRun(r) /\ queue' \subseteq queue /\ active' = TRUE
                             /\ r.src \subseteq queue /\ SourceOf(r)
  <2> DEFINE r == [by |-> user, src |-> {}]
  <2>1. r \in Runs /\ AddRun(r) /\ queue' \subseteq queue /\ active' = TRUE
    BY <1>2, NewRunsAreRuns DEF OtherRun, StartRun
  <2>2. r.src \subseteq queue /\ SourceOf(r)
    BY DEF SourceOf
  <2> HIDE DEF r
  <2> QED
    BY <2>1, <2>2
<1>3. ASSUME NEW q \in queue, Drop(q), UNCHANGED active
      PROVE  /\ UNCHANGED <<runs, pc, base, attempt, result, try, lost, active>>
             /\ queue' \subseteq queue
  BY <1>3 DEF Drop
<1>4. CASE Busy
  BY <1>4 DEF Busy, callVars, TypeOK
<1>5. \A r : AddRun(r) => UNCHANGED <<pc, base, attempt, result, try, lost>>
  BY DEF AddRun
<1>6. active \in BOOLEAN
  BY DEF TypeOK
<1> QED
  BY <1>1, <1>2, <1>3, <1>4, <1>5, <1>6 DEF GoCD

(* Every variable keeps its type.                                          *)
LEMMA TypeStep == TypeOK /\ [Next]_vars => TypeOK'
<1> SUFFICES ASSUME TypeOK, [Next]_vars PROVE TypeOK'
  OBVIOUS
<1> USE DEF TypeOK
<1>1. ASSUME NEW c \in Calls, Step(c) PROVE TypeOK'
  BY <1>1, StepsOfACall, PostTypes, QuietTypes
<1>2. ASSUME NEW c \in Calls, Retry(c), UNCHANGED active PROVE TypeOK'
  BY <1>2, RetryTypes DEF Retry, gocd
<1>3. CASE GoCD
  <2>1. runs' \in Seq(Runs)
    BY <1>3, GoCDSteps, AppendRun
  <2> QED
    BY <1>3, <2>1, GoCDSteps DEF CallTypeOK
<1>4. CASE UNCHANGED vars
  BY <1>4 DEF vars, callVars, CallTypeOK
<1> QED
  BY <1>1, <1>2, <1>3, <1>4 DEF Next

(* Every variable keeps its type, whatever the constants.                  *)
THEOREM TypeCorrect == Spec => []TypeOK
<1>1. Init => TypeOK
  <2>1. Init => runs \in Seq(Runs) /\ CallTypeOK
    BY InitTypes DEF Init, CallInit
  <2>2. Init => active \in BOOLEAN
    BY DEF Init
  <2> QED
    BY <2>1, <2>2 DEF TypeOK
<1> QED
  BY <1>1, TypeStep, PTL DEF Spec

-------------------------------------------------------------------------------
(* Requests *)

(* Every step keeps the life of the requests in order.                     *)
LEMMA DeliveryStep == TypeOK /\ Delivery /\ [Next]_vars => Delivery'
<1> SUFFICES ASSUME TypeOK, Delivery, [Next]_vars PROVE Delivery'
  OBVIOUS
<1> USE DEF TypeOK
<1>1. ASSUME NEW c \in Calls, Step(c) PROVE Delivery'
  BY <1>1, StepsOfACall, PostDelivers, QuietDelivers
<1>2. ASSUME NEW c \in Calls, Retry(c) PROVE Delivery'
  BY <1>2, RetryDelivers
<1>3. CASE GoCD
  <2>1. \A req : Sent(req)' => Sent(req)
    <3>1. CASE UNCHANGED runs
      BY <1>3, <3>1, GoCDSteps DEF Sent, Ran
    <3>2. CASE ~UNCHANGED runs
      <4>1. PICK r \in Runs : AddRun(r) /\ r.src \subseteq queue
        BY <1>3, <3>2, GoCDSteps
      <4>2. \A req : Ran(req)' <=> Ran(req) \/ req \in r.src
        BY <4>1, RanGrows
      <4> QED
        BY <1>3, <4>1, <4>2, GoCDSteps DEF Sent
    <3> QED
      BY <3>1, <3>2
  <2> QED
    BY <1>3, <2>1, GoCDSteps, GoCDDelivers
<1>4. CASE UNCHANGED vars
  BY <1>4 DEF vars, callVars, Delivery, PcAgrees, SentInTime, PastTriesLost,
              ErrorMeansUnscheduled, Sent, Ran, Request
<1> QED
  BY <1>1, <1>2, <1>3, <1>4 DEF Next

(* The inductive strengthening of the two theorems below.                  *)
THEOREM DeliveryHolds == Spec => []Delivery
  BY DeliveryInit, DeliveryStep, TypeCorrect, PTL DEF Spec, Init

(* An error says that nothing was scheduled, unless the answer was lost.   *)
THEOREM ErrorsAreSafe == Spec => []ErrorMeansUnscheduled
<1>1. Delivery => ErrorMeansUnscheduled
  BY DEF Delivery
<1> QED
  BY <1>1, DeliveryHolds, PTL

(* Retrying errors runs the stage twice only after a lost answer.          *)
THEOREM RetriesAreSafe == Spec => []NoDoubleRun
<1>1. TypeOK /\ Delivery => NoDoubleRun
  BY DeliveryPreventsDoubleRuns DEF TypeOK
<1> QED
  BY <1>1, DeliveryHolds, TypeCorrect, PTL

-------------------------------------------------------------------------------
(* Whose run a call confirms.                                              *)

RunsHaveSources == \A k \in 1..Len(runs) : SourceOf(runs[k])

(* A confirmed run is one of the call's login, after its baseline.         *)
ConfirmedLater ==
    \A c \in Calls : result[c].kind = "confirmed" =>
        /\ result[c].counter \in (base[c] + 1)..Len(runs)
        /\ runs[result[c].counter].by = LoginOf[c]

Attribution == PcAgrees /\ RunsHaveSources /\ ConfirmedLater

(* What a new run leaves in place.                                         *)
LEMMA AttributionGrows ==
    ASSUME TypeOK, Attribution, NEW r \in Runs, SourceOf(r), AddRun(r)
    PROVE  Attribution'
<1>1. /\ Len(runs') = Len(runs) + 1
      /\ \A k \in 1..Len(runs) : runs'[k] = runs[k]
      /\ runs'[Len(runs) + 1] = r
      /\ Len(runs) \in Nat /\ UNCHANGED <<pc, base, result>>
  BY AppendRun DEF AddRun, TypeOK
<1>2. PcAgrees'
  BY <1>1 DEF Attribution, PcAgrees
<1>3. RunsHaveSources'
  <2> SUFFICES ASSUME NEW k \in 1..Len(runs') PROVE SourceOf(runs'[k])
    BY DEF RunsHaveSources, SourceOf
  <2>1. CASE k \in 1..Len(runs)
    BY <1>1, <2>1 DEF Attribution, RunsHaveSources
  <2>2. CASE k = Len(runs) + 1
    BY <1>1, <2>2
  <2> QED
    BY <1>1, <2>1, <2>2
<1>4. ConfirmedLater'
  <2> SUFFICES ASSUME NEW c \in Calls, result[c].kind = "confirmed"
               PROVE  /\ result[c].counter \in (base[c] + 1)..Len(runs')
                      /\ runs'[result[c].counter].by = LoginOf[c]
    BY <1>1 DEF ConfirmedLater
  <2>1. base[c] \in Nat
    BY DEF TypeOK, CallTypeOK
  <2>2. /\ result[c].counter \in (base[c] + 1)..Len(runs)
        /\ runs[result[c].counter].by = LoginOf[c]
    BY DEF Attribution, ConfirmedLater
  <2> QED
    BY <1>1, <2>1, <2>2
<1> QED
  BY <1>2, <1>3, <1>4 DEF Attribution

(* Steps that neither add a run nor confirm one.                           *)
LEMMA AttributionKept ==
    ASSUME TypeOK, Attribution, NEW c \in Calls, runs' = runs,
           PcAgrees', result'[c].kind # "confirmed",
           \A d \in Calls : d # c => base'[d] = base[d] /\ result'[d] = result[d]
    PROVE  Attribution'
<1>1. RunsHaveSources'
  BY DEF Attribution, RunsHaveSources, SourceOf
<1>2. ConfirmedLater'
  BY DEF Attribution, ConfirmedLater
<1> QED
  BY <1>1, <1>2 DEF Attribution

(* Every step of a call, and of GoCD, keeps the attribution.               *)
LEMMA AttributionStep == TypeOK /\ Attribution /\ PcAgrees' /\ [Next]_vars => Attribution'
<1> SUFFICES ASSUME TypeOK, Attribution, PcAgrees', [Next]_vars PROVE Attribution'
  OBVIOUS
<1> DEFINE Only(c) == /\ runs' = runs /\ result'[c].kind # "confirmed"
                      /\ \A d \in Calls : d # c => base'[d] = base[d] /\ result'[d] = result[d]
<1>0. \A c \in Calls : Only(c) => Attribution'
  BY AttributionKept
<1>1. ASSUME NEW c \in Calls, FailEarly(c) \/ PollFails(c) PROVE Only(c)
  BY <1>1 DEF FailEarly, PollFails, Return, Error, Unconfirmed, TypeOK, CallTypeOK, gocd
<1>2. ASSUME NEW c \in Calls, ReadStage(c) PROVE Only(c)
  <2>1. result[c] = NoResult
    BY <1>2 DEF ReadStage, Baseline, Attribution, PcAgrees
  <2> QED
    BY <1>2, <2>1 DEF ReadStage, Baseline, Goto, TypeOK, CallTypeOK, NoResult, gocd
<1>3. ASSUME NEW c \in Calls, NEW code \in Codes, RunStage(c, code) PROVE Only(c)
  <2>1. Posted(c)
    BY <1>3, RunStageIsPosted
  <2>2. result[c] = NoResult
    BY <2>1 DEF Posted, Attribution, PcAgrees
  <2> QED
    BY <2>1, <2>2 DEF Posted, Goto, Return, Error, TypeOK, CallTypeOK, NoResult
<1>4. ASSUME NEW c \in Calls, PollConfirms(c) PROVE Attribution'
  <2> DEFINE k == Len(runs)
  <2>1. /\ k \in (base[c] + 1)..Len(runs) /\ runs[k].by = LoginOf[c]
        /\ Confirm(c, k)
    BY <1>4, CountersShown DEF PollConfirms, ShowsRunOf, ApprovedBy, TypeOK, CallTypeOK
  <2>2. UNCHANGED <<runs, base>>
    BY <2>1 DEF Confirm, gocd
  <2>3. result'[c] = Confirmed(k) /\ \A d \in Calls : d # c => result'[d] = result[d]
    BY <2>1 DEF Confirm, Return, TypeOK, CallTypeOK
  <2>4. ConfirmedLater'
    <3> SUFFICES ASSUME NEW d \in Calls, result'[d].kind = "confirmed"
                 PROVE  /\ result'[d].counter \in (base[d] + 1)..Len(runs)
                        /\ runs[result'[d].counter].by = LoginOf[d]
      BY <2>2 DEF ConfirmedLater
    <3>1. CASE d = c
      BY <2>1, <2>3, <3>1 DEF Confirmed
    <3>2. CASE d # c
      BY <2>3, <3>2 DEF Attribution, ConfirmedLater
    <3> QED
      BY <3>1, <3>2
  <2>5. RunsHaveSources'
    BY <2>2 DEF Attribution, RunsHaveSources, SourceOf
  <2> QED
    BY <2>4, <2>5 DEF Attribution
<1>5. ASSUME NEW c \in Calls, PollMisses(c) PROVE Only(c)
  <2>1. pc[c] = "wait" /\ UNCHANGED <<runs, base>> /\ (Goto(c, "wait") \/ Return(c, Unconfirmed))
    BY <1>5 DEF PollMisses, Miss, gocd
  <2>2. result[c] = NoResult
    BY <2>1 DEF Attribution, PcAgrees
  <2> QED
    BY <2>1, <2>2 DEF Goto, Return, Unconfirmed, TypeOK, CallTypeOK, NoResult
<1>6. ASSUME NEW c \in Calls, Retry(c) PROVE Only(c)
  BY <1>6 DEF Retry, NoResult, TypeOK, CallTypeOK, gocd
<1>7. CASE UNCHANGED <<runs, base, pc, result>>
  BY <1>7 DEF Attribution, PcAgrees, RunsHaveSources, SourceOf, ConfirmedLater
<1>8. CASE GoCD
  BY <1>7, <1>8, GoCDSteps, AttributionGrows
<1>9. CASE UNCHANGED vars
  BY <1>7, <1>9 DEF vars, callVars
<1> HIDE DEF Only
<1> QED
  BY <1>0, <1>1, <1>2, <1>3, <1>4, <1>5, <1>6, <1>8, <1>9 DEF Next, Step

(* The inductive strengthening of the theorem below.                       *)
THEOREM AttributionHolds == Spec => []Attribution
<1>1. Init => Attribution
  BY DEF Init, CallInit, Attribution, PcAgrees, RunsHaveSources, ConfirmedLater, NoResult
<1>2. Delivery => PcAgrees
  BY DEF Delivery
<1> QED
  BY <1>1, <1>2, AttributionStep, DeliveryHolds, TypeCorrect, PTL DEF Spec

(* A confirmed stage run is the caller's own.                              *)
THEOREM ConfirmsOwnRun == Spec => []ConfirmedIsOwn
<1>1. TypeOK /\ Delivery /\ Attribution => ConfirmedIsOwn
  <2> SUFFICES ASSUME TypeOK, Delivery, Attribution,
                      NEW c \in Calls, SoleUser(c), result[c].kind = "confirmed"
               PROVE  \E r \in runs[result[c].counter].src :
                         r.call = c /\ (r = Request(c) \/ r \in lost)
    BY DEF ConfirmedIsOwn, ConfirmedOwn
  <2> DEFINE k == result[c].counter
  <2>1. base[c] \in Nat /\ k \in (base[c] + 1)..Len(runs) /\ runs[k].by = LoginOf[c]
    BY DEF TypeOK, CallTypeOK, Attribution, ConfirmedLater
  <2>2. k \in 1..Len(runs)
    BY <2>1
  <2>3. PICK r \in Requests : runs[k].src = {r} /\ runs[k].by = LoginOf[r.call]
    BY <2>1, <2>2 DEF Attribution, RunsHaveSources, SourceOf, SoleUser
  <2>4. r.call = c /\ r.try \in 1..MaxTries /\ r = [call |-> c, try |-> r.try]
    BY <2>1, <2>3 DEF SoleUser, Requests
  <2>5. Sent([call |-> c, try |-> r.try])
    BY <2>2, <2>3, <2>4 DEF Sent, Ran
  <2>6. r.try < try[c] \/ r.try = try[c]
    BY <2>4, <2>5 DEF Delivery, SentInTime
  <2>7. r = Request(c) \/ r \in lost
    BY <2>4, <2>5, <2>6 DEF Delivery, PastTriesLost, Request
  <2> QED
    BY <2>3, <2>4, <2>7
<1> QED
  BY <1>1, AttributionHolds, DeliveryHolds, TypeCorrect, PTL

-------------------------------------------------------------------------------
(* What the instance shows of a call's own run.                            *)

(* Every step keeps a call's own run after its baseline.                   *)
LEMMA BaselineStep ==
    TypeOK /\ Delivery /\ RunsAfterBaseline /\ [Next]_vars => RunsAfterBaseline'
<1> SUFFICES ASSUME TypeOK, Delivery, RunsAfterBaseline, [Next]_vars PROVE RunsAfterBaseline'
  OBVIOUS
<1>1. CallTypeOK /\ runs \in Seq(Runs)
  BY DEF TypeOK
<1>2. ASSUME NEW c \in Calls, Step(c) PROVE RunsAfterBaseline'
  BY <1>1, <1>2, StepsOfACall, CallKeepsBaselines
<1>3. ASSUME NEW c \in Calls, Retry(c) PROVE RunsAfterBaseline'
  <2>1. \A j : ~Baseline(c, j)
    BY <1>3 DEF Retry, Baseline
  <2> QED
    BY <1>1, <1>3, <2>1, CallKeepsBaselines
<1>4. CASE UNCHANGED <<runs, base, try>>
  BY <1>4 DEF RunsAfterBaseline, Request
<1>5. CASE GoCD
  BY <1>1, <1>4, <1>5, GoCDSteps, GrowthKeepsBaselines
<1>6. CASE UNCHANGED vars
  BY <1>4, <1>6 DEF vars, callVars
<1> QED
  BY <1>2, <1>3, <1>5, <1>6 DEF Next

(* A call that gives up after its last poll overlooked its run only if a   *)
(* later one hid it.                                                       *)
THEOREM OverlooksOnlyHidden == Spec => OnlyHiddenRunsAreMissed
<1> DEFINE Inv == TypeOK /\ Delivery /\ Attribution /\ RunsAfterBaseline
<1>1. Spec => []RunsAfterBaseline
  BY BaselineInit, BaselineStep, TypeCorrect, DeliveryHolds, PTL DEF Spec, Init
<1>2. Inv /\ [Next]_vars => [OverlooksHidden]_vars
  <2> SUFFICES ASSUME Inv, [Next]_vars, ~UNCHANGED vars, NEW c \in Calls, GivesUp(c),
                      NEW k \in 1..Len(runs), Request(c) \in runs[k].src, k >= Len(runs)
               PROVE  FALSE
    BY DEF OverlooksHidden, TypeOK
  <2>1. k = Len(runs) /\ k > base[c]
    BY DEF RunsAfterBaseline, TypeOK
  <2>2. runs[k].by = LoginOf[c]
    <3>1. Request(c).call = c
      BY DEF Request
    <3> QED
      BY <3>1 DEF Attribution, RunsHaveSources, SourceOf
  <2>3. ShowsRunOf(c)
    BY <2>1, <2>2 DEF ShowsRunOf, Scheduled, ShownCounter, ApprovedBy, TypeOK
  <2>4. pc[c] = "wait" /\ attempt'[c] # attempt[c] /\ result'[c] = Unconfirmed
    BY DEF GivesUp, TypeOK, CallTypeOK
  <2>5. ASSUME NEW d \in Calls, Step(d) PROVE FALSE
    <3>1. PollMisses(d)
      BY <2>4, <2>5, RunStageIsPosted
         DEF Step, Posted, FailEarly, ReadStage, Baseline, PollConfirms, Confirm, PollFails
    <3>2. d = c
      BY <2>4, <3>1 DEF PollMisses, Miss, TypeOK, CallTypeOK
    <3> QED
      BY <2>3, <3>1, <3>2 DEF PollMisses
  <2>6. ASSUME NEW d \in Calls, Retry(d) PROVE FALSE
    <3>1. d = c
      BY <2>4, <2>6 DEF Retry, TypeOK, CallTypeOK
    <3> QED
      BY <2>4, <2>6, <3>1 DEF Retry
  <2>7. ~GoCD
    BY <2>4, GoCDSteps
  <2> QED
    BY <2>5, <2>6, <2>7 DEF Next
<1> QED
  BY <1>1, <1>2, TypeCorrect, DeliveryHolds, AttributionHolds, PTL
     DEF Spec, OnlyHiddenRunsAreMissed

(* A call that posts while a stage is in progress gets an error.           *)
THEOREM RefusalsAreErrors == Spec => RefusedWhileActive
<1>1. TypeOK /\ [Next]_vars => [RefusesWhileActive]_vars
  <2> SUFFICES ASSUME TypeOK, [Next]_vars, ~UNCHANGED vars, NEW c \in Calls,
                      pc[c] = "schedule", pc'[c] # "schedule", active
               PROVE  result'[c] = Error
    BY DEF RefusesWhileActive
  <2>1. ASSUME NEW d \in Calls, NEW code \in Codes, RunStage(d, code) PROVE result'[c] = Error
    <3>1. ~Success(code)
      BY <2>1 DEF RunStage, Answers
    <3>2. ~StageAccepted(code)
      BY <3>1, CodesAssumption DEF StageAccepted, ErrorOf, Success, NoResponse
    <3>3. Return(d, Error)
      BY <2>1, <3>2 DEF RunStage, Post
    <3>4. d = c
      BY <3>3 DEF Return, TypeOK, CallTypeOK
    <3> QED
      BY <3>3, <3>4 DEF Return, TypeOK, CallTypeOK
  <2>2. ASSUME NEW d \in Calls,
               FailEarly(d) \/ ReadStage(d) \/ PollConfirms(d) \/ PollMisses(d) \/ PollFails(d)
        PROVE  FALSE
    BY <2>2 DEF FailEarly, ReadStage, Baseline, PollConfirms, Confirm, PollMisses, Miss, PollFails,
                Goto, Return, TypeOK, CallTypeOK
  <2>3. ASSUME NEW d \in Calls, Retry(d) PROVE FALSE
    BY <2>3 DEF Retry, TypeOK, CallTypeOK
  <2>4. ~GoCD
    BY GoCDSteps
  <2> QED
    BY <2>1, <2>2, <2>3, <2>4 DEF Next, Step
<1> QED
  BY <1>1, TypeCorrect, PTL DEF Spec, RefusedWhileActive

-------------------------------------------------------------------------------
(* The trigger keeps the promise of AttributedRun.                         *)

Log == [k \in 1..Len(runs) |-> runs[k].by]

(* The log is as long as the history of the stage.                         *)
LEMMA LogTypes ==
    ASSUME TypeOK
    PROVE  Log \in Seq(Logins \cup {Changes}) /\ Len(Log) = Len(runs)
<1>1. Len(runs) \in Nat
  BY DEF TypeOK
<1>2. \A k \in 1..Len(runs) : runs[k].by \in Logins \cup {Changes}
  <2>1. \A k \in 1..Len(runs) : runs[k] \in Runs
    BY <1>1 DEF TypeOK
  <2> QED
    BY <2>1 DEF Runs
<1> QED
  BY <1>1, <1>2 DEF Log

(* A new run is appended to the log.                                       *)
LEMMA LogAppends ==
    ASSUME TypeOK, NEW r \in Runs, AddRun(r)
    PROVE  Log' = Append(Log, r.by)
<1>1. /\ Len(runs') = Len(runs) + 1 /\ Len(runs) \in Nat
      /\ \A k \in 1..Len(runs) : runs'[k] = runs[k]
      /\ runs'[Len(runs) + 1] = r
  BY AppendRun DEF TypeOK
<1>2. Log \in Seq(Logins \cup {Changes}) /\ Len(Log) = Len(runs)
  BY LogTypes
<1>3. r.by \in Logins \cup {Changes}
  BY DEF Runs
<1>4. Log' = [k \in 1..(Len(runs) + 1) |-> runs'[k].by]
  BY <1>1 DEF Log
<1>5. Append(Log, r.by) = [k \in 1..(Len(runs) + 1) |->
                              IF k = Len(runs) + 1 THEN r.by ELSE runs[k].by]
  BY <1>1, <1>2, <1>3 DEF Log
<1>6. \A k \in 1..(Len(runs) + 1) :
         runs'[k].by = IF k = Len(runs) + 1 THEN r.by ELSE runs[k].by
  BY <1>1
<1> QED
  BY <1>4, <1>5, <1>6

(* Log, base and Out are the variables the promise is about.               *)
LEMMA PromiseVars ==
    /\ Promise!vars = <<Log, base, Out>>
    /\ \A c \in Calls : Out[c] = Outcome(c)
  BY DEF Promise!vars, Log, Out

(* Every step of the trigger is a step of the promise, or changes nothing  *)
(* that the promise is about.                                              *)
LEMMA PromiseStep == TypeOK /\ [Next]_vars => [Promise!Next]_(Promise!vars)
<1> SUFFICES ASSUME TypeOK, [Next]_vars PROVE [Promise!Next]_(Promise!vars)
  OBVIOUS
<1>t. CallTypeOK
  BY DEF TypeOK
<1> USE <1>t DEF gocd
<1>l. Len(Log) = Len(runs) /\ Len(runs) \in Nat
  BY LogTypes DEF TypeOK
<1>1. ASSUME NEW c \in Calls, FailEarly(c) PROVE Promise!Fail(c)
  <2>1. Out[c] = [status |-> "new", run |-> 0]
    BY <1>1, PromiseVars DEF FailEarly, Outcome
  <2>2. Log' = Log /\ base' = base /\ Return(c, Error)
    BY <1>1 DEF FailEarly, Log
  <2>3. Out' = [Out EXCEPT ![c] = [status |-> "error", run |-> 0]]
    BY <2>2, ReturnMoves DEF Outcome, Error
  <2> QED
    BY <2>1, <2>2, <2>3 DEF Promise!Fail, Promise!Move, Promise!Status, Log, Out
<1>2. ASSUME NEW c \in Calls, ReadStage(c) PROVE Promise!Mark(c)
  <2>1. Out' = [Out EXCEPT ![c] = [status |-> "marked", run |-> 0]] /\ Out[c] = [status |-> "new", run |-> 0]
    BY <1>2, GotoMoves, PromiseVars DEF ReadStage, Baseline, Outcome
  <2>2. Log' = Log
    BY <1>2 DEF ReadStage, Baseline, Log
  <2>3. base' = [base EXCEPT ![c] = Len(Log)]
    BY <1>2, <1>l, CountersShown DEF ReadStage, Baseline
  <2> QED
    BY <2>1, <2>2, <2>3 DEF Promise!Mark, Promise!Status, Log, Out
<1>3. ASSUME NEW c \in Calls, NEW code \in Codes, RunStage(c, code)
      PROVE  Promise!Accept(c) \/ Promise!Fail(c)
  <2>1. Out[c] = [status |-> "marked", run |-> 0]
    BY <1>3, PromiseVars DEF RunStage, Post, Outcome
  <2>2. Log' = Log /\ base' = base
    BY <1>3 DEF RunStage, Post, Log
  <2>3. CASE Goto(c, "wait")
    <3>1. Out' = [Out EXCEPT ![c] = [status |-> "accepted", run |-> 0]]
      BY <2>3, GotoMoves DEF Outcome
    <3> QED
      BY <2>1, <2>2, <3>1 DEF Promise!Accept, Promise!Move, Promise!Status, Log, Out
  <2>4. CASE Return(c, Error)
    <3>1. Out' = [Out EXCEPT ![c] = [status |-> "error", run |-> 0]]
      BY <2>4, ReturnMoves DEF Outcome, Error
    <3> QED
      BY <2>1, <2>2, <3>1 DEF Promise!Fail, Promise!Move, Promise!Status, Log, Out
  <2> QED
    BY <1>3, <2>3, <2>4 DEF RunStage, Post
<1>4. ASSUME NEW c \in Calls, PollConfirms(c) PROVE Promise!Confirm(c)
  <2> DEFINE k == Len(runs)
  <2>1. /\ k \in (base[c] + 1)..Len(runs) /\ runs[k].by = LoginOf[c]
        /\ Return(c, Confirmed(k))
    BY <1>4, CountersShown DEF PollConfirms, Confirm, ShowsRunOf, ApprovedBy, CallTypeOK
  <2>2. k \in (base[c] + 1)..Len(Log)
    BY <1>l, <2>1
  <2>3. Log[k] = LoginOf[c]
    BY <1>l, <2>1 DEF Log, CallTypeOK
  <2>4. Out' = [Out EXCEPT ![c] = [status |-> "confirmed", run |-> k]]
    BY <2>1, ReturnMoves DEF Outcome, Confirmed
  <2>5. Out[c] = [status |-> "accepted", run |-> 0]
    BY <1>4, PromiseVars DEF PollConfirms, Confirm, Outcome
  <2>6. Log' = Log /\ base' = base
    BY <1>4 DEF PollConfirms, Confirm, Log
  <2> QED
    BY <2>2, <2>3, <2>4, <2>5, <2>6
       DEF Promise!Confirm, Promise!Move, Promise!Status, Log, Out
<1>5. ASSUME NEW c \in Calls, PollMisses(c)
      PROVE  Promise!GiveUp(c) \/ UNCHANGED Promise!vars
  <2>1. Out[c] = [status |-> "accepted", run |-> 0] /\ pc[c] = "wait"
    BY <1>5, PromiseVars DEF PollMisses, Miss, Outcome
  <2>2. Log' = Log /\ base' = base
    BY <1>5 DEF PollMisses, Miss, Log
  <2>3. CASE Goto(c, "wait")
    <3>1. Out' = Out
      BY <2>1, <2>3, GotoMoves DEF Outcome, Out
    <3> QED
      BY <2>2, <3>1 DEF Promise!vars, Log, Out
  <2>4. CASE Return(c, Unconfirmed)
    <3>1. Out' = [Out EXCEPT ![c] = [status |-> "unconfirmed", run |-> 0]]
      BY <2>4, ReturnMoves DEF Outcome, Unconfirmed
    <3> QED
      BY <2>1, <2>2, <3>1 DEF Promise!GiveUp, Promise!Move, Promise!Status, Log, Out
  <2> QED
    BY <1>5, <2>3, <2>4 DEF PollMisses, Miss
<1>6. ASSUME NEW c \in Calls, PollFails(c) PROVE Promise!GiveUp(c)
  <2>1. Out[c] = [status |-> "accepted", run |-> 0]
    BY <1>6, PromiseVars DEF PollFails, Outcome
  <2>2. Log' = Log /\ base' = base /\ Return(c, Unconfirmed)
    BY <1>6 DEF PollFails, Log
  <2>3. Out' = [Out EXCEPT ![c] = [status |-> "unconfirmed", run |-> 0]]
    BY <2>2, ReturnMoves DEF Outcome, Unconfirmed
  <2> QED
    BY <2>1, <2>2, <2>3 DEF Promise!GiveUp, Promise!Move, Promise!Status, Log, Out
<1>7. ASSUME NEW c \in Calls, Retry(c) PROVE Promise!Again(c)
  <2>1. \A d \in Calls : d # c => pc'[d] = pc[d] /\ result'[d] = result[d]
    BY <1>7 DEF Retry, CallTypeOK
  <2>2. Outcome(c)' = [status |-> "new", run |-> 0]
    BY <1>7 DEF Retry, Outcome, CallTypeOK
  <2>3. Out[c] = [status |-> "error", run |-> 0]
    BY <1>7, PromiseVars DEF Retry, Outcome, Error
  <2>4. Log' = Log /\ base' = [base EXCEPT ![c] = 0]
    BY <1>7 DEF Retry, Log
  <2>5. Out' = [Out EXCEPT ![c] = [status |-> "new", run |-> 0]]
    BY <2>1, <2>2, OutcomeMoves
  <2> QED
    BY <2>3, <2>4, <2>5 DEF Promise!Again, Promise!Status, Log, Out
<1>8. ASSUME NEW r \in Runs, AddRun(r) PROVE Promise!NewRun
  <2>1. Log' = Append(Log, r.by) /\ r.by \in Logins \cup {Changes}
    BY <1>8, LogAppends DEF Runs
  <2>2. Out' = Out /\ base' = base
    BY <1>8 DEF Out, Outcome, AddRun
  <2> QED
    BY <2>1, <2>2 DEF Promise!NewRun, Log, Out
<1>9. ASSUME UNCHANGED <<runs, pc, base, result>> PROVE UNCHANGED Promise!vars
  BY <1>9 DEF Promise!vars, Outcome
<1>10. ASSUME GoCD PROVE Promise!NewRun \/ UNCHANGED Promise!vars
  <2>1. CASE UNCHANGED runs
    BY <1>9, <1>10, <2>1, GoCDSteps
  <2>2. CASE ~UNCHANGED runs
    BY <1>8, <1>10, <2>2, GoCDSteps
  <2> QED
    BY <2>1, <2>2
<1>11. CASE UNCHANGED vars
  BY <1>9, <1>11 DEF vars, callVars
<1> QED
  BY <1>1, <1>2, <1>3, <1>4, <1>5, <1>6, <1>7, <1>10, <1>11
     DEF Next, Step, Promise!Next

(* Running a stage implements the promise.                           *)
THEOREM TriggerKeepsPromise == Spec => KeepsPromise
<1>1. Init => Promise!Init
  <2> SUFFICES ASSUME Init PROVE Promise!Init
    OBVIOUS
  <2>1. Log = <<>>
    BY DEF Init, CallInit, Log
  <2>2. Out = [c \in Calls |-> [status |-> "new", run |-> 0]]
    BY DEF Init, CallInit, Out, Outcome
  <2> QED
    BY <2>1, <2>2 DEF Init, CallInit, Promise!Init, Promise!Status, Log, Out
<1> QED
  BY <1>1, PromiseStep, TypeCorrect, PTL DEF Spec, KeepsPromise, Promise!Spec

===============================================================================
