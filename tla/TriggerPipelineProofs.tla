------------------------ MODULE TriggerPipelineProofs ------------------------
(***************************************************************************)
(* Proofs about TriggerPipeline, for every set of calls, logins and        *)
(* foreign runs, every page size and every number of attempts.             *)
(***************************************************************************)
EXTENDS TriggerPipeline, TriggerCallProofs

(* The run a request materialises as, and a run of another origin, are     *)
(* runs.                                                                   *)
LEMMA NewRunsAreRuns ==
    /\ \A req \in Requests : [by |-> LoginOf[req.call], forced |-> TRUE, src |-> {req}] \in Runs
    /\ \A o \in OtherRuns : [by |-> o.by, forced |-> o.forced, src |-> {}] \in Runs
  BY LoginsAssumption, OtherRunsAssumption DEF Runs, Requests

(* Which answers start the wait.                                           *)
LEMMA AcceptedCodes ==
    ASSUME NEW code \in Nat
    PROVE  Accepted(code) <=> Success(code) \/ code = 409
  BY DEF Accepted, ErrorOf, Success, NoResponse

(* GoCD answers a refused schedule request only if it did not schedule.    *)
LEMMA ScheduleIsPosted ==
    ASSUME NEW c \in Calls, NEW code \in Codes, Schedule(c, code)
    PROVE  Posted(c)
<1>1. ~Accepted(code) /\ ~Undecided(code) => ~(MayHaveActed(code) \/ code = 409)
  BY AcceptedCodes, CodesAssumption DEF MayHaveActed
<1> QED
  BY <1>1, PostIsPosted DEF Schedule

(* The steps of a call that leave GoCD alone.                              *)
LEMMA PollsAreQuiet ==
    ASSUME TypeOK, NEW c \in Calls,
           FailEarly(c) \/ ReadBaseline(c) \/ PollConfirms(c) \/ PollMisses(c) \/ PollFails(c)
    PROVE  Quiet(c) /\ UNCHANGED runs
<1>1. FirstPage \subseteq Nat /\ 0..Len(runs) \subseteq Nat
  BY DEF FirstPage
<1>2. Quiet(c)
  BY <1>1 DEF ReadBaseline, PollConfirms, PollMisses, Quiet
<1> QED
  BY <1>2 DEF Quiet, FailEarly, Baseline, Confirm, Miss, PollFails, gocd

(* A run has one source, and carries its source's login.                   *)
SourceOf(r) == \/ r.src = {} /\ \E o \in OtherRuns : o.forced = r.forced /\ o.by = r.by
               \/ \E req \in Requests : /\ r.src = {req}
                                        /\ r.forced /\ r.by = LoginOf[req.call]

(* What GoCD does leaves the calls alone; if it runs something, the run is *)
(* a new request of its queue's or of another origin.                      *)
LEMMA GoCDSteps ==
    ASSUME TypeOK, GoCD
    PROVE  /\ UNCHANGED <<pc, base, attempt, result, try, lost>>
           /\ queue' \subseteq queue
           /\ \/ UNCHANGED runs
              \/ \E r \in Runs : AddRun(r) /\ r.src \subseteq queue /\ SourceOf(r)
<1>1. ASSUME NEW q \in queue, Materialize(q)
      PROVE  \E r \in Runs : /\ AddRun(r) /\ queue' \subseteq queue
                             /\ r.src \subseteq queue /\ SourceOf(r)
  <2> DEFINE r == [by |-> LoginOf[q.call], forced |-> TRUE, src |-> {q}]
  <2>1. q \in Requests /\ r \in Runs /\ AddRun(r) /\ queue' \subseteq queue
    BY <1>1, NewRunsAreRuns DEF Materialize, TypeOK, CallTypeOK
  <2>2. r.src \subseteq queue /\ SourceOf(r)
    BY <2>1 DEF SourceOf
  <2> HIDE DEF r
  <2> QED
    BY <2>1, <2>2
<1>2. ASSUME NEW o \in OtherRuns, OtherRun(o)
      PROVE  \E r \in Runs : /\ AddRun(r) /\ queue' \subseteq queue
                             /\ r.src \subseteq queue /\ SourceOf(r)
  <2> DEFINE r == [by |-> o.by, forced |-> o.forced, src |-> {}]
  <2>1. r \in Runs /\ AddRun(r) /\ queue' \subseteq queue
    BY <1>2, NewRunsAreRuns DEF OtherRun
  <2>2. r.src \subseteq queue /\ SourceOf(r)
    BY DEF SourceOf
  <2> HIDE DEF r
  <2> QED
    BY <2>1, <2>2
<1>3. ASSUME NEW q \in queue, Drop(q)
      PROVE  UNCHANGED <<runs, pc, base, attempt, result, try, lost>> /\ queue' \subseteq queue
  BY <1>3 DEF Drop
<1>4. \A r : AddRun(r) => UNCHANGED <<pc, base, attempt, result, try, lost>>
  BY DEF AddRun
<1> QED
  BY <1>1, <1>2, <1>3, <1>4 DEF GoCD

(* Every variable keeps its type.                                          *)
LEMMA TypeStep == TypeOK /\ [Next]_vars => TypeOK'
<1> SUFFICES ASSUME TypeOK, [Next]_vars PROVE TypeOK'
  OBVIOUS
<1> USE DEF TypeOK
<1>1. ASSUME NEW c \in Calls, Step(c) PROVE TypeOK'
  <2>1. CASE \E code \in Codes : Schedule(c, code)
    BY <2>1, ScheduleIsPosted, PostTypes DEF Posted
  <2>2. CASE ~\E code \in Codes : Schedule(c, code)
    BY <1>1, <2>2, PollsAreQuiet, QuietTypes DEF Step
  <2> QED
    BY <2>1, <2>2
<1>2. ASSUME NEW c \in Calls, Retry(c) PROVE TypeOK'
  BY <1>2, RetryTypes DEF Retry, gocd
<1>3. CASE GoCD
  <2>1. runs' \in Seq(Runs)
    BY <1>3, GoCDSteps, AppendRun
  <2> QED
    BY <1>3, <2>1, GoCDSteps DEF CallTypeOK
<1>4. CASE UNCHANGED vars
  BY <1>4 DEF vars, callVars, CallTypeOK
<1> QED
  BY <1>1, <1>2, <1>3, <1>4 DEF Next

(* Every variable keeps its type, whatever the constants.                  *)
THEOREM TypeCorrect == Spec => []TypeOK
<1>1. Init => TypeOK
  BY InitTypes DEF Init, CallInit, TypeOK
<1> QED
  BY <1>1, TypeStep, PTL DEF Spec

-------------------------------------------------------------------------------
(* Requests *)

(* Every step keeps the life of the requests in order.                     *)
LEMMA DeliveryStep == TypeOK /\ Delivery /\ [Next]_vars => Delivery'
<1> SUFFICES ASSUME TypeOK, Delivery, [Next]_vars PROVE Delivery'
  OBVIOUS
<1> USE DEF TypeOK
<1>1. ASSUME NEW c \in Calls, Step(c) PROVE Delivery'
  <2>1. CASE \E code \in Codes : Schedule(c, code)
    BY <2>1, ScheduleIsPosted, PostDelivers
  <2>2. CASE ~\E code \in Codes : Schedule(c, code)
    BY <1>1, <2>2, PollsAreQuiet, QuietDelivers DEF Step
  <2> QED
    BY <2>1, <2>2
<1>2. ASSUME NEW c \in Calls, Retry(c) PROVE Delivery'
  BY <1>2, RetryDelivers
<1>3. CASE GoCD
  <2>1. \A req : Sent(req)' => Sent(req)
    <3>1. CASE UNCHANGED runs
      BY <1>3, <3>1, GoCDSteps DEF Sent, Ran
    <3>2. CASE ~UNCHANGED runs
      <4>1. PICK r \in Runs : AddRun(r) /\ r.src \subseteq queue
        BY <1>3, <3>2, GoCDSteps
      <4>2. \A req : Ran(req)' <=> Ran(req) \/ req \in r.src
        BY <4>1, RanGrows
      <4> QED
        BY <1>3, <4>1, <4>2, GoCDSteps DEF Sent
    <3> QED
      BY <3>1, <3>2
  <2> QED
    BY <1>3, <2>1, GoCDSteps, GoCDDelivers
<1>4. CASE UNCHANGED vars
  BY <1>4 DEF vars, callVars, Delivery, PcAgrees, SentInTime, PastTriesLost,
              ErrorMeansUnscheduled, Sent, Ran, Request
<1> QED
  BY <1>1, <1>2, <1>3, <1>4 DEF Next

(* The inductive strengthening of the two theorems below.                  *)
THEOREM DeliveryHolds == Spec => []Delivery
  BY DeliveryInit, DeliveryStep, TypeCorrect, PTL DEF Spec, Init

(* An error says that nothing was scheduled, unless the answer was lost.   *)
THEOREM ErrorsAreSafe == Spec => []ErrorMeansUnscheduled
<1>1. Delivery => ErrorMeansUnscheduled
  BY DEF Delivery
<1> QED
  BY <1>1, DeliveryHolds, PTL

(* Retrying errors runs the pipeline twice only after a lost answer.       *)
THEOREM RetriesAreSafe == Spec => []NoDoubleRun
<1>1. TypeOK /\ Delivery => NoDoubleRun
  BY DeliveryPreventsDoubleRuns DEF TypeOK
<1> QED
  BY <1>1, DeliveryHolds, TypeCorrect, PTL

-------------------------------------------------------------------------------
(* Whose run a call confirms.                                              *)

(* A run attributed to c in the whole history, not only on the first page. *)
Owned(c, k) == runs[k].forced /\ runs[k].by = LoginOf[c]

RunsHaveSources == \A k \in 1..Len(runs) : SourceOf(runs[k])

(* A confirmed run is attributed to its call, and every attributed run     *)
(* before it has left the first page.                                      *)
ConfirmedFirst ==
    \A c \in Calls : result[c].kind = "confirmed" =>
        /\ result[c].counter \in (base[c] + 1)..Len(runs)
        /\ Owned(c, result[c].counter)
        /\ \A j \in (base[c] + 1)..(result[c].counter - 1) :
              Owned(c, j) => j <= Len(runs) - PageSize

Attribution == PcAgrees /\ RunsHaveSources /\ ConfirmedFirst

(* What a new run leaves in place.                                         *)
LEMMA AttributionGrows ==
    ASSUME TypeOK, Attribution, NEW r \in Runs, SourceOf(r), AddRun(r)
    PROVE  Attribution'
<1>1. /\ Len(runs') = Len(runs) + 1
      /\ \A k \in 1..Len(runs) : runs'[k] = runs[k]
      /\ runs'[Len(runs) + 1] = r
      /\ Len(runs) \in Nat /\ UNCHANGED <<pc, base, result>>
  BY AppendRun DEF AddRun, TypeOK
<1>2. PcAgrees'
  BY <1>1 DEF Attribution, PcAgrees
<1>3. RunsHaveSources'
  <2> SUFFICES ASSUME NEW k \in 1..Len(runs') PROVE SourceOf(runs'[k])
    BY DEF RunsHaveSources, SourceOf
  <2>1. CASE k \in 1..Len(runs)
    BY <1>1, <2>1 DEF Attribution, RunsHaveSources
  <2>2. CASE k = Len(runs) + 1
    BY <1>1, <2>2
  <2> QED
    BY <1>1, <2>1, <2>2
<1>4. ConfirmedFirst'
  <2> SUFFICES ASSUME NEW c \in Calls, result[c].kind = "confirmed"
               PROVE  /\ result[c].counter \in (base[c] + 1)..Len(runs')
                      /\ runs'[result[c].counter].forced /\ runs'[result[c].counter].by = LoginOf[c]
                      /\ \A j \in (base[c] + 1)..(result[c].counter - 1) :
                            (runs'[j].forced /\ runs'[j].by = LoginOf[c])
                                => j <= Len(runs') - PageSize
    BY <1>1 DEF ConfirmedFirst, Owned
  <2>1. base[c] \in Nat /\ result[c].counter \in Nat /\ PageSize \in Nat
    BY PageAssumption DEF TypeOK, CallTypeOK, Results
  <2>2. /\ result[c].counter \in (base[c] + 1)..Len(runs)
        /\ Owned(c, result[c].counter)
        /\ \A j \in (base[c] + 1)..(result[c].counter - 1) :
              Owned(c, j) => j <= Len(runs) - PageSize
    BY DEF Attribution, ConfirmedFirst
  <2>3. \A j \in (base[c] + 1)..result[c].counter : runs'[j] = runs[j]
    BY <1>1, <2>1, <2>2
  <2> DEFINE k == result[c].counter
  <2>4. k \in (base[c] + 1)..Len(runs') /\ runs'[k] = runs[k]
    BY <1>1, <2>1, <2>2, <2>3
  <2>5. \A j \in (base[c] + 1)..(k - 1) :
           (runs'[j].forced /\ runs'[j].by = LoginOf[c]) => j <= Len(runs') - PageSize
    <3> SUFFICES ASSUME NEW j \in (base[c] + 1)..(k - 1), Owned(c, j)
                 PROVE  j <= Len(runs') - PageSize
      BY <2>1, <2>3 DEF Owned
    <3>1. j <= Len(runs) - PageSize
      BY <2>2
    <3> QED
      BY <1>1, <2>1, <3>1
  <2> QED
    BY <2>2, <2>4, <2>5 DEF Owned
<1> QED
  BY <1>2, <1>3, <1>4 DEF Attribution

(* Steps that neither add a run nor confirm one.                           *)
LEMMA AttributionKept ==
    ASSUME TypeOK, Attribution, NEW c \in Calls, runs' = runs,
           PcAgrees', result'[c].kind # "confirmed",
           \A d \in Calls : d # c => base'[d] = base[d] /\ result'[d] = result[d]
    PROVE  Attribution'
<1>1. RunsHaveSources'
  BY DEF Attribution, RunsHaveSources, SourceOf
<1>2. ConfirmedFirst'
  BY DEF Attribution, ConfirmedFirst, Owned
<1> QED
  BY <1>1, <1>2 DEF Attribution

(* Every step of a call, and of GoCD, keeps the attribution.               *)
LEMMA AttributionStep == TypeOK /\ Attribution /\ PcAgrees' /\ [Next]_vars => Attribution'
<1> SUFFICES ASSUME TypeOK, Attribution, PcAgrees', [Next]_vars PROVE Attribution'
  OBVIOUS
<1> DEFINE Only(c) == /\ runs' = runs /\ result'[c].kind # "confirmed"
                      /\ \A d \in Calls : d # c => base'[d] = base[d] /\ result'[d] = result[d]
<1>0. \A c \in Calls : Only(c) => Attribution'
  BY AttributionKept
<1>1. ASSUME NEW c \in Calls, FailEarly(c) \/ PollFails(c) PROVE Only(c)
  BY <1>1 DEF FailEarly, PollFails, Return, Error, Unconfirmed, TypeOK, CallTypeOK, gocd
<1>2. ASSUME NEW c \in Calls, ReadBaseline(c) PROVE Only(c)
  <2>1. result[c] = NoResult
    BY <1>2 DEF ReadBaseline, Baseline, Attribution, PcAgrees
  <2> QED
    BY <1>2, <2>1 DEF ReadBaseline, Baseline, Goto, TypeOK, CallTypeOK, NoResult, gocd
<1>3. ASSUME NEW c \in Calls, NEW code \in Codes, Schedule(c, code) PROVE Only(c)
  <2>1. Posted(c)
    BY <1>3, ScheduleIsPosted
  <2>2. result[c] = NoResult
    BY <2>1 DEF Posted, Attribution, PcAgrees
  <2> QED
    BY <2>1, <2>2 DEF Posted, Goto, Return, Error, TypeOK, CallTypeOK, NoResult
<1>4. ASSUME NEW c \in Calls, PollConfirms(c) PROVE Attribution'
  <2>1. PICK k \in FirstPage : NewInstance(c, k) /\ Confirm(c, k)
    BY <1>4 DEF PollConfirms
  <2>2. UNCHANGED <<runs, base>>
    BY <2>1 DEF Confirm, gocd
  <2>3. Len(runs) \in Nat /\ base[c] \in Nat /\ PageSize \in Nat
    BY PageAssumption DEF TypeOK, CallTypeOK
  <2>4. /\ k \in (base[c] + 1)..Len(runs)
        /\ Owned(c, k)
        /\ \A j \in (base[c] + 1)..(k - 1) : Owned(c, j) => j <= Len(runs) - PageSize
    BY <2>1, <2>3 DEF NewInstance, Attributed, FirstPage, Owned
  <2>5. result'[c] = Confirmed(k) /\ \A d \in Calls : d # c => result'[d] = result[d]
    BY <2>1 DEF Confirm, Return, TypeOK, CallTypeOK
  <2>6. ConfirmedFirst'
    <3> SUFFICES ASSUME NEW d \in Calls, result'[d].kind = "confirmed"
                 PROVE  /\ result'[d].counter \in (base[d] + 1)..Len(runs)
                        /\ Owned(d, result'[d].counter)
                        /\ \A j \in (base[d] + 1)..(result'[d].counter - 1) :
                              Owned(d, j) => j <= Len(runs) - PageSize
      BY <2>2 DEF ConfirmedFirst, Owned
    <3>1. CASE d = c
      BY <2>4, <2>5, <3>1 DEF Confirmed
    <3>2. CASE d # c
      BY <2>5, <3>2 DEF Attribution, ConfirmedFirst
    <3> QED
      BY <3>1, <3>2
  <2>7. RunsHaveSources'
    BY <2>2 DEF Attribution, RunsHaveSources, SourceOf
  <2> QED
    BY <2>6, <2>7 DEF Attribution
<1>5. ASSUME NEW c \in Calls, PollMisses(c) PROVE Only(c)
  <2>1. pc[c] = "wait" /\ UNCHANGED <<runs, base>> /\ (Goto(c, "wait") \/ Return(c, Unconfirmed))
    BY <1>5 DEF PollMisses, Miss, gocd
  <2>2. result[c] = NoResult
    BY <2>1 DEF Attribution, PcAgrees
  <2> QED
    BY <2>1, <2>2 DEF Goto, Return, Unconfirmed, TypeOK, CallTypeOK, NoResult
<1>6. ASSUME NEW c \in Calls, Retry(c) PROVE Only(c)
  BY <1>6 DEF Retry, NoResult, TypeOK, CallTypeOK, gocd
<1>7. CASE UNCHANGED <<runs, base, pc, result>>
  BY <1>7 DEF Attribution, PcAgrees, RunsHaveSources, SourceOf, ConfirmedFirst, Owned
<1>8. CASE GoCD
  BY <1>7, <1>8, GoCDSteps, AttributionGrows
<1>9. CASE UNCHANGED vars
  BY <1>7, <1>9 DEF vars, callVars
<1> HIDE DEF Only
<1> QED
  BY <1>0, <1>1, <1>2, <1>3, <1>4, <1>5, <1>6, <1>8, <1>9 DEF Next, Step

(* The inductive strengthening of the two theorems below.                  *)
THEOREM AttributionHolds == Spec => []Attribution
<1>1. Init => Attribution
  BY DEF Init, CallInit, Attribution, PcAgrees, RunsHaveSources, ConfirmedFirst, NoResult
<1>2. Delivery => PcAgrees
  BY DEF Delivery
<1> QED
  BY <1>1, <1>2, AttributionStep, DeliveryHolds, TypeCorrect, PTL DEF Spec

(* A confirmed run is the caller's own.                                    *)
THEOREM ConfirmsOwnRun == Spec => []ConfirmedIsOwn
<1>1. TypeOK /\ Delivery /\ Attribution => ConfirmedIsOwn
  <2> SUFFICES ASSUME TypeOK, Delivery, Attribution,
                      NEW c \in Calls, SoleUser(c), result[c].kind = "confirmed"
               PROVE  \E r \in runs[result[c].counter].src :
                         r.call = c /\ (r = Request(c) \/ r \in lost)
    BY DEF ConfirmedIsOwn, ConfirmedOwn
  <2> DEFINE k == result[c].counter
  <2>1. base[c] \in Nat /\ k \in (base[c] + 1)..Len(runs) /\ Owned(c, k)
    BY DEF TypeOK, CallTypeOK, Attribution, ConfirmedFirst
  <2>2. k \in 1..Len(runs)
    BY <2>1
  <2>3. PICK r \in Requests : runs[k].src = {r} /\ runs[k].by = LoginOf[r.call]
    BY <2>1, <2>2 DEF Attribution, RunsHaveSources, SourceOf, Owned, SoleUser
  <2>4. r.call = c /\ r.try \in 1..MaxTries /\ r = [call |-> c, try |-> r.try]
    BY <2>1, <2>3 DEF SoleUser, Owned, Requests
  <2>5. Sent([call |-> c, try |-> r.try])
    BY <2>2, <2>3, <2>4 DEF Sent, Ran
  <2>6. r.try < try[c] \/ r.try = try[c]
    BY <2>4, <2>5 DEF Delivery, SentInTime
  <2>7. r = Request(c) \/ r \in lost
    BY <2>4, <2>5, <2>6 DEF Delivery, PastTriesLost, Request
  <2> QED
    BY <2>3, <2>4, <2>7
<1> QED
  BY <1>1, AttributionHolds, DeliveryHolds, TypeCorrect, PTL

(* Concurrent triggers of one login settle on the same run.                *)
THEOREM SettlesOnOneRun == Spec => []SameBaselineSameRun
<1>1. TypeOK /\ Attribution => SameBaselineSameRun
  <2> SUFFICES ASSUME TypeOK, Attribution, NEW c \in Calls, NEW d \in Calls,
                      LoginOf[c] = LoginOf[d], base[c] = base[d],
                      result[c].kind = "confirmed", result[d].kind = "confirmed",
                      Len(runs) - base[c] <= PageSize
               PROVE  result[c].counter = result[d].counter
    BY DEF SameBaselineSameRun
  <2>1. base[c] \in Nat /\ PageSize \in Nat /\ Len(runs) \in Nat
    BY PageAssumption DEF TypeOK, CallTypeOK
  <2>2. ASSUME NEW a \in {c, d}, NEW b \in {c, d}
        PROVE  ~(result[a].counter < result[b].counter)
    <3>1. /\ result[a].counter \in (base[c] + 1)..Len(runs)
          /\ result[b].counter \in (base[c] + 1)..Len(runs)
          /\ Owned(b, result[a].counter)
          /\ \A j \in (base[c] + 1)..(result[b].counter - 1) :
                Owned(b, j) => j <= Len(runs) - PageSize
      BY DEF Attribution, ConfirmedFirst, Owned
    <3> QED
      BY <2>1, <3>1
  <2>3. result[c].counter \in Nat /\ result[d].counter \in Nat
    BY DEF TypeOK, CallTypeOK, Results
  <2> QED
    BY <2>2, <2>3
<1> QED
  BY <1>1, AttributionHolds, TypeCorrect, PTL

-------------------------------------------------------------------------------
(* What the first page shows of a call's own run.                          *)

(* The baseline is the length of the history.                              *)
LEMMA BaselineIsLength ==
    ASSUME TypeOK, NEW k \in 0..Len(runs), LatestCounter(k)
    PROVE  k = Len(runs)
<1>1. Len(runs) \in Nat /\ PageSize \in Nat \ {0}
  BY PageAssumption DEF TypeOK
<1>2. Len(runs) # 0 => Len(runs) \in FirstPage
  BY <1>1 DEF FirstPage
<1> QED
  BY <1>1, <1>2 DEF LatestCounter, FirstPage

(* Every step keeps a call's own run after its baseline.                   *)
LEMMA BaselineStep ==
    TypeOK /\ Delivery /\ RunsAfterBaseline /\ [Next]_vars => RunsAfterBaseline'
<1> SUFFICES ASSUME TypeOK, Delivery, RunsAfterBaseline, [Next]_vars PROVE RunsAfterBaseline'
  OBVIOUS
<1>1. CallTypeOK /\ runs \in Seq(Runs)
  BY DEF TypeOK
<1>2. ASSUME NEW c \in Calls, Step(c) PROVE RunsAfterBaseline'
  <2>1. CASE ReadBaseline(c)
    <3>1. PICK k \in 0..Len(runs) : Baseline(c, k)
      BY <2>1 DEF ReadBaseline
    <3>2. \A j : Baseline(c, j) => j \in 0..Len(runs)
      <4>1. \A j : Baseline(c, j) => base'[c] = j
        BY <1>1 DEF Baseline, CallTypeOK
      <4> QED
        BY <3>1, <4>1
    <3> QED
      BY <1>1, <2>1, <3>2, CallKeepsBaselines, PollsAreQuiet
  <2>2. CASE ~ReadBaseline(c)
    <3>1. Quiet(c) \/ Posted(c)
      BY <1>2, PollsAreQuiet, ScheduleIsPosted DEF Step
    <3>2. UNCHANGED <<runs, base, try>>
      BY <1>2, <2>2, ScheduleIsPosted
         DEF Step, Posted, FailEarly, PollConfirms, Confirm, PollMisses, Miss, PollFails, gocd
    <3> QED
      BY <3>2 DEF RunsAfterBaseline, Request
  <2> QED
    BY <2>1, <2>2
<1>3. ASSUME NEW c \in Calls, Retry(c) PROVE RunsAfterBaseline'
  <2>1. \A j : ~Baseline(c, j)
    BY <1>3 DEF Retry, Baseline
  <2> QED
    BY <1>1, <1>3, <2>1, CallKeepsBaselines
<1>4. CASE UNCHANGED <<runs, base, try>>
  BY <1>4 DEF RunsAfterBaseline, Request
<1>5. CASE GoCD
  BY <1>1, <1>4, <1>5, GoCDSteps, GrowthKeepsBaselines
<1>6. CASE UNCHANGED vars
  BY <1>4, <1>6 DEF vars, callVars
<1> QED
  BY <1>2, <1>3, <1>5, <1>6 DEF Next

(* A call that gives up after its last poll has not overlooked its run.    *)
THEOREM OverlooksNothingVisible == Spec => NoVisibleRunMissed
<1> DEFINE Inv == TypeOK /\ Delivery /\ Attribution /\ RunsAfterBaseline
<1>1. Spec => []RunsAfterBaseline
  BY BaselineInit, BaselineStep, TypeCorrect, DeliveryHolds, PTL DEF Spec, Init
<1>2. Inv /\ [Next]_vars => [OverlooksNothing]_vars
  <2> SUFFICES ASSUME Inv, [Next]_vars, ~UNCHANGED vars, NEW c \in Calls, GivesUp(c),
                      NEW k \in FirstPage, Request(c) \in runs[k].src
               PROVE  FALSE
    BY DEF OverlooksNothing
  <2>1. k \in 1..Len(runs) /\ k > base[c]
    BY DEF FirstPage, RunsAfterBaseline
  <2>2. runs[k].forced /\ runs[k].by = LoginOf[c]
    <3>1. Request(c).call = c
      BY DEF Request
    <3> QED
      BY <2>1, <3>1 DEF Attribution, RunsHaveSources, SourceOf
  <2>3. Attributed(c) # {}
    BY <2>1, <2>2 DEF Attributed
  <2>4. pc[c] = "wait" /\ attempt'[c] # attempt[c] /\ result'[c] = Unconfirmed
    BY DEF GivesUp, TypeOK, CallTypeOK
  <2>5. ASSUME NEW d \in Calls, Step(d) PROVE FALSE
    <3>1. PollMisses(d)
      BY <2>4, <2>5, ScheduleIsPosted
         DEF Step, Posted, FailEarly, ReadBaseline, Baseline, PollConfirms, Confirm, PollFails
    <3>2. d = c
      BY <2>4, <3>1 DEF PollMisses, Miss, TypeOK, CallTypeOK
    <3> QED
      BY <2>3, <3>1, <3>2 DEF PollMisses
  <2>6. ASSUME NEW d \in Calls, Retry(d) PROVE FALSE
    <3>1. d = c
      BY <2>4, <2>6 DEF Retry, TypeOK, CallTypeOK
    <3> QED
      BY <2>4, <2>6, <3>1 DEF Retry
  <2>7. ~GoCD
    BY <2>4, GoCDSteps
  <2> QED
    BY <2>5, <2>6, <2>7 DEF Next
<1> QED
  BY <1>1, <1>2, TypeCorrect, DeliveryHolds, AttributionHolds, PTL
     DEF Spec, NoVisibleRunMissed

-------------------------------------------------------------------------------
(* The trigger keeps the promise of AttributedRun.                         *)

Log == [k \in 1..Len(runs) |-> Owner(runs[k])]

(* Owners are logins, or the automatic one.                                *)
LEMMA OwnerType == \A r \in Runs : Owner(r) \in Logins \cup {Changes}
  BY DEF Owner, Runs

(* The log is as long as the history, and grows with it.                   *)
LEMMA LogTypes ==
    ASSUME TypeOK
    PROVE  Log \in Seq(Logins \cup {Changes}) /\ Len(Log) = Len(runs)
<1>1. Len(runs) \in Nat
  BY DEF TypeOK
<1>2. \A k \in 1..Len(runs) : Owner(runs[k]) \in Logins \cup {Changes}
  <2>1. \A k \in 1..Len(runs) : runs[k] \in Runs
    BY <1>1 DEF TypeOK
  <2> QED
    BY <2>1, OwnerType
<1> QED
  BY <1>1, <1>2 DEF Log

(* A new run is appended to the log.                                       *)
LEMMA LogAppends ==
    ASSUME TypeOK, TypeOK', NEW r \in Runs, AddRun(r)
    PROVE  Log' = Append(Log, Owner(r))
<1>1. Len(runs') = Len(runs) + 1 /\ Len(runs) \in Nat
  BY AppendRun DEF TypeOK
<1>2. \A k \in 1..Len(runs) : runs'[k] = runs[k]
  BY AppendRun DEF TypeOK
<1>3. runs'[Len(runs) + 1] = r
  BY AppendRun DEF TypeOK
<1>4. Log \in Seq(Logins \cup {Changes}) /\ Len(Log) = Len(runs)
  BY LogTypes
<1>5. Owner(r) \in Logins \cup {Changes}
  BY OwnerType
<1>6. Log' = [k \in 1..(Len(runs) + 1) |-> Owner(runs'[k])]
  BY <1>1 DEF Log, Owner
<1>7. Append(Log, Owner(r)) = [k \in 1..(Len(runs) + 1) |->
                                  IF k = Len(runs) + 1 THEN Owner(r) ELSE Owner(runs[k])]
  BY <1>1, <1>4, <1>5 DEF Log
<1>8. \A k \in 1..(Len(runs) + 1) :
         Owner(runs'[k]) = IF k = Len(runs) + 1 THEN Owner(r) ELSE Owner(runs[k])
  <2> SUFFICES ASSUME NEW k \in 1..(Len(runs) + 1)
               PROVE  runs'[k] = IF k = Len(runs) + 1 THEN r ELSE runs[k]
    OBVIOUS
  <2> QED
    BY <1>1, <1>2, <1>3
<1> QED
  BY <1>6, <1>7, <1>8

(* Log, base and Out are the variables the promise is about.               *)
LEMMA PromiseVars ==
    /\ Promise!vars = <<Log, base, Out>>
    /\ \A c \in Calls : Out[c] = Outcome(c)
  BY DEF Promise!vars, Log, Out

(* Every step of the trigger is a step of the promise, or changes nothing  *)
(* that the promise is about.                                              *)
LEMMA PromiseStep == TypeOK /\ TypeOK' /\ [Next]_vars => [Promise!Next]_(Promise!vars)
<1> SUFFICES ASSUME TypeOK, TypeOK', [Next]_vars PROVE [Promise!Next]_(Promise!vars)
  OBVIOUS
<1>t. CallTypeOK
  BY DEF TypeOK
<1> USE <1>t DEF gocd
<1>l. Len(Log) = Len(runs) /\ Len(runs) \in Nat
  BY LogTypes DEF TypeOK
<1>1. ASSUME NEW c \in Calls, FailEarly(c) PROVE Promise!Fail(c)
  <2>1. Out[c] = [status |-> "new", run |-> 0]
    BY <1>1, PromiseVars DEF FailEarly, Outcome
  <2>2. Log' = Log /\ base' = base /\ Return(c, Error)
    BY <1>1 DEF FailEarly, Log, Owner
  <2>3. Out' = [Out EXCEPT ![c] = [status |-> "error", run |-> 0]]
    BY <2>2, ReturnMoves DEF Outcome, Error
  <2> QED
    BY <2>1, <2>2, <2>3 DEF Promise!Fail, Promise!Move, Promise!Status, Log, Out
<1>2. ASSUME NEW c \in Calls, ReadBaseline(c) PROVE Promise!Mark(c)
  <2>1. Out' = [Out EXCEPT ![c] = [status |-> "marked", run |-> 0]] /\ Out[c] = [status |-> "new", run |-> 0]
    BY <1>2, GotoMoves, PromiseVars DEF ReadBaseline, Baseline, Outcome
  <2>2. Log' = Log
    BY <1>2 DEF ReadBaseline, Baseline, Log, Owner
  <2>3. base' = [base EXCEPT ![c] = Len(Log)]
    BY <1>2, <1>l, BaselineIsLength DEF ReadBaseline, Baseline
  <2> QED
    BY <2>1, <2>2, <2>3 DEF Promise!Mark, Promise!Status, Log, Out
<1>3. ASSUME NEW c \in Calls, NEW code \in Codes, Schedule(c, code)
      PROVE  Promise!Accept(c) \/ Promise!Fail(c)
  <2>1. Out[c] = [status |-> "marked", run |-> 0]
    BY <1>3, PromiseVars DEF Schedule, Post, Outcome
  <2>2. Log' = Log /\ base' = base
    BY <1>3 DEF Schedule, Post, Log, Owner
  <2>3. CASE Goto(c, "wait")
    <3>1. Out' = [Out EXCEPT ![c] = [status |-> "accepted", run |-> 0]]
      BY <2>3, GotoMoves DEF Outcome
    <3> QED
      BY <2>1, <2>2, <3>1 DEF Promise!Accept, Promise!Move, Promise!Status, Log, Out
  <2>4. CASE Return(c, Error)
    <3>1. Out' = [Out EXCEPT ![c] = [status |-> "error", run |-> 0]]
      BY <2>4, ReturnMoves DEF Outcome, Error
    <3> QED
      BY <2>1, <2>2, <3>1 DEF Promise!Fail, Promise!Move, Promise!Status, Log, Out
  <2> QED
    BY <1>3, <2>3, <2>4 DEF Schedule, Post
<1>4. ASSUME NEW c \in Calls, PollConfirms(c) PROVE Promise!Confirm(c)
  <2>1. PICK k \in FirstPage : NewInstance(c, k) /\ Return(c, Confirmed(k))
    BY <1>4 DEF PollConfirms, Confirm
  <2>2. /\ k \in 1..Len(Log) /\ k > base[c]
        /\ runs[k].forced /\ runs[k].by = LoginOf[c]
    BY <1>l, <2>1 DEF NewInstance, Attributed, FirstPage
  <2>3. Log[k] = LoginOf[c]
    BY <1>l, <2>2 DEF Log, Owner
  <2>4. Out' = [Out EXCEPT ![c] = [status |-> "confirmed", run |-> k]]
    BY <2>1, ReturnMoves DEF Outcome, Confirmed
  <2>5. Out[c] = [status |-> "accepted", run |-> 0]
    BY <1>4, PromiseVars DEF PollConfirms, Confirm, Outcome
  <2>6. Log' = Log /\ base' = base
    BY <1>4 DEF PollConfirms, Confirm, Log, Owner
  <2>7. k \in (base[c] + 1)..Len(Log)
    BY <2>2 DEF CallTypeOK
  <2> QED
    BY <2>3, <2>4, <2>5, <2>6, <2>7
       DEF Promise!Confirm, Promise!Move, Promise!Status, Log, Out
<1>5. ASSUME NEW c \in Calls, PollMisses(c)
      PROVE  Promise!GiveUp(c) \/ UNCHANGED Promise!vars
  <2>1. Out[c] = [status |-> "accepted", run |-> 0] /\ pc[c] = "wait"
    BY <1>5, PromiseVars DEF PollMisses, Miss, Outcome
  <2>2. Log' = Log /\ base' = base
    BY <1>5 DEF PollMisses, Miss, Log, Owner
  <2>3. CASE Goto(c, "wait")
    <3>1. Out' = Out
      BY <2>1, <2>3, GotoMoves DEF Outcome, Out
    <3> QED
      BY <2>2, <3>1 DEF Promise!vars, Log, Out
  <2>4. CASE Return(c, Unconfirmed)
    <3>1. Out' = [Out EXCEPT ![c] = [status |-> "unconfirmed", run |-> 0]]
      BY <2>4, ReturnMoves DEF Outcome, Unconfirmed
    <3> QED
      BY <2>1, <2>2, <3>1 DEF Promise!GiveUp, Promise!Move, Promise!Status, Log, Out
  <2> QED
    BY <1>5, <2>3, <2>4 DEF PollMisses, Miss
<1>6. ASSUME NEW c \in Calls, PollFails(c) PROVE Promise!GiveUp(c)
  <2>1. Out[c] = [status |-> "accepted", run |-> 0]
    BY <1>6, PromiseVars DEF PollFails, Outcome
  <2>2. Log' = Log /\ base' = base /\ Return(c, Unconfirmed)
    BY <1>6 DEF PollFails, Log, Owner
  <2>3. Out' = [Out EXCEPT ![c] = [status |-> "unconfirmed", run |-> 0]]
    BY <2>2, ReturnMoves DEF Outcome, Unconfirmed
  <2> QED
    BY <2>1, <2>2, <2>3 DEF Promise!GiveUp, Promise!Move, Promise!Status, Log, Out
<1>7. ASSUME NEW c \in Calls, Retry(c) PROVE Promise!Again(c)
  <2>1. \A d \in Calls : d # c => pc'[d] = pc[d] /\ result'[d] = result[d]
    BY <1>7 DEF Retry, CallTypeOK
  <2>2. Outcome(c)' = [status |-> "new", run |-> 0]
    BY <1>7 DEF Retry, Outcome, CallTypeOK
  <2>3. Out[c] = [status |-> "error", run |-> 0]
    BY <1>7, PromiseVars DEF Retry, Outcome, Error
  <2>4. Log' = Log /\ base' = [base EXCEPT ![c] = 0]
    BY <1>7 DEF Retry, Log, Owner
  <2>5. Out' = [Out EXCEPT ![c] = [status |-> "new", run |-> 0]]
    BY <2>1, <2>2, OutcomeMoves
  <2> QED
    BY <2>3, <2>4, <2>5 DEF Promise!Again, Promise!Status, Log, Out
<1>8. ASSUME NEW r \in Runs, AddRun(r) PROVE Promise!NewRun
  <2>1. Log' = Append(Log, Owner(r)) /\ Owner(r) \in Logins \cup {Changes}
    BY <1>8, LogAppends, OwnerType
  <2>2. Out' = Out /\ base' = base
    BY <1>8 DEF Out, Outcome, AddRun
  <2> QED
    BY <2>1, <2>2 DEF Promise!NewRun, Log, Out
<1>9. ASSUME UNCHANGED <<runs, pc, base, result>> PROVE UNCHANGED Promise!vars
  BY <1>9 DEF Promise!vars, Owner, Outcome
<1>10. ASSUME GoCD PROVE Promise!NewRun \/ UNCHANGED Promise!vars
  <2>1. CASE UNCHANGED runs
    BY <1>9, <1>10, <2>1, GoCDSteps
  <2>2. CASE ~UNCHANGED runs
    BY <1>8, <1>10, <2>2, GoCDSteps
  <2> QED
    BY <2>1, <2>2
<1>11. CASE UNCHANGED vars
  BY <1>9, <1>11 DEF vars, callVars
<1> QED
  BY <1>1, <1>2, <1>3, <1>4, <1>5, <1>6, <1>7, <1>10, <1>11
     DEF Next, Step, Promise!Next

(* Triggering a pipeline implements the promise.                           *)
THEOREM TriggerKeepsPromise == Spec => KeepsPromise
<1>1. Init => Promise!Init
  <2> SUFFICES ASSUME Init PROVE Promise!Init
    OBVIOUS
  <2>1. Log = <<>>
    BY DEF Init, CallInit, Log
  <2>2. Out = [c \in Calls |-> [status |-> "new", run |-> 0]]
    BY DEF Init, CallInit, Out, Outcome
  <2> QED
    BY <2>1, <2>2 DEF Init, CallInit, Promise!Init, Promise!Status, Log, Out
<1> QED
  BY <1>1, PromiseStep, TypeCorrect, PTL DEF Spec, KeepsPromise, Promise!Spec

===============================================================================
