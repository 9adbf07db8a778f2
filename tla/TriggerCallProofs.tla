-------------------------- MODULE TriggerCallProofs --------------------------
(***************************************************************************)
(* What every step of a call preserves, whatever is read and whatever GoCD *)
(* does: types, and the life of a request.  TriggerPipelineProofs and      *)
(* TriggerStageProofs build their invariants on these lemmas.              *)
(***************************************************************************)
EXTENDS TriggerCall, TLAPS

(* The steps of a call that do not touch GoCD.                             *)
Quiet(c) == \/ FailEarly(c) \/ Miss(c) \/ PollFails(c)
            \/ \E k \in Nat : Baseline(c, k) \/ Confirm(c, k)

(* What posting a request may come to, once the answer has been judged.    *)
Posted(c) ==
    /\ pc[c] = "schedule"
    /\ UNCHANGED <<runs, base, attempt, try>>
    /\ queue' \in {queue, queue \cup {Request(c)}}
    /\ lost' \in {lost, lost \cup {Request(c)}}
    /\ \/ Goto(c, "wait")
       \/ Return(c, Error) /\ (queue' = queue \/ lost' = lost \cup {Request(c)})

(* A refusal tells the truth: an answer that is neither accepted nor       *)
(* undecided leaves nothing behind.                                        *)
LEMMA PostIsPosted ==
    ASSUME NEW c \in Calls, NEW code, NEW accepted, NEW mayHaveActed,
           Post(c, code, accepted, mayHaveActed),
           ~accepted /\ ~Undecided(code) => ~mayHaveActed
    PROVE  Posted(c)
<1>1. CASE accepted
  BY <1>1 DEF Post, Posted
<1>2. CASE ~accepted /\ Undecided(code)
  BY <1>2 DEF Post, Posted
<1>3. CASE ~accepted /\ ~Undecided(code)
  BY <1>3 DEF Post, Posted
<1> QED
  BY <1>1, <1>2, <1>3

-------------------------------------------------------------------------------
(* Types *)

(* The results a call can return.                                          *)
LEMMA ResultTypes ==
    /\ {NoResult, Error, Unconfirmed} \subseteq Results
    /\ \A k \in Nat : Confirmed(k) \in Results
  BY DEF Results, NoResult, Error, Unconfirmed, Confirmed

(* Moving on and returning keep the control state well typed.              *)
LEMMA ControlTypes ==
    ASSUME CallTypeOK, NEW c \in Calls
    PROVE  /\ \A l \in PCs : Goto(c, l) => pc' \in [Calls -> PCs] /\ result' \in [Calls -> Results]
           /\ \A r \in Results : Return(c, r) => pc' \in [Calls -> PCs] /\ result' \in [Calls -> Results]
  BY DEF CallTypeOK, Goto, Return, PCs

(* Steps that do not touch GoCD keep the types of a call.                  *)
LEMMA QuietTypes ==
    ASSUME CallTypeOK, NEW c \in Calls, Quiet(c)
    PROVE  CallTypeOK'
<1> USE ControlTypes, ResultTypes DEF CallTypeOK, gocd
<1>1. CASE FailEarly(c) \/ PollFails(c)
  BY <1>1 DEF FailEarly, PollFails, PCs
<1>2. CASE \E k \in Nat : Baseline(c, k) \/ Confirm(c, k)
  BY <1>2 DEF Baseline, Confirm, PCs
<1>3. CASE Miss(c)
  <2>1. attempt' \in [Calls -> 0..Attempts]
    BY <1>3, BoundsAssumption DEF Miss
  <2>2. pc' \in [Calls -> PCs] /\ result' \in [Calls -> Results]
    <3>1. CASE Goto(c, "wait")
      BY <3>1 DEF PCs
    <3>2. CASE Return(c, Unconfirmed)
      BY <3>2
    <3> QED
      BY <1>3, <3>1, <3>2 DEF Miss
  <2> QED
    BY <1>3, <2>1, <2>2 DEF Miss, PCs
<1> QED
  BY <1>1, <1>2, <1>3 DEF Quiet

(* So does posting the request ...                                         *)
LEMMA PostTypes ==
    ASSUME CallTypeOK, NEW c \in Calls, Posted(c)
    PROVE  CallTypeOK'
<1>1. Request(c) \in Requests
  BY DEF CallTypeOK, Request, Requests
<1>2. pc' \in [Calls -> PCs] /\ result' \in [Calls -> Results]
  <2>1. CASE Goto(c, "wait")
    BY <2>1, ControlTypes DEF PCs
  <2>2. CASE Return(c, Error)
    BY <2>2, ControlTypes, ResultTypes
  <2> QED
    BY <2>1, <2>2 DEF Posted
<1>3. queue' \subseteq Requests /\ lost' \subseteq Requests
  BY <1>1 DEF Posted, CallTypeOK
<1> QED
  BY <1>2, <1>3 DEF Posted, CallTypeOK

(* ... and repeating the call.                                             *)
LEMMA RetryTypes ==
    ASSUME CallTypeOK, NEW c \in Calls, Retry(c)
    PROVE  CallTypeOK'
  BY BoundsAssumption, ResultTypes DEF Retry, CallTypeOK, PCs, gocd

(* The initial state is well typed.                                        *)
LEMMA InitTypes == CallInit => CallTypeOK
  BY ResultTypes, BoundsAssumption DEF CallInit, CallTypeOK, PCs

(* Appending a run keeps the counters of the others.                       *)
LEMMA AppendRun ==
    ASSUME NEW S, runs \in Seq(S), NEW r \in S, AddRun(r)
    PROVE  /\ runs' \in Seq(S)
           /\ Len(runs) \in Nat
           /\ Len(runs') = Len(runs) + 1
           /\ \A k \in 1..Len(runs) : runs'[k] = runs[k]
           /\ runs'[Len(runs) + 1] = r
  BY DEF AddRun

-------------------------------------------------------------------------------
(* The life of a request: sent once, never before its try, and forgotten   *)
(* only if its answer was lost.                                            *)

Sent(req) == req \in queue \/ Ran(req)

PcAgrees == \A c \in Calls : IF pc[c] = "done" THEN result[c].kind # "none"
                                               ELSE result[c] = NoResult

SentInTime == \A c \in Calls : \A n \in 1..MaxTries :
    LET req == [call |-> c, try |-> n]
    IN Sent(req) => n < try[c] \/ (n = try[c] /\ pc[c] \in {"wait", "done"})

PastTriesLost == \A c \in Calls : \A n \in 1..MaxTries :
    LET req == [call |-> c, try |-> n]
    IN Sent(req) /\ n < try[c] => req \in lost

Delivery == PcAgrees /\ SentInTime /\ PastTriesLost /\ ErrorMeansUnscheduled

(* Nothing has been sent initially.                                        *)
LEMMA DeliveryInit == CallInit => Delivery
  BY DEF CallInit, Delivery, PcAgrees, SentInTime, PastTriesLost, ErrorMeansUnscheduled, Sent,
         Ran, NoResult

(* A new run adds its source to the requests that ran, and nothing else.   *)
LEMMA RanGrows ==
    ASSUME NEW S, runs \in Seq(S), NEW r \in S, AddRun(r)
    PROVE  \A req : Ran(req)' <=> Ran(req) \/ req \in r.src
  BY AppendRun DEF Ran

(* What a quiet step changes: it moves one call, and an error is returned  *)
(* only before anything is sent.                                           *)
LEMMA QuietMoves ==
    ASSUME CallTypeOK, PcAgrees, NEW c \in Calls, Quiet(c)
    PROVE  /\ pc[c] # "done" /\ UNCHANGED <<runs, queue, try, lost>>
           /\ \/ pc[c] = "start" /\ (Return(c, Error) \/ Goto(c, "schedule"))
              \/ pc[c] = "wait" /\ (Return(c, Unconfirmed) \/ Goto(c, "wait"))
              \/ pc[c] = "wait" /\ \E k \in Nat : Return(c, Confirmed(k))
  BY DEF Quiet, FailEarly, Baseline, Confirm, Miss, PollFails, gocd

(* Quiet steps keep the life of the requests in order.                     *)
LEMMA QuietDelivers ==
    ASSUME CallTypeOK, Delivery, NEW c \in Calls, Quiet(c)
    PROVE  Delivery'
<1>0. /\ pc[c] # "done" /\ UNCHANGED <<runs, queue, try, lost>>
      /\ \/ pc[c] = "start" /\ (Return(c, Error) \/ Goto(c, "schedule"))
         \/ pc[c] = "wait" /\ (Return(c, Unconfirmed) \/ Goto(c, "wait"))
         \/ pc[c] = "wait" /\ \E k \in Nat : Return(c, Confirmed(k))
  BY QuietMoves DEF Delivery
<1>1. \A req : Sent(req)' <=> Sent(req)
  BY <1>0 DEF Sent, Ran
<1>2. PcAgrees'
  BY <1>0 DEF Delivery, PcAgrees, CallTypeOK, Goto, Return, Error, Unconfirmed, Confirmed
<1>3. SentInTime'
  BY <1>0, <1>1 DEF Delivery, SentInTime, CallTypeOK, Goto, Return
<1>4. PastTriesLost'
  BY <1>0, <1>1 DEF Delivery, PastTriesLost
<1>5. ErrorMeansUnscheduled'
  <2> SUFFICES ASSUME NEW d \in Calls, result'[d].kind = "error", Request(d)' \notin lost'
               PROVE  ~Sent(Request(d))
    BY <1>0, <1>1 DEF ErrorMeansUnscheduled, Sent, Ran, Request
  <2>1. Request(d)' = Request(d)
    BY <1>0 DEF Request
  <2>2. CASE d = c
    <3>1. pc[c] = "start"
      BY <1>0, <2>2 DEF CallTypeOK, Goto, Return, Unconfirmed, Confirmed, Delivery, PcAgrees, NoResult
    <3>2. try[c] \in 1..MaxTries
      BY DEF CallTypeOK
    <3> QED
      BY <2>2, <3>1, <3>2 DEF Delivery, SentInTime, Request
  <2>3. CASE d # c
    BY <1>0, <2>1, <2>3 DEF CallTypeOK, Goto, Return, Delivery, ErrorMeansUnscheduled, Sent
  <2> QED
    BY <2>2, <2>3
<1> QED
  BY <1>2, <1>3, <1>4, <1>5 DEF Delivery

(* The POST sends this try's request, and returns an error only if it was  *)
(* not carried out or its answer was lost.                                 *)
LEMMA PostDelivers ==
    ASSUME CallTypeOK, Delivery, NEW c \in Calls, Posted(c)
    PROVE  Delivery'
<1>1. /\ pc[c] = "schedule"
      /\ UNCHANGED <<runs, try>>
      /\ \/ Goto(c, "wait")
         \/ Return(c, Error) /\ (queue' = queue \/ lost' = lost \cup {Request(c)})
  BY DEF Posted
<1>2. pc' = [pc EXCEPT ![c] = "wait"] \/ pc' = [pc EXCEPT ![c] = "done"]
  BY <1>1 DEF Goto, Return
<1>3. /\ \A req : Sent(req) => Sent(req)'
      /\ \A req : req # Request(c) => (Sent(req)' <=> Sent(req))
      /\ \A req : req \in lost => req \in lost'
  BY DEF Posted, Sent, Ran
<1>4. try[c] \in 1..MaxTries /\ ~Sent(Request(c))
  <2>1. try[c] \in 1..MaxTries
    BY DEF CallTypeOK
  <2>2. ~Sent([call |-> c, try |-> try[c]])
    BY <1>1, <2>1 DEF Delivery, SentInTime
  <2> QED
    BY <2>1, <2>2 DEF Request
<1>5. PcAgrees'
  BY <1>1 DEF Delivery, PcAgrees, CallTypeOK, Goto, Return, Error
<1>6. SentInTime'
  <2> SUFFICES ASSUME NEW d \in Calls, NEW n \in 1..MaxTries, Sent([call |-> d, try |-> n])'
               PROVE  n < try'[d] \/ (n = try'[d] /\ pc'[d] \in {"wait", "done"})
    BY DEF SentInTime
  <2>1. CASE d = c /\ n = try[c]
    BY <1>1, <1>2, <2>1 DEF CallTypeOK
  <2>2. CASE ~(d = c /\ n = try[c])
    <3>1. Sent([call |-> d, try |-> n])
      BY <1>3, <2>2 DEF Request
    <3> QED
      BY <1>1, <1>2, <3>1 DEF Delivery, SentInTime, CallTypeOK
  <2> QED
    BY <2>1, <2>2
<1>7. PastTriesLost'
  <2> SUFFICES ASSUME NEW d \in Calls, NEW n \in 1..MaxTries, Sent([call |-> d, try |-> n])',
                      n < try'[d]
               PROVE  [call |-> d, try |-> n] \in lost'
    BY DEF PastTriesLost
  <2>1. [call |-> d, try |-> n] # Request(c)
    BY <1>1, <1>4 DEF Request
  <2> QED
    BY <1>1, <1>3, <2>1 DEF Delivery, PastTriesLost
<1>8. ErrorMeansUnscheduled'
  <2> SUFFICES ASSUME NEW d \in Calls, result'[d].kind = "error", Request(d)' \notin lost'
               PROVE  ~Sent(Request(d))'
    BY DEF ErrorMeansUnscheduled, Sent
  <2>1. Request(d)' = Request(d)
    BY <1>1 DEF Request
  <2>2. CASE d = c
    <3>1. Request(c) \notin lost'
      BY <2>1, <2>2
    <3>2. result[c] = NoResult
      BY <1>1 DEF Delivery, PcAgrees
    <3>3. ~Goto(c, "wait")
      BY <2>2, <3>2 DEF Goto, NoResult
    <3>4. queue' = queue
      BY <1>1, <3>1, <3>3
    <3> QED
      BY <1>1, <1>4, <2>1, <2>2, <3>4 DEF Sent, Ran
  <2>3. CASE d # c
    <3>1. Request(d) # Request(c) /\ result'[d] = result[d]
      BY <1>1, <2>3 DEF Request, CallTypeOK, Goto, Return
    <3>2. ~Sent(Request(d))
      BY <1>3, <2>1, <3>1 DEF Delivery, ErrorMeansUnscheduled, Sent
    <3> QED
      BY <1>3, <2>1, <3>1, <3>2 DEF Sent, Ran
  <2> QED
    BY <2>2, <2>3
<1> QED
  BY <1>5, <1>6, <1>7, <1>8 DEF Delivery

(* A new try has sent nothing; what the old one sent, it sent unanswered.  *)
LEMMA RetryDelivers ==
    ASSUME CallTypeOK, Delivery, NEW c \in Calls, Retry(c)
    PROVE  Delivery'
<1>1. /\ pc[c] = "done" /\ result[c] = Error /\ try[c] < MaxTries
      /\ try' = [try EXCEPT ![c] = try[c] + 1]
      /\ pc' = [pc EXCEPT ![c] = "start"]
      /\ result' = [result EXCEPT ![c] = NoResult]
      /\ UNCHANGED <<runs, queue, lost>>
  BY DEF Retry, gocd
<1>2. \A req : Sent(req)' <=> Sent(req)
  BY <1>1 DEF Sent, Ran
<1>3. PcAgrees'
  BY <1>1 DEF Delivery, PcAgrees, CallTypeOK
<1>4. SentInTime'
  BY <1>1, <1>2 DEF Delivery, SentInTime, CallTypeOK
<1>5. PastTriesLost'
  <2> SUFFICES ASSUME NEW d \in Calls, NEW n \in 1..MaxTries, Sent([call |-> d, try |-> n]),
                      n < try'[d]
               PROVE  [call |-> d, try |-> n] \in lost
    BY <1>1, <1>2 DEF PastTriesLost
  <2>1. CASE d = c /\ n = try[c]
    BY <1>1, <2>1 DEF Delivery, ErrorMeansUnscheduled, Sent, Request, Error
  <2>2. CASE ~(d = c /\ n = try[c])
    <3>1. n < try[d]
      BY <1>1, <2>2 DEF CallTypeOK
    <3> QED
      BY <3>1 DEF Delivery, PastTriesLost
  <2> QED
    BY <2>1, <2>2
<1>6. ErrorMeansUnscheduled'
  <2> SUFFICES ASSUME NEW d \in Calls, result'[d].kind = "error", Request(d)' \notin lost
               PROVE  ~Sent(Request(d)')
    BY <1>1, <1>2 DEF ErrorMeansUnscheduled, Sent, Ran, Request
  <2>1. d # c
    BY <1>1 DEF CallTypeOK, NoResult
  <2>2. result'[d] = result[d] /\ Request(d)' = Request(d)
    BY <1>1, <2>1 DEF CallTypeOK, Request
  <2> QED
    BY <2>2 DEF Delivery, ErrorMeansUnscheduled, Sent
<1> QED
  BY <1>3, <1>4, <1>5, <1>6 DEF Delivery

(* GoCD running, or dropping, what was sent to it sends nothing new.       *)
LEMMA GoCDDelivers ==
    ASSUME Delivery, UNCHANGED <<pc, result, try, lost>>, \A req : Sent(req)' => Sent(req)
    PROVE  Delivery'
<1>1. PcAgrees'
  BY DEF Delivery, PcAgrees
<1>2. SentInTime'
  BY DEF Delivery, SentInTime
<1>3. PastTriesLost'
  BY DEF Delivery, PastTriesLost
<1>4. ErrorMeansUnscheduled'
  <2> SUFFICES ASSUME NEW d \in Calls, result[d].kind = "error", Request(d) \notin lost
               PROVE  ~Sent(Request(d))'
    BY DEF ErrorMeansUnscheduled, Sent, Request
  <2>1. ~Sent(Request(d))
    BY DEF Delivery, ErrorMeansUnscheduled, Sent
  <2> QED
    BY <2>1 DEF Sent, Ran, Request
<1> QED
  BY <1>1, <1>2, <1>3, <1>4 DEF Delivery

(* A request that ran though its call went on was one whose answer was     *)
(* lost.                                                                   *)
LEMMA DeliveryPreventsDoubleRuns == CallTypeOK /\ Delivery => NoDoubleRun
<1> SUFFICES ASSUME CallTypeOK, Delivery, NEW r1 \in Requests, NEW r2 \in Requests,
                    r1.call = r2.call, r1.try < r2.try, Ran(r1), Ran(r2)
             PROVE  r1 \in lost
  BY DEF NoDoubleRun
<1>1. /\ r1 = [call |-> r1.call, try |-> r1.try] /\ r1.try \in 1..MaxTries
      /\ r2 = [call |-> r1.call, try |-> r2.try] /\ r2.try \in 1..MaxTries
      /\ r1.call \in Calls
  BY DEF Requests
<1>2. Sent([call |-> r1.call, try |-> r1.try]) /\ Sent([call |-> r1.call, try |-> r2.try])
  BY <1>1 DEF Sent
<1>3. r1.try < try[r1.call]
  <2>1. r2.try < try[r1.call] \/ r2.try = try[r1.call]
    BY <1>1, <1>2 DEF Delivery, SentInTime
  <2>2. try[r1.call] \in Nat
    BY <1>1 DEF CallTypeOK
  <2> QED
    BY <1>1, <2>1, <2>2
<1>4. [call |-> r1.call, try |-> r1.try] \in lost
  BY <1>1, <1>2, <1>3 DEF Delivery, PastTriesLost
<1> QED
  BY <1>1, <1>4

-------------------------------------------------------------------------------
(* A call's own run is always one created after its baseline.              *)

RunsAfterBaseline ==
    \A c \in Calls : /\ base[c] <= Len(runs)
                     /\ \A k \in 1..Len(runs) : Request(c) \in runs[k].src => k > base[c]

(* There are no runs initially.                                            *)
LEMMA BaselineInit == CallInit => RunsAfterBaseline
  BY DEF CallInit, RunsAfterBaseline

(* A call in its first steps has no run yet.                               *)
LEMMA NotYetRun ==
    ASSUME CallTypeOK, Delivery, NEW c \in Calls, pc[c] = "start"
    PROVE  \A k \in 1..Len(runs) : Request(c) \notin runs[k].src
<1>1. try[c] \in 1..MaxTries
  BY DEF CallTypeOK
<1>2. ~Sent([call |-> c, try |-> try[c]])
  BY <1>1 DEF Delivery, SentInTime
<1> QED
  BY <1>2 DEF Sent, Ran, Request

(* A step of a call keeps this, if the baseline it reads is a past counter.*)
LEMMA CallKeepsBaselines ==
    ASSUME CallTypeOK, Delivery, RunsAfterBaseline, NEW S, runs \in Seq(S), NEW c \in Calls,
           Quiet(c) \/ Posted(c) \/ Retry(c),
           \A k : Baseline(c, k) => k \in 0..Len(runs)
    PROVE  RunsAfterBaseline'
<1>0. Len(runs) \in Nat
  OBVIOUS
<1>1. CASE \E k : Baseline(c, k)
  <2>1. PICK k : Baseline(c, k) /\ k \in 0..Len(runs)
    BY <1>1
  <2>2. /\ pc[c] = "start" /\ UNCHANGED <<runs, try>>
        /\ base' = [base EXCEPT ![c] = k]
    BY <2>1 DEF Baseline, gocd
  <2>3. \A j \in 1..Len(runs) : Request(c) \notin runs[j].src
    BY <2>2, NotYetRun
  <2>4. ASSUME NEW d \in Calls
        PROVE  /\ base'[d] <= Len(runs)
               /\ \A j \in 1..Len(runs) : Request(d) \in runs[j].src => j > base'[d]
    <3>1. CASE d = c
      BY <1>0, <2>1, <2>2, <2>3, <3>1 DEF CallTypeOK
    <3>2. CASE d # c
      BY <2>2, <3>2 DEF CallTypeOK, RunsAfterBaseline
    <3> QED
      BY <3>1, <3>2
  <2> QED
    BY <2>2, <2>4 DEF RunsAfterBaseline, Request
<1>2. CASE Retry(c)
  <2>1. /\ UNCHANGED runs
        /\ base' = [base EXCEPT ![c] = 0]
        /\ \A d \in Calls : d # c => try'[d] = try[d]
    BY <1>2 DEF Retry, gocd, CallTypeOK
  <2>2. ASSUME NEW d \in Calls
        PROVE  /\ base'[d] <= Len(runs)
               /\ \A j \in 1..Len(runs) : Request(d)' \in runs[j].src => j > base'[d]
    <3>1. CASE d = c
      BY <1>0, <2>1, <3>1 DEF CallTypeOK
    <3>2. CASE d # c
      <4>1. Request(d)' = Request(d) /\ base'[d] = base[d]
        BY <2>1, <3>2 DEF Request, CallTypeOK
      <4> QED
        BY <4>1 DEF RunsAfterBaseline
    <3> QED
      BY <3>1, <3>2
  <2> QED
    BY <2>1, <2>2 DEF RunsAfterBaseline, Request
<1>3. CASE UNCHANGED <<runs, base, try>>
  BY <1>3 DEF RunsAfterBaseline, Request
<1> QED
  BY <1>1, <1>2, <1>3 DEF Quiet, Posted, FailEarly, Miss, PollFails, Confirm, gocd

(* So does a new run.                                                      *)
LEMMA GrowthKeepsBaselines ==
    ASSUME CallTypeOK, RunsAfterBaseline, NEW S, runs \in Seq(S), NEW r \in S, AddRun(r)
    PROVE  RunsAfterBaseline'
<1>1. /\ Len(runs) \in Nat
      /\ Len(runs') = Len(runs) + 1
      /\ \A k \in 1..Len(runs) : runs'[k] = runs[k]
  BY AppendRun
<1>2. UNCHANGED <<base, try>>
  BY DEF AddRun
<1>3. ASSUME NEW d \in Calls
      PROVE  /\ base[d] <= Len(runs')
             /\ \A k \in 1..Len(runs') : Request(d) \in runs'[k].src => k > base[d]
  <2>1. base[d] \in Nat /\ base[d] <= Len(runs)
    BY DEF CallTypeOK, RunsAfterBaseline
  <2>2. \A k \in 1..Len(runs) : Request(d) \in runs[k].src => k > base[d]
    BY DEF RunsAfterBaseline
  <2> QED
    BY <1>1, <2>1, <2>2
<1> QED
  BY <1>2, <1>3 DEF RunsAfterBaseline, Request

-------------------------------------------------------------------------------
(* Outcomes, for the refinement of AttributedRun. *)

Out == [c \in Calls |-> Outcome(c)]

(* A step of one call moves that call's outcome only.                      *)
LEMMA OutcomeMoves ==
    ASSUME CallTypeOK, NEW c \in Calls,
           \A d \in Calls : d # c => pc'[d] = pc[d] /\ result'[d] = result[d]
    PROVE  Out' = [Out EXCEPT ![c] = Outcome(c)']
  BY DEF Out, Outcome

(* The same, when it moves on.                                             *)
LEMMA GotoMoves ==
    ASSUME CallTypeOK, NEW c \in Calls, NEW l, Goto(c, l)
    PROVE  Out' = [Out EXCEPT ![c] = Outcome(c)'] /\ pc'[c] = l
  BY OutcomeMoves DEF CallTypeOK, Goto

(* And when it returns.                                                    *)
LEMMA ReturnMoves ==
    ASSUME CallTypeOK, NEW c \in Calls, NEW r, Return(c, r)
    PROVE  Out' = [Out EXCEPT ![c] = Outcome(c)'] /\ pc'[c] = "done" /\ result'[c] = r
  BY OutcomeMoves DEF CallTypeOK, Return

===============================================================================
