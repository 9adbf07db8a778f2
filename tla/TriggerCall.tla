----------------------------- MODULE TriggerCall -----------------------------
(***************************************************************************)
(* The course of a call that asks GoCD for a run and waits for it, common  *)
(* to Service.TriggerPipeline (internal/domain/actions.go) and             *)
(* Service.TriggerStage (internal/domain/stage.go): read a baseline        *)
(* counter, post the request, poll a bounded number of times for a run     *)
(* above the baseline attributed to the caller.  TriggerPipeline and       *)
(* TriggerStage say what is read, which answers are accepted, and what     *)
(* GoCD does.  Calls interleave at every request they make.                *)
(*                                                                         *)
(* The caller is external: it may repeat a call that returned an error, as *)
(* every MCP client does.                                                  *)
(***************************************************************************)
EXTENDS Integers, Sequences, GoCDClient

CONSTANTS Calls,      \* calls of the tool
          Logins,     \* GoCD users
          Changes,    \* the approver GoCD records for automatic runs
          LoginOf,    \* the login each call was authenticated as
          Codes,      \* outcomes of the POST
          Attempts,   \* scheduleWaitAttempts
          MaxTries,   \* bound: tries of one call
          MaxRuns     \* bound: runs GoCD creates

ASSUME LoginsAssumption == Changes \notin Logins /\ LoginOf \in [Calls -> Logins]
ASSUME CodesAssumption  == Codes \subseteq Nat
ASSUME BoundsAssumption == /\ Attempts \in Nat \ {0}
                           /\ MaxTries \in Nat \ {0}
                           /\ MaxRuns \in Nat

Requests == [call : Calls, try : 1..MaxTries]

VARIABLES runs,     \* the runs GoCD has created; a run's counter is its position
          queue,    \* requests GoCD has accepted and not yet run or dropped
          pc,       \* pc[c]: the next step of call c
          base,     \* base[c]: the baseline counter c read
          attempt,  \* attempt[c]: polls c has made
          result,   \* result[c]: what c returned, with the counter it confirmed
          try,      \* try[c]: which try of the call this is
          lost      \* requests whose POST ended without a decisive answer

gocd == <<runs, queue>>
callVars == <<runs, queue, pc, base, attempt, result, try, lost>>

PCs == {"start", "schedule", "wait", "done"}

Results == [kind : {"none", "error", "unconfirmed", "confirmed"}, counter : Nat]

NoResult     == [kind |-> "none", counter |-> 0]
Error        == [kind |-> "error", counter |-> 0]
Unconfirmed  == [kind |-> "unconfirmed", counter |-> 0]
Confirmed(k) == [kind |-> "confirmed", counter |-> k]

(* Which request of the real world a run was made for (its field src) is   *)
(* known to no API, only to the properties.                                *)
Request(c) == [call |-> c, try |-> try[c]]

CallInit == /\ runs = <<>>
            /\ queue = {}
            /\ pc = [c \in Calls |-> "start"]
            /\ base = [c \in Calls |-> 0]
            /\ attempt = [c \in Calls |-> 0]
            /\ result = [c \in Calls |-> NoResult]
            /\ try = [c \in Calls |-> 1]
            /\ lost = {}

-------------------------------------------------------------------------------
(* The steps of a call *)

Goto(c, l)   == pc' = [pc EXCEPT ![c] = l] /\ UNCHANGED result
Return(c, r) == /\ pc' = [pc EXCEPT ![c] = "done"]
                /\ result' = [result EXCEPT ![c] = r]

(* The arguments are refused, or the baseline cannot be read.              *)
FailEarly(c) == /\ pc[c] = "start"
                /\ Return(c, Error)
                /\ UNCHANGED <<gocd, base, attempt, try, lost>>

Baseline(c, k) == /\ pc[c] = "start"
                  /\ base' = [base EXCEPT ![c] = k]
                  /\ Goto(c, "schedule")
                  /\ UNCHANGED <<gocd, attempt, try, lost>>

(* The request is posted: an accepted answer starts the wait, any other    *)
(* returns an error.  Whether GoCD acted on it is only partly known.       *)
Post(c, code, accepted, mayHaveActed) ==
    /\ pc[c] = "schedule"
    /\ \/ mayHaveActed /\ queue' = queue \cup {Request(c)}
       \/ MayNotHaveActed(code) /\ queue' = queue
    /\ \/ Undecided(code) /\ lost' = lost \cup {Request(c)}
       \/ ~Undecided(code) /\ lost' = lost
    /\ \/ accepted /\ Goto(c, "wait")
       \/ ~accepted /\ Return(c, Error)
    /\ UNCHANGED <<runs, base, attempt, try>>

(* One turn of the wait is the sleep and then one read, which shows the    *)
(* run, or does not.                                                       *)
Confirm(c, k) == /\ pc[c] = "wait"
                 /\ Return(c, Confirmed(k))
                 /\ UNCHANGED <<gocd, base, attempt, try, lost>>

(* Mutant: the wait starts over when its attempts are spent.               *)
MutantMiss(c) == /\ pc[c] = "wait"
                 /\ attempt' = [attempt EXCEPT ![c] = (@ + 1) % Attempts]
                 /\ Goto(c, "wait")
                 /\ UNCHANGED <<gocd, base, try, lost>>

Miss(c) == /\ pc[c] = "wait"
           /\ attempt' = [attempt EXCEPT ![c] = @ + 1]
           /\ \/ attempt[c] + 1 < Attempts /\ Goto(c, "wait")
              \/ attempt[c] + 1 = Attempts /\ Return(c, Unconfirmed)
           /\ UNCHANGED <<gocd, base, try, lost>>

(* Mutant: a confirmation that fails is returned as an error.              *)
MutantPollFails(c) == /\ pc[c] = "wait"
                      /\ Return(c, Error)
                      /\ UNCHANGED <<gocd, base, attempt, try, lost>>

(* The sleep is cut short by the caller's context, or the read fails.      *)
PollFails(c) == /\ pc[c] = "wait"
                /\ Return(c, Unconfirmed)
                /\ UNCHANGED <<gocd, base, attempt, try, lost>>

(* The caller repeats a call that returned an error.                       *)
Retry(c) == /\ pc[c] = "done"
            /\ result[c] = Error
            /\ try[c] < MaxTries
            /\ try' = [try EXCEPT ![c] = @ + 1]
            /\ pc' = [pc EXCEPT ![c] = "start"]
            /\ base' = [base EXCEPT ![c] = 0]
            /\ attempt' = [attempt EXCEPT ![c] = 0]
            /\ result' = [result EXCEPT ![c] = NoResult]
            /\ UNCHANGED <<gocd, lost>>

-------------------------------------------------------------------------------
(* GoCD creates runs, for requests and for reasons of its own, or drops a  *)
(* request it had accepted.                                                *)

AddRun(r) == /\ Len(runs) < MaxRuns
             /\ runs' = Append(runs, r)
             /\ UNCHANGED <<pc, base, attempt, result, try, lost>>

Drop(req) == /\ req \in queue
             /\ queue' = queue \ {req}
             /\ UNCHANGED <<runs, pc, base, attempt, result, try, lost>>

-------------------------------------------------------------------------------
(* Properties of both triggers *)

CallTypeOK == /\ queue \subseteq Requests
              /\ pc \in [Calls -> PCs]
              /\ base \in [Calls -> Nat]
              /\ attempt \in [Calls -> 0..Attempts]
              /\ result \in [Calls -> Results]
              /\ try \in [Calls -> 1..MaxTries]
              /\ lost \subseteq Requests

Ran(req) == \E k \in 1..Len(runs) : req \in runs[k].src

(* An error tells the caller that nothing was scheduled, so that repeating *)
(* the call is safe (actions.go:44-49) - unless the answer to the POST was *)
(* lost, which the code cannot tell from a refusal.                        *)
ErrorMeansUnscheduled ==
    \A c \in Calls : (result[c].kind = "error" /\ Request(c) \notin lost)
                        => ~Ran(Request(c)) /\ Request(c) \notin queue

(* Calls repeated after errors run something twice only if an answer to    *)
(* the earlier of the two requests was lost (actions.go:67-70).            *)
NoDoubleRun ==
    \A r1, r2 \in Requests :
        (r1.call = r2.call /\ r1.try < r2.try /\ Ran(r1) /\ Ran(r2)) => r1 \in lost

(* The doc comment's own words (actions.go:46-47): "Errors are returned    *)
(* only while nothing has been scheduled yet".                             *)
ErrorsOnlyBeforeScheduling ==
    \A c \in Calls : result[c].kind = "error" => ~Ran(Request(c))

(* A confirmed counter is the run this very call asked for, whatever other *)
(* runs landed in the window, if c alone starts runs under its login: at   *)
(* worst it is the run of an earlier try whose answer was lost and that    *)
(* appeared late (CHANGELOG 1.1.0, "Known gaps").                          *)
ConfirmedOwn(c) == result[c].kind = "confirmed" =>
    \E r \in runs[result[c].counter].src :
        r.call = c /\ (r = Request(c) \/ r \in lost)

(* The last poll is spent and the call gives up.                           *)
GivesUp(c) == /\ pc[c] = "wait" /\ attempt[c] < Attempts /\ attempt'[c] = Attempts
              /\ result'[c] = Unconfirmed

(* Every call returns: the wait is bounded whatever GoCD does.             *)
CallReturns == \A c \in Calls : pc[c] # "done" ~> pc[c] = "done"

(* Where a call stands in the terms of AttributedRun.                      *)
Outcome(c) ==
    CASE pc[c] = "start"    -> [status |-> "new", run |-> 0]
      [] pc[c] = "schedule" -> [status |-> "marked", run |-> 0]
      [] pc[c] = "wait"     -> [status |-> "accepted", run |-> 0]
      [] OTHER              -> [status |-> result[c].kind, run |-> result[c].counter]
===============================================================================
