------------------------------ MODULE HistoryPaging ------------------------------
(***************************************************************************)
(* get_pipeline_history: a caller reads the runs of a pipeline page by     *)
(* page, each page's next_after being the cursor of the next, while GoCD   *)
(* goes on creating runs, links may come back damaged and answers may be   *)
(* lost.                                                                   *)
(*                                                                         *)
(* GoCD is external: it serves the newest PageSize runs older than the     *)
(* cursor and, if there are older ones still, a link that carries the      *)
(* oldest run of the page.  So is the caller, who repeats a call that      *)
(* failed and at last gives up.  A cursor is the text of a number; texts   *)
(* that strconv.ParseUint takes for none are all Garbage.                  *)
(***************************************************************************)
EXTENDS Integers

CONSTANTS MaxRuns,   \* runs of the pipeline, at most
          PageSize,  \* runs GoCD puts on a page
          MaxTries,  \* calls that may fail before the caller gives up
          Damaged    \* cursors of links that are not GoCD's own

Empty   == 0 - 2  \* ""
Garbage == 0 - 1  \* no positive decimal number of 64 bits, and not "0"

ASSUME BoundsAssumption  == MaxRuns \in Nat /\ PageSize \in Nat \ {0} /\ MaxTries \in Nat
ASSUME DamagedAssumption == Damaged \subseteq {Garbage, 0}

VARIABLES newest,  \* runs 1..newest exist
          call,    \* the call under way
          walk,    \* the caller: the next cursor, calls that failed, how it stands
          start,   \* the newest run when the first page was served
          seen     \* seen[i]: how often run i was handed to the caller

vars == <<newest, call, walk, start, seen>>

Runs == 1..MaxRuns

NoPage == [top |-> 0, link |-> Empty]
NoCall == [st |-> "idle", after |-> Empty, page |-> NoPage]

(* The page of GoCD for a cursor: its newest run, its oldest, its link.    *)
Top(after)  == IF after = Empty THEN newest ELSE after - 1
Bottom(top) == IF top > PageSize THEN top - PageSize + 1 ELSE 1
Link(top)   == IF Bottom(top) > 1 THEN Bottom(top) ELSE Empty

(* ParseUint succeeds, and the number is not zero.                         *)
Usable(cursor) == cursor \notin {Garbage, 0}

(* Mutant: a link without a usable cursor is none.                         *)
MutantNextAfterCursor(link) == IF Usable(link) THEN link ELSE Empty

(* nextAfterCursor: no link, no further page; a link without a usable      *)
(* cursor is an error, for which Garbage stands here.                      *)
NextAfterCursor(link) ==
    IF link = Empty THEN Empty ELSE IF Usable(link) THEN link ELSE Garbage

-------------------------------------------------------------------------------
Init == /\ newest \in 0..MaxRuns
        /\ call = NoCall
        /\ walk = [after |-> Empty, failed |-> 0, st |-> "going"]
        /\ start = 0
        /\ seen = [i \in Runs |-> 0]

(* Mutant: the next page is asked for by offset, as GoCD once had it.      *)
MutantPipelineHistory ==
    /\ call.st = "idle" /\ walk.st = "going"
    /\ LET past == start - walk.after + 1
       IN  call' = [NoCall EXCEPT !.st = "sent", !.after =
                       IF walk.after = Empty THEN Empty ELSE newest - past + 1]
    /\ UNCHANGED <<newest, walk, start, seen>>

(* The caller passes on the cursor it was given; PipelineHistory refuses   *)
(* one that is not usable, and sends the others to GoCD.                   *)
PipelineHistory ==
    /\ call.st = "idle" /\ walk.st = "going"
    /\ call' = [NoCall EXCEPT !.after = walk.after,
                              !.st = IF walk.after = Empty \/ Usable(walk.after)
                                     THEN "sent" ELSE "invalid"]
    /\ UNCHANGED <<newest, walk, start, seen>>

(* GoCD serves the page as it is then.                                     *)
Serve ==
    /\ call.st = "sent"
    /\ LET top == Top(call.after)
       IN  \E link \in {Link(top)} \cup Damaged :
             call' = [call EXCEPT !.st = "answered", !.page = [top |-> top, link |-> link]]
    /\ UNCHANGED <<newest, walk, start, seen>>

(* No answer, or one that is an error.                                     *)
Lose == /\ call.st \in {"sent", "answered"}
        /\ call' = [call EXCEPT !.st = "failed"]
        /\ UNCHANGED <<newest, walk, start, seen>>

Handed == Bottom(call.page.top)..call.page.top

(* Mutant: a page with a damaged link is handed on with its own cursor.    *)
MutantReturn ==
    /\ call.st = "answered"
    /\ LET next == NextAfterCursor(call.page.link)
       IN  /\ walk' = IF next = Garbage THEN walk
                      ELSE [walk EXCEPT !.after = next,
                                        !.st = IF next = Empty THEN "complete" ELSE "going"]
           /\ start' = IF call.after = Empty THEN call.page.top ELSE start
           /\ seen' = [i \in Runs |-> seen[i] + (IF i \in Handed /\ next # Garbage THEN 1
                                                ELSE 0)]
    /\ call' = NoCall
    /\ UNCHANGED newest

(* The page goes to the caller, or if its link is no good not at all; the  *)
(* caller goes on from next_after, or is done without one.                 *)
Return ==
    /\ call.st = "answered"
    /\ LET next == NextAfterCursor(call.page.link)
       IN  IF next = Garbage
           THEN /\ call' = [call EXCEPT !.st = "failed"]
                /\ UNCHANGED <<walk, start, seen>>
           ELSE /\ call' = NoCall
                /\ walk' = [walk EXCEPT !.after = next,
                                        !.st = IF next = Empty THEN "complete" ELSE "going"]
                /\ start' = IF call.after = Empty THEN call.page.top ELSE start
                /\ seen' = [i \in Runs |-> seen[i] + (IF i \in Handed THEN 1 ELSE 0)]
    /\ UNCHANGED newest

(* A call that failed is repeated, MaxTries times; one that was refused    *)
(* would be refused again.                                                 *)
Again == /\ call.st \in {"failed", "invalid"}
         /\ call' = NoCall
         /\ walk' = IF call.st = "failed" /\ walk.failed < MaxTries
                    THEN [walk EXCEPT !.failed = @ + 1]
                    ELSE [walk EXCEPT !.st = "given up"]
         /\ UNCHANGED <<newest, start, seen>>

CreateRun == /\ newest < MaxRuns
             /\ newest' = newest + 1
             /\ UNCHANGED <<call, walk, start, seen>>

Next == PipelineHistory \/ Serve \/ Lose \/ Return \/ Again \/ CreateRun

(* The caller goes on, and http.Client's timeout ends every wait for GoCD. *)
Fairness == WF_vars(PipelineHistory \/ Lose \/ Return \/ Again)

Spec == Init /\ [][Next]_vars /\ Fairness
-------------------------------------------------------------------------------
TypeOK ==
    /\ newest \in 0..MaxRuns /\ start \in 0..newest
    /\ call \in [st : {"idle", "sent", "answered", "failed", "invalid"},
                 after : {Empty} \cup Runs,
                 page : [top : 0..MaxRuns, link : {Empty, Garbage, 0} \cup Runs]]
    /\ walk \in [after : {Empty} \cup Runs, failed : 0..MaxTries,
                 st : {"going", "complete", "given up"}]
    /\ seen \in [Runs -> Nat]

(* The runs that come between two pages shift nothing: a walk by cursor    *)
(* has been handed the runs from its first page's newest down to its       *)
(* cursor, each of them once, and no other, also when calls were repeated. *)
NoGapNoRepeat ==
    \A i \in Runs : seen[i] = IF /\ i <= start
                                 /\ walk.after # Empty => i >= walk.after
                              THEN 1 ELSE 0

(* nextAfterCursor: "treating it as the last page would silently truncate  *)
(* history": a caller that was told there is no further page has all runs. *)
NotTruncated ==
    walk.st = "complete" => \A i \in Runs : seen[i] > 0 <=> i <= start

(* nextAfterCursor: "we never hand out a cursor a follow-up call would     *)
(* reject".                                                                *)
CursorAccepted == call.st # "invalid"

(* The walk is the one SnapshotWalk promises, over a history that stands   *)
(* still.                                                                  *)
Snapshot == INSTANCE SnapshotWalk WITH
    goal <- 1..start, taken <- {i \in Runs : seen[i] > 0}, over <- walk.st = "complete"
KeepsPromise == Snapshot!Spec

(* Every walk ends, however many runs are added meanwhile.                 *)
Ends == <>(walk.st # "going")
===============================================================================
