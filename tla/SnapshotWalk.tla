------------------------------ MODULE SnapshotWalk ------------------------------
(***************************************************************************)
(* What reading a pipeline's history page by page promises: the walk is    *)
(* one over the runs that were there when its first page was served, as if *)
(* no run came after them.  It takes them newest first, none twice, and is *)
(* over when it has taken all of them.                                     *)
(***************************************************************************)
EXTENDS Naturals

CONSTANT MaxRuns  \* runs of the pipeline, numbered from the oldest

VARIABLES goal,   \* the runs the walk is about
          taken,  \* those it has taken
          over    \* the walk has been told that there are no more

vars == <<goal, taken, over>>

(* Take the newest runs of g that are left, some of them at least.         *)
Take(g) ==
    /\ goal' = g
    /\ \E page \in SUBSET (g \ taken) :
          /\ page = {} => g = {}
          /\ \A i \in page, j \in g \ taken : j > i => j \in page
          /\ taken' = taken \cup page
    /\ over' = (taken' = g)

Init  == goal = {} /\ taken = {} /\ over = FALSE

First == goal = {} /\ \E n \in 0..MaxRuns : Take(1..n)
Later == goal # {} /\ Take(goal)
Next  == ~over /\ (First \/ Later)

Spec  == Init /\ [][Next]_vars
===============================================================================
