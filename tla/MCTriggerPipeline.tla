-------------------------- MODULE MCTriggerPipeline --------------------------
(* Instances of TriggerPipeline for TLC.                                   *)
EXTENDS TriggerPipeline, TLC

CONSTANTS c1, c2, alice, bob, changes

(* One call per login, or two under the same one.                          *)
DistinctLogins == c1 :> alice @@ c2 :> bob
SharedLogin    == c1 :> alice @@ c2 :> alice

(* A run under alice's name that nobody forced: bob's calls are the other  *)
(* user's runs.                                                            *)
Strangers == {[by |-> alice, forced |-> FALSE]}

(* A material change; alice herself forcing a run from the web UI.         *)
AliceElsewhere == {[by |-> changes, forced |-> FALSE], [by |-> alice, forced |-> TRUE]}

MaterialChange == {[by |-> changes, forced |-> FALSE]}

(* Accepted, refused, conflict, no answer.                                 *)
ScheduleCodes == {202, 403, 409, NoResponse}

CallSymmetry == Permutations({c1, c2})
===============================================================================
