--------------------------- MODULE MCTriggerStage ---------------------------
(* Instances of TriggerStage for TLC.                                      *)
EXTENDS TriggerStage, TLC

CONSTANTS c1, c2, alice, bob, changes

DistinctLogins == c1 :> alice @@ c2 :> bob

(* Accepted, refused, in progress, no answer.                              *)
RunCodes == {202, 403, 409, NoResponse}
===============================================================================
