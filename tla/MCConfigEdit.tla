---------------------------- MODULE MCConfigEdit ----------------------------
(* Instances of ConfigEdit for TLC.                                        *)
EXTENDS ConfigEdit, TLC

CONSTANTS c1, c2, ann

(* One editor, who may repeat a call; the other edits are made elsewhere.  *)
OneEditor == c1 :> ann @@ c2 :> ann

(* Done, absent, stale, not allowed as it is, no word of it.               *)
EditCodes == {200, 404, 412, 422, 502}
===============================================================================
