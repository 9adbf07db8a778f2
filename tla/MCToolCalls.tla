------------------------------ MODULE MCToolCalls ------------------------------
(* Instances of ToolCalls for TLC.                                         *)
EXTENDS ToolCalls

Everything == Tools \cup Resources \cup Probes

(* One tool of each kind, one of them not in the "actions" toolset.        *)
Sample == {"get_pipeline_status", "trigger_pipeline", "pause_pipeline", "delete_pipeline"}

AllCodes == {NoResponse, 200, 401, 403, 404, 409, 412, 422, 502}

(* One answer for each thing a handler makes of one.                       *)
FewCodes == {NoResponse, 200, 409}
===============================================================================
