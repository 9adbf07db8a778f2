------------------------------ MODULE GoCDClient ------------------------------
(***************************************************************************)
(* What the REST client (internal/gocd) makes of the answer to one request *)
(* and what that answer says of a state-changing request at the server.    *)
(* A request is abstracted to its outcome: the HTTP status that came back, *)
(* or NoResponse when none did (http.Client.Timeout elapsed, the caller's  *)
(* context was cancelled, the connection broke).                           *)
(***************************************************************************)
EXTENDS Integers

NoResponse == 0

(* statusError sees no error below 400.                                    *)
Success(code) == code \in 1..399

(* The error doJSON returns for an outcome: statusError's sentinels, with  *)
(* ConflictError standing for its sentinel, or the transport's own error.  *)
ErrorOf(code) ==
    CASE code = NoResponse        -> "Transport"
      [] Success(code)             -> "nil"
      [] code = 401               -> "ErrUnauthorized"
      [] code = 403               -> "ErrForbidden"
      [] code = 404               -> "ErrNotFound"
      [] code = 409               -> "ErrConflict"
      [] code = 412               -> "ErrPreconditionFailed"
      [] OTHER                    -> "APIError"

(* An outcome that does not tell whether GoCD carried the request out: no  *)
(* answer at all, or a 5xx (a gateway that gave up, a crash half-way).     *)
Undecided(code) == code = NoResponse \/ code >= 500

(* What an answer leaves open about a POST: GoCD may have carried it out,  *)
(* or may not have.                                                        *)
MayHaveActed(code)    == Success(code) \/ Undecided(code)
MayNotHaveActed(code) == ~Success(code)
===============================================================================
