------------------------------- MODULE ToolCalls -------------------------------
(***************************************************************************)
(* One HTTP request through the server: the middleware chain (httpx), the  *)
(* bearer token (auth), the call log and the handler of the tool (mcpsrv), *)
(* the requests it sends to GoCD, and the log lines it leaves behind.      *)
(* Requests of several users run side by side.                             *)
(*                                                                         *)
(* The MCP SDK is external: it runs a tool's handler beside the HTTP       *)
(* handler, with the principal of the request the call came in, and the    *)
(* HTTP handler ends when the reply is written or the client goes away.    *)
(***************************************************************************)
EXTENDS GoCDClient, Sequences, Tools

CONSTANTS Requests,  \* HTTP requests
          Users,     \* GoCD logins
          Asked,     \* what is asked for: tools, resources and probes
          Flaws,     \* the unusable values arguments are tried with
          Codes,     \* answers of GoCD
          Toolset,   \* config.Toolset
          LogLevel,  \* config.LogLevel
          Panics     \* something below the middleware may panic

Probes   == {"healthz", "readyz"}
Nameless == "nameless"  \* a token GoCD accepts without naming its user
NoLogin  == "none"      \* no token, or one GoCD does not accept

ASSUME AskedAssumption  == Asked \subseteq Tools \cup Resources \cup Probes
ASSUME UsersAssumption  == {Nameless, NoLogin} \cap Users = {}
ASSUME CodesAssumption  == Codes \subseteq Nat
ASSUME FlawsAssumption  == Flaws \subseteq {"blank", "odd", "dots"}
ASSUME ConfigAssumption == /\ Toolset \in {"readonly", "actions", "full"}
                           /\ LogLevel \in {"debug", "info", "warn", "error"}
                           /\ Panics \in BOOLEAN

VARIABLES request,  \* request[r]: what was asked, with which arguments, by whom
          http,     \* http[r]: the HTTP side: "idle", "auth", "open" or "closed"
          tool,     \* tool[r]: the handler: "none", "start", "asking", "told", "done"
          told,     \* told[r]: what the handler returned
          holder,   \* holder[c]: the login in a request's loginHolder cell
          sent,     \* sent[r]: the requests sent to GoCD, with their answers, and
                    \* whether GoCD took the change they ask for
          log       \* log[r]: the log lines written for the request

vars == <<request, http, tool, told, holder, sent, log>>

NoRequest == [what |-> "none", args |-> Unchecked, login |-> NoLogin]

(* Mutant: one holder, made with the middleware and not with the request.  *)
MutantHolderOf(r) == CHOOSE q \in Requests : TRUE

(* The cell accessLogMW makes for request r.                               *)
HolderOf(r) == r

(* The service, and so the token, is built for each request.               *)
TokenOf(r) == request[r].login

(* PrincipalFromContext finds no principal without a login.                *)
Principal(r) == request[r].login \in Users

(* The handler of a slog logger drops what is below its level.             *)
Written(level) ==
    CASE LogLevel = "error" -> level = "error"
      [] LogLevel = "warn"  -> level \in {"error", "warn"}
      [] OTHER              -> TRUE

Line(msg, what, login, ok) == [msg |-> msg, what |-> what, login |-> login, ok |-> ok]

(* The log of request r with one more line.                                *)
Logged(r, level, line) == IF Written(level) THEN [log EXCEPT ![r] = Append(@, line)] ELSE log

LoginOf(r) == IF Principal(r) THEN request[r].login ELSE NoLogin

AccessLine(r, status) == Line("request", status, holder[HolderOf(r)], TRUE)

-------------------------------------------------------------------------------
(* The middleware chain.                                                   *)

InputsOf(what) ==
    LET good == [f \in Arguments(what) |-> "good"]
    IN  {good} \cup UNION {{[good EXCEPT ![f] = v] : v \in Flaws \cap Unusual(f)} :
                             f \in Arguments(what)}

Arrive(r) ==
    /\ http[r] = "idle"
    /\ \E what \in Asked \ Probes, login \in Users \cup {Nameless, NoLogin} :
         \E args \in InputsOf(what) :
           request' = [request EXCEPT ![r] = [what |-> what, args |-> args, login |-> login]]
    /\ http' = [http EXCEPT ![r] = "auth"]
    /\ UNCHANGED <<tool, told, holder, sent, log>>

(* healthz answers at once; readyz asks GoCD, without a token, and takes   *)
(* any answer for a sign of life.                                          *)
Probe(r) ==
    /\ http[r] = "idle"
    /\ \E what \in Asked \cap Probes, code \in Codes :
         LET status == IF what = "readyz" /\ code = NoResponse THEN "503" ELSE "200"
         IN  /\ request' = [request EXCEPT ![r].what = what]
             /\ sent' = IF what = "healthz" THEN sent
                        ELSE [sent EXCEPT ![r] = <<[method |-> "GET", as |-> NoLogin,
                                                    path |-> Unchecked, code |-> code,
                                                    took |-> FALSE]>>]
             /\ log' = Logged(r, "info", AccessLine(r, status))
    /\ http' = [http EXCEPT ![r] = "closed"]
    /\ UNCHANGED <<tool, told, holder>>

(* Mutant: authentication stands above the access log.                     *)
MutantReject(r) == /\ http[r] = "auth" /\ request[r].login = NoLogin
                   /\ http' = [http EXCEPT ![r] = "closed"]
                   /\ UNCHANGED <<request, tool, told, holder, sent, log>>

(* The bearer-token middleware: no valid token, no handler.                *)
Reject(r) ==
    /\ http[r] = "auth" /\ request[r].login = NoLogin
    /\ http' = [http EXCEPT ![r] = "closed"]
    /\ log' = Logged(r, "info", AccessLine(r, "401"))
    /\ UNCHANGED <<request, tool, told, holder, sent>>

(* captureLoginMW notes the login for the access log.                      *)
Admit(r) ==
    /\ http[r] = "auth" /\ request[r].login # NoLogin
    /\ http' = [http EXCEPT ![r] = "open"]
    /\ tool' = [tool EXCEPT ![r] = "start"]
    /\ holder' = IF Principal(r) THEN [holder EXCEPT ![HolderOf(r)] = request[r].login]
                 ELSE holder
    /\ UNCHANGED <<request, told, sent, log>>

(* The HTTP side ends, with the reply (the tool is done) or before it (the *)
(* client is gone); a status nobody wrote counts as 200.                   *)
Close(r) ==
    /\ http[r] = "open"
    /\ http' = [http EXCEPT ![r] = "closed"]
    /\ log' = Logged(r, "info", AccessLine(r, "200"))
    /\ UNCHANGED <<request, tool, told, holder, sent>>

Reply(r)      == tool[r] = "done" /\ Close(r)
Disconnect(r) == tool[r] # "done" /\ Close(r)

(* recoverMW logs a panic below it; accessLogMW has no chance to.          *)
Panic(r) ==
    /\ Panics /\ http[r] \in {"auth", "open"}
    /\ http' = [http EXCEPT ![r] = "closed"]
    /\ log' = Logged(r, "error", Line("panic recovered", "500", NoLogin, FALSE))
    /\ UNCHANGED <<request, tool, told, holder, sent>>

-------------------------------------------------------------------------------
(* The handlers.                                                           *)

Tell(r, result) == /\ tool' = [tool EXCEPT ![r] = "told"]
                   /\ told' = [told EXCEPT ![r] = result]

(* An error of a resource is a Go error, that of a tool an error result.   *)
ErrorFrom(what, result) == IF what \in Resources THEN "failed" ELSE result

(* Nothing left to check: on to GoCD, or to the answer if it is not asked. *)
Proceed(r, what) ==
    IF Valid(what, request[r].args)
    THEN /\ tool' = [tool EXCEPT ![r] = "asking"]
         /\ UNCHANGED told
    ELSE Tell(r, ErrorFrom(what, "invalid"))

Starts(r, calls) == /\ tool[r] = "start"
                    /\ request[r].what \in calls \cap Registered(Toolset)

(* The SDK knows nothing of a tool that was not registered.                *)
Unregistered(r) == /\ tool[r] = "start" /\ request[r].what \notin Registered(Toolset)
                   /\ Tell(r, "unknown")
                   /\ UNCHANGED <<request, http, holder, sent, log>>

(* No principal in the context: the handler itself fails.                  *)
NoPrincipal(r) == /\ ~Principal(r)
                  /\ Tell(r, "failed")
                  /\ UNCHANGED log

Whoami(r) == /\ Starts(r, Identity)
             /\ Tell(r, IF Principal(r) THEN "ok" ELSE "failed")
             /\ UNCHANGED <<request, http, holder, sent, log>>

Read(r) == /\ Starts(r, ReadOnlyTools)
           /\ \/ NoPrincipal(r)
              \/ Principal(r) /\ Proceed(r, request[r].what) /\ UNCHANGED log
           /\ UNCHANGED <<request, http, holder, sent>>

(* A resource is named by a URI, whose pipeline must not be empty.         *)
ReadResource(r) ==
    /\ Starts(r, Resources)
    /\ LET unnamed == "blank" \in {request[r].args[f] : f \in {"pipeline"} \cap
                                                              DOMAIN request[r].args}
       IN  \/ unnamed /\ Tell(r, "failed") /\ UNCHANGED log
           \/ ~unnamed /\ NoPrincipal(r)
           \/ ~unnamed /\ Principal(r) /\ Proceed(r, request[r].what) /\ UNCHANGED log
    /\ UNCHANGED <<request, http, holder, sent>>

(* audit: who asks for which action, before anything is checked or done.   *)
Audit(r) == log' = Logged(r, "info", Line("audit", request[r].what, LoginOf(r), TRUE))

Act(r) == /\ Starts(r, ActionTools)
          /\ \/ NoPrincipal(r)
             \/ Principal(r) /\ Audit(r) /\ Proceed(r, request[r].what)
          /\ UNCHANGED <<request, http, holder, sent>>

(* Mutant: a config tool goes unaudited.                                   *)
MutantEditConfig(r) == /\ Starts(r, ConfigTools)
                       /\ \/ NoPrincipal(r)
                          \/ Principal(r) /\ Proceed(r, request[r].what) /\ UNCHANGED log
                       /\ UNCHANGED <<request, http, holder, sent>>

EditConfig(r) == /\ Starts(r, ConfigTools)
                 /\ \/ NoPrincipal(r)
                    \/ Principal(r) /\ Audit(r) /\ Proceed(r, request[r].what)
                 /\ UNCHANGED <<request, http, holder, sent>>

-------------------------------------------------------------------------------
(* GoCD is asked, and what the handler makes of the answers.               *)

(* toolError: what a caller is told of an error.                           *)
ToolError(err) ==
    CASE err = "ErrUnauthorized"       -> "unauthorized"
      [] err = "ErrForbidden"          -> "forbidden"
      [] err = "ErrNotFound"           -> "not found"
      [] err = "ErrPreconditionFailed" -> "version conflict"
      [] err = "ErrConflict"           -> "conflict"
      [] err = "APIError"              -> "rejected"
      [] OTHER                         -> "error"

(* Nothing is sent twice: each request is the next one of the plan.        *)
Upcoming(r) == Plan(request[r].what)[Len(sent[r]) + 1]

(* The request as GoCD receives it.                                        *)
AsSent(r, code, took) ==
    [method |-> Upcoming(r).method, as |-> TokenOf(r), code |-> code, took |-> took,
     path   |-> [f \in Upcoming(r).path |-> Escape(request[r].args[f])]]

(* Whether GoCD took a change, by its answer: a success may be that of the *)
(* GET a redirect made of it, and a conflict may follow a schedule.        *)
Effects(r, code) ==
    IF /\ Upcoming(r).method # "GET"
       /\ MayHaveActed(code) \/ (request[r].what = "trigger_pipeline" /\ code = 409)
    THEN BOOLEAN ELSE {FALSE}

IsTrigger(what) == what \in {"trigger_pipeline", "trigger_stage"}

(* Mutant: what is not there need not be changed: a 404 passes.            *)
MutantFailure(r, code, usable) ==
    CASE Upcoming(r).method # "GET" /\ code = 404 -> "nil"
      [] Upcoming(r).method = "GET" /\ ~usable /\ Success(code) -> "Undecodable"
      [] request[r].what = "trigger_pipeline" /\ Upcoming(r).method = "POST"
           /\ ErrorOf(code) = "ErrConflict" -> "nil"
      [] OTHER -> ErrorOf(code)

(* A success with a body that is no use is an error, for a read; a         *)
(* conflict is none for a pipeline trigger, which polls all the same.      *)
Failure(r, code, usable) ==
    CASE Upcoming(r).method = "GET" /\ ~usable /\ Success(code) -> "Undecodable"
      [] request[r].what = "trigger_pipeline" /\ Upcoming(r).method = "POST"
           /\ ErrorOf(code) = "ErrConflict" -> "nil"
      [] OTHER -> ErrorOf(code)

(* Mutant: a poll that fails fails the call.                               *)
MutantOutcomes(r, err) == IF err # "nil" THEN {ToolError(err)}
                          ELSE IF IsTrigger(request[r].what) THEN {"ok", "unconfirmed"}
                          ELSE {"ok"}

(* The SDK checks a tool's output against its schema, and may fail; what   *)
(* the tools that change something return are scalars, which always fit.   *)
Wrapped(what) == IF what \in ReadOnlyTools THEN {"failed"} ELSE {}

(* A trigger that posted confirms its run or leaves the matter open.       *)
Outcomes(r, err) ==
    LET what == request[r].what
    IN  IF IsTrigger(what) /\ Len(sent[r]) = 2
        THEN IF err = "nil" THEN {"ok", "unconfirmed"} ELSE {"unconfirmed"}
        ELSE Wrapped(what) \cup {IF err = "nil" THEN "ok" ELSE ErrorFrom(what, ToolError(err))}

(* The last request of the plan, or one that failed, ends the call.        *)
Final(r, err) == err # "nil" \/ Len(sent[r]) + 1 = Len(Plan(request[r].what))

Ask(r) ==
    /\ tool[r] = "asking"
    /\ \E code \in Codes, usable \in BOOLEAN :
         LET err == Failure(r, code, usable)
         IN  /\ \E took \in Effects(r, code) :
                   sent' = [sent EXCEPT ![r] = Append(@, AsSent(r, code, took))]
             /\ IF Final(r, err)
                THEN \E result \in Outcomes(r, err) : Tell(r, result)
                ELSE UNCHANGED <<tool, told>>
    /\ UNCHANGED <<request, http, holder, log>>

(* Mutant: a result that is a typed nil is dereferenced, and the call dies. *)
MutantReturnedNil(r) == /\ tool[r] = "told" /\ told[r] # "failed"
                        /\ tool' = [tool EXCEPT ![r] = "done"]
                        /\ UNCHANGED <<request, http, told, holder, sent, log>>

(* Mutant: whatever was returned without a Go error counts as ok.          *)
MutantReturned(r) == /\ tool[r] = "told"
                     /\ tool' = [tool EXCEPT ![r] = "done"]
                     /\ log' = IF request[r].what \in Resources THEN log
                               ELSE Logged(r, "info", Line("tool_call", request[r].what,
                                                           LoginOf(r), told[r] # "failed"))
                     /\ UNCHANGED <<request, http, told, holder, sent>>

(* toolCallLogger: one line for every tools/call, when it has returned; an *)
(* error result is not ok.  Resources are read by another method.          *)
Returned(r) ==
    /\ tool[r] = "told"
    /\ tool' = [tool EXCEPT ![r] = "done"]
    /\ log' = IF request[r].what \in Resources THEN log
              ELSE Logged(r, "info", Line("tool_call", request[r].what, LoginOf(r),
                                          told[r] \in {"ok", "unconfirmed"}))
    /\ UNCHANGED <<request, http, told, holder, sent>>

-------------------------------------------------------------------------------
Init == /\ request = [r \in Requests |-> NoRequest]
        /\ http = [r \in Requests |-> "idle"]
        /\ tool = [r \in Requests |-> "none"]
        /\ told = [r \in Requests |-> "nothing"]
        /\ holder = [r \in Requests |-> NoLogin]
        /\ sent = [r \in Requests |-> <<>>]
        /\ log = [r \in Requests |-> <<>>]

(* The handler of request r takes its next step.                           *)
Handle(r) == Unregistered(r) \/ Whoami(r) \/ Read(r) \/ ReadResource(r) \/ Act(r) \/ EditConfig(r)
             \/ Ask(r) \/ Returned(r)

Serve(r) == Reject(r) \/ Admit(r) \/ Reply(r)

Next == \E r \in Requests : \/ Arrive(r) \/ Probe(r) \/ Serve(r) \/ Handle(r)
                            \/ Disconnect(r) \/ Panic(r)

(* Handlers and middleware run on, and every wait for GoCD is bounded by   *)
(* http.Client's timeout: then the answer is NoResponse.                   *)
Fairness == \A r \in Requests : WF_vars(Serve(r)) /\ WF_vars(Handle(r))

Spec == Init /\ [][Next]_vars /\ Fairness
-------------------------------------------------------------------------------
Results == {"nothing", "ok", "unconfirmed", "invalid", "failed", "unknown", "unauthorized",
            "forbidden", "not found", "version conflict", "conflict", "rejected", "error"}

(* Type correctness; no call sends more than three requests.               *)
TypeOK ==
    /\ \A r \in Requests :
          /\ request[r].what \in Asked \cup {"none"}
          /\ request[r].login \in Users \cup {Nameless, NoLogin}
          /\ Len(sent[r]) <= 3
          /\ \A i \in DOMAIN sent[r] : /\ sent[r][i].method \in {"GET", "POST", "PUT",
                                                                "PATCH", "DELETE"}
                                       /\ sent[r][i].code \in Codes
                                       /\ sent[r][i].took \in BOOLEAN
    /\ http \in [Requests -> {"idle", "auth", "open", "closed"}]
    /\ tool \in [Requests -> {"none", "start", "asking", "told", "done"}]
    /\ told \in [Requests -> Results]
    /\ holder \in [Requests -> Users \cup {NoLogin}]

Changes(r)    == {i \in DOMAIN sent[r] : sent[r][i].method # "GET"}
Lines(r, msg) == {i \in DOMAIN log[r] : log[r][i].msg = msg}

(* The audit trail: before GoCD is sent anything but a read, the log has a *)
(* line that names the tool, and as its login the owner of the token that  *)
(* the request carries (README: "every mutating action logs action, login, *)
(* and target").                                                           *)
AuditedFirst ==
    \A r \in Requests : \A i \in Changes(r) :
        \E j \in Lines(r, "audit") : /\ log[r][j].what = request[r].what
                                     /\ log[r][j].login = sent[r][i].as

(* The lines of one request and the requests sent for it are all of one    *)
(* user, whatever other requests run; the access line of an authenticated  *)
(* call does name the user.                                                *)
OneIdentity ==
    \A r \in Requests :
        /\ \A i \in DOMAIN log[r] : log[r][i].login \in {NoLogin, request[r].login}
        /\ \A i \in DOMAIN sent[r] : sent[r][i].as = request[r].login
        /\ http[r] = "closed" /\ tool[r] # "none" /\ Principal(r) =>
              \A i \in Lines(r, "request") : log[r][i].login = request[r].login

(* The toolset bounds what GoCD can be asked for: reads only under         *)
(* "readonly", and no change of a configuration below "full".              *)
ToolsetKept ==
    \A r \in Requests : Changes(r) # {} =>
        \/ Toolset = "full"
        \/ Toolset = "actions" /\ request[r].what \in ActionTools

(* Every argument that goes into a path fills one segment of it: none is   *)
(* empty, and none holds a separator that is not escaped.  "." and ".."    *)
(* are let through as they are (domain.go:146-154, gocd/actions.go:16):    *)
(* what GoCD takes such a segment for is not said here.                    *)
SegmentsKept ==
    \A r \in Requests : \A i \in DOMAIN sent[r] :
        \A f \in DOMAIN sent[r][i].path : sent[r][i].path[f] \notin {"blank", "odd"}

(* "ok" is said only when the whole plan went through; the one answer      *)
(* above 399 it tolerates is the conflict of a pipeline trigger whose run  *)
(* was then seen.                                                          *)
OkMeansDone ==
    \A r \in Requests : told[r] = "ok" =>
        /\ request[r].what \in Tools \cup Resources =>
              Len(sent[r]) = Len(Plan(request[r].what))
        /\ \A i \in DOMAIN sent[r] :
              Success(sent[r][i].code) \/ (i = 2 /\ sent[r][i].code = 409
                                           /\ request[r].what = "trigger_pipeline")

(* When a caller is told of an error, GoCD has taken none of the changes   *)
(* asked for, however the steps after them went; unless the answer to the  *)
(* change itself was lost or is a 5xx: then the error leaves it open, and  *)
(* another try may do the change twice.                                    *)
ErrorMeansNotAccepted ==
    \A r \in Requests : told[r] \notin {"nothing", "ok", "unconfirmed"} =>
        \A i \in Changes(r) : sent[r][i].took => Undecided(sent[r][i].code)

(* toolCallLogger: a call that has returned left one tool_call line, an    *)
(* unknown tool's too, and its ok says whether the caller got an error.    *)
CallLogged ==
    \A r \in Requests : tool[r] = "done" /\ request[r].what \in Tools =>
        \E i \in DOMAIN log[r] :
            /\ Lines(r, "tool_call") = {i}
            /\ log[r][i].ok <=> told[r] \in {"ok", "unconfirmed"}
            /\ log[r][i].login = LoginOf(r)

(* Every HTTP request that has ended, rejected ones too, left one line:    *)
(* that of the access log or that of a panic.                              *)
RequestAccounted ==
    \A r \in Requests : http[r] = "closed" =>
        \E i \in DOMAIN log[r] : Lines(r, "request") \cup Lines(r, "panic recovered") = {i}

(* Every call returns, and every HTTP request ends, whatever GoCD answers  *)
(* or fails to.                                                            *)
Answered ==
    \A r \in Requests : /\ (tool[r] = "start") ~> (tool[r] = "done")
                        /\ (http[r] = "auth") ~> (http[r] = "closed")
===============================================================================
