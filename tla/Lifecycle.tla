------------------------------- MODULE Lifecycle -------------------------------
(***************************************************************************)
(* The process (cmd/gocd-mcp): it loads its configuration, serves over TLS *)
(* or plain HTTP as that says, and on SIGINT or SIGTERM drains for at most *)
(* 15 s.  Requests and the handlers of their tools are what it may cut     *)
(* off.                                                                    *)
(*                                                                         *)
(* net/http and the MCP SDK are external: ListenAndServe accepts           *)
(* connections until Shutdown is called or accepting fails, and not at all *)
(* after it; a connection accepted before is served its first request,     *)
(* unless 5 s pass without one while the server shuts down.  Shutdown      *)
(* returns when no connection waits for its first request and no request   *)
(* is open, or when its context ends.  A tool's handler runs beside its    *)
(* request and outlives one whose client has gone.                         *)
(***************************************************************************)
EXTENDS ConfigLoad

CONSTANTS Requests,  \* HTTP requests that call a tool
          Sources    \* environments, with the files CONFIG_FILE names in them

VARIABLES environment, file,  \* the sources of the process
          config,    \* what it made of them
          proc,      \* "load", "serve", "drain", "drained", "return", "gone"
          exit,      \* the exit status, "none" while the process runs
          listener,  \* ListenAndServe: "new", "tls", "plain", "refused" (it could not
                     \* listen), "broken" (it can accept no more) or "closed"
          errCh,     \* what it returned and main has not taken
          signal,    \* NotifyContext is done
          expired,   \* shutdownCtx is done
          http,      \* http[r]: "none", "connected" (its connection is accepted), "open",
                     \* "replied", "left", "closed" (never read) or "cut"
          tool,      \* tool[r]: "none", "run", "accepted" (GoCD took the change), "done", "cut"
          log        \* the messages the process has logged

settings == <<environment, file, config>>
vars == <<settings, proc, exit, listener, errCh, signal, expired, http, tool, log>>

Alive   == exit = "none"
Serving == listener \in {"tls", "plain"}
Open    == {r \in Requests : http[r] = "open"}
Due     == {r \in Requests : http[r] = "connected"}

(* slog drops what is below the level; a level it does not know is info.   *)
Written(c, severity) ==
    CASE c["log_level"] = "error" -> severity = "error"
      [] c["log_level"] = "warn"  -> severity \in {"warn", "error"}
      [] OTHER                    -> TRUE

Logged(severity, msg) == IF Written(config, severity) THEN log \cup {msg} ELSE log

Init == /\ \E s \in Sources : environment = s.environment /\ file = s.file
        /\ config = Nothing
        /\ proc = "load" /\ exit = "none"
        /\ listener = "new" /\ errCh = "nothing"
        /\ signal = FALSE /\ expired = FALSE
        /\ http = [r \in Requests |-> "none"]
        /\ tool = [r \in Requests |-> "none"]
        /\ log = {}

(* Whatever runs when the process ends is cut off.                         *)
Cut == /\ http' = [r \in Requests |-> CASE http[r] = "open"      -> "cut"
                                         [] http[r] = "connected" -> "closed"
                                         [] OTHER                 -> http[r]]
       /\ tool' = [r \in Requests |-> IF tool[r] \in {"run", "accepted"} THEN "cut" ELSE tool[r]]

End(status) == /\ proc' = "gone" /\ exit' = status
               /\ Cut
               /\ UNCHANGED <<listener, errCh, signal, expired>>

(* main, up to the select.  Without a usable configuration, or with a log  *)
(* file that does not open, it panics; without TLS it says so.             *)
LoadConfig ==
    /\ Alive /\ proc = "load"
    /\ LET loaded == Load(environment, file)
       IN  \/ /\ loaded.ok
              /\ config' = loaded.config
              /\ proc' = "serve"
              /\ log' = IF TLSEnabled(config') \/ ~Written(config', "warn") THEN log
                        ELSE log \cup {"TLS is not configured"}
              /\ UNCHANGED <<exit, listener, errCh, signal, expired, http, tool>>
           \/ /\ ~loaded.ok \/ loaded.config["log_file"] # ""
              /\ End("panic")
              /\ UNCHANGED <<config, log>>
    /\ UNCHANGED <<environment, file>>

(* ListenAndServeTLS or ListenAndServe.                                    *)
Scheme == IF TLSEnabled(config) THEN "tls" ELSE "plain"

(* The goroutine that serves: it starts some time after main went on.      *)
Listen ==
    /\ Alive /\ proc # "load" /\ listener = "new"
    /\ log' = Logged("info", "starting")
    /\ \/ /\ proc \in {"drain", "drained", "return"}
          /\ listener' = "closed" /\ errCh' = "ErrServerClosed"
       \/ /\ proc = "serve"
          /\ \/ listener' = Scheme /\ UNCHANGED errCh
             \/ listener' = "refused" /\ errCh' = "error"
    /\ UNCHANGED <<settings, proc, exit, signal, expired, http, tool>>

Signal == /\ Alive /\ proc # "load" /\ ~signal
          /\ signal' = TRUE
          /\ UNCHANGED <<settings, proc, exit, listener, errCh, expired, http, tool, log>>

(* Accept fails for good, and ListenAndServe returns; what it has accepted *)
(* is served on.                                                           *)
StopServing == /\ Alive /\ proc = "serve" /\ Serving
               /\ listener' = "broken" /\ errCh' = "error"
               /\ UNCHANGED <<settings, proc, exit, signal, expired, http, tool, log>>

(* select, errCh: the server could not listen, or not accept.              *)
ServerExited == /\ Alive /\ proc = "serve" /\ errCh = "error"
                /\ log' = Logged("error", "server exited")
                /\ End("1") /\ UNCHANGED settings

(* select, ctx.Done: Shutdown closes the listener.                         *)
Shutdown == /\ Alive /\ proc = "serve" /\ signal
            /\ proc' = "drain"
            /\ listener' = IF Serving THEN "closed" ELSE listener
            /\ log' = Logged("info", "shutdown signal received")
            /\ UNCHANGED <<settings, exit, errCh, signal, expired, http, tool>>

(* Mutant: main does not wait for Shutdown.                                *)
MutantDrained == /\ Alive /\ proc = "drain"
                 /\ proc' = "drained"
                 /\ UNCHANGED <<settings, exit, listener, errCh, signal, expired, http, tool, log>>

(* Shutdown returns nil: no request is open, and none is due.              *)
Drained == /\ Alive /\ proc = "drain" /\ Open = {} /\ Due = {}
           /\ proc' = "drained"
           /\ UNCHANGED <<settings, exit, listener, errCh, signal, expired, http, tool, log>>

Complete == /\ Alive /\ proc = "drained"
            /\ proc' = "return"
            /\ log' = Logged("info", "shutdown complete")
            /\ UNCHANGED <<settings, exit, listener, errCh, signal, expired, http, tool>>

Return == /\ Alive /\ proc = "return"
          /\ End("0")
          /\ UNCHANGED <<settings, log>>

(* 15 s after Shutdown was called.                                         *)
Expire == /\ Alive /\ proc = "drain" /\ ~expired
          /\ expired' = TRUE
          /\ UNCHANGED <<settings, proc, exit, listener, errCh, signal, http, tool, log>>

(* Mutant: Shutdown waits on.                                              *)
MutantGiveUp == /\ Alive /\ proc = "drain" /\ expired /\ Open = {}
                /\ log' = Logged("error", "graceful shutdown failed")
                /\ End("1") /\ UNCHANGED settings

(* Mutant: shutdownCtx is made from ctx, which is done already.            *)
MutantGiveUpAtOnce == /\ Alive /\ proc = "drain"
                      /\ log' = Logged("error", "graceful shutdown failed")
                      /\ End("1") /\ UNCHANGED settings

(* Shutdown returns the context's error, open requests or none.            *)
GiveUp == /\ Alive /\ proc = "drain" /\ expired
          /\ log' = Logged("error", "graceful shutdown failed")
          /\ End("1") /\ UNCHANGED settings

-------------------------------------------------------------------------------
(* Requests, as far as the end of the process concerns them.               *)

Accept(r) == /\ Alive /\ Serving /\ http[r] = "none"
             /\ http' = [http EXCEPT ![r] = "connected"]
             /\ UNCHANGED <<settings, proc, exit, listener, errCh, signal, expired, tool, log>>

(* The request comes in on its connection, the server shutting down or not. *)
Begin(r) == /\ Alive /\ http[r] = "connected"
            /\ http' = [http EXCEPT ![r] = "open"]
            /\ tool' = [tool EXCEPT ![r] = "run"]
            /\ UNCHANGED <<settings, proc, exit, listener, errCh, signal, expired, log>>

(* Shutdown waits no longer for a connection that sends nothing.           *)
Drop(r) == /\ Alive /\ proc = "drain" /\ http[r] = "connected"
           /\ http' = [http EXCEPT ![r] = "closed"]
           /\ UNCHANGED <<settings, proc, exit, listener, errCh, signal, expired, tool, log>>

(* GoCD takes the change of a tool that makes one.                         *)
Change(r) == /\ Alive /\ tool[r] = "run"
             /\ tool' = [tool EXCEPT ![r] = "accepted"]
             /\ UNCHANGED <<settings, proc, exit, listener, errCh, signal, expired, http, log>>

(* The handler returns; its tool_call line is written.                     *)
Finish(r) == /\ Alive /\ tool[r] \in {"run", "accepted"}
             /\ tool' = [tool EXCEPT ![r] = "done"]
             /\ UNCHANGED <<settings, proc, exit, listener, errCh, signal, expired, http, log>>

Reply(r) == /\ Alive /\ http[r] = "open" /\ tool[r] = "done"
            /\ http' = [http EXCEPT ![r] = "replied"]
            /\ UNCHANGED <<settings, proc, exit, listener, errCh, signal, expired, tool, log>>

Leave(r) == /\ Alive /\ http[r] \in {"connected", "open"}
            /\ http' = [http EXCEPT ![r] = "left"]
            /\ UNCHANGED <<settings, proc, exit, listener, errCh, signal, expired, tool, log>>

Main == LoadConfig \/ ServerExited \/ Shutdown \/ Drained \/ Complete \/ Return \/ GiveUp

Next == \/ Main \/ Listen \/ StopServing \/ Signal \/ Expire
        \/ \E r \in Requests : \/ Accept(r) \/ Begin(r) \/ Drop(r)
                               \/ Change(r) \/ Finish(r) \/ Reply(r) \/ Leave(r)

(* main's goroutine and the one that serves are scheduled, and the timer   *)
(* of shutdownCtx goes off.  Nothing is assumed of handlers or clients.    *)
Fairness == WF_vars(Main) /\ WF_vars(Listen) /\ WF_vars(Expire)

Spec == Init /\ [][Next]_vars /\ Fairness
-------------------------------------------------------------------------------
TypeOK ==
    /\ proc \in {"load", "serve", "drain", "drained", "return", "gone"}
    /\ exit \in {"none", "0", "1", "panic"} /\ (exit = "none" <=> proc # "gone")
    /\ listener \in {"new", "tls", "plain", "refused", "broken", "closed"}
    /\ errCh \in {"nothing", "error", "ErrServerClosed"}
    /\ signal \in BOOLEAN /\ expired \in BOOLEAN
    /\ http \in [Requests -> {"none", "connected", "open", "replied", "left", "closed", "cut"}]
    /\ tool \in [Requests -> {"none", "run", "accepted", "done", "cut"}]
    /\ log \subseteq {"TLS is not configured", "starting", "server exited",
                      "shutdown signal received", "shutdown complete",
                      "graceful shutdown failed"}
    /\ DOMAIN config = Keys

(* Status 0 is kept for a graceful end: a signal came, and every request   *)
(* has had its reply, or its client went; that includes one that came in   *)
(* on a connection accepted before, when the server was shutting down.     *)
ZeroMeansGraceful ==
    exit = "0" => signal /\ \A r \in Requests : http[r] # "cut"

(* A process that ends by itself or cuts a request off says so in its log, *)
(* and only then does its status tell a supervisor of a failure.           *)
FailureIsLogged ==
    exit = "1" <=> log \cap {"server exited", "graceful shutdown failed"} # {} /\ ~Alive

(* "shutdown complete" is the last word: no failure is logged beside it,   *)
(* and nothing that was cut off contradicts it.                            *)
CompleteIsTrue ==
    "shutdown complete" \in log =>
        /\ "graceful shutdown failed" \notin log
        /\ Open = {} /\ \A r \in Requests : http[r] # "cut"

(* A request whose caller waits is cut off only by a failure that the      *)
(* status and the log tell: the 15 s of shutdownCtx were over, for one     *)
(* that came in when the server was shutting down already too, or the      *)
(* server itself failed and main did not drain.                            *)
TimeToFinish ==
    \A r \in Requests : http[r] = "cut" =>
        /\ exit = "1"
        /\ \/ expired /\ "graceful shutdown failed" \in log
           \/ listener = "broken" /\ "server exited" \in log

(* A handler is cut off in silence only if its client has gone: one whose  *)
(* client waits keeps the process from ending with status 0.               *)
CutOffUnseen ==
    exit = "0" => \A r \in Requests : tool[r] = "cut" => http[r] = "left"

Loaded == proc # "load" /\ exit # "panic"

Heeded(k, text) == text \notin {Absent, ""} /\ (k \in Durations => IsDuration(text))

(* The process runs with the settings that were meant: one of the file     *)
(* prevails, an empty one too; then a variable of the environment that is  *)
(* not empty and can be read; then the default (Load, applyFile).          *)
Precedence ==
    Loaded => \A k \in Keys :
        LET inFile == file.keys[k]
            inEnv  == environment[k]
            meant  == CASE inFile # Absent  -> inFile
                        [] inFile = Absent /\ Heeded(k, inEnv)  -> inEnv
                        [] inFile = Absent /\ ~Heeded(k, inEnv) -> Default[k]
        IN  config[k] = IF k = "gocd_base_url" THEN TrimSlash(meant) ELSE meant

(* Plain HTTP is served only if neither a certificate nor a key is named   *)
(* where it counts: never because the two stand in different sources, or   *)
(* because one of them is missing (validate, TLSEnabled, main).            *)
PlainOnlyIfMeant ==
    listener = "plain" =>
        \A k \in {"tls_cert_file", "tls_key_file"} :
            \/ file.keys[k] = ""
            \/ file.keys[k] = Absent /\ environment[k] \in {Absent, ""}

(* A signal ends the process, though handlers hang and clients stay; so    *)
(* does a listener that fails, at the start or later.                      *)
Stops == (signal \/ listener \in {"refused", "broken"}) ~> ~Alive
===============================================================================
