---------------------------- MODULE LifecycleProofs ----------------------------
(***************************************************************************)
(* Theorems about Lifecycle, for any set of requests and any sources of    *)
(* the configuration.  The invariant IInv says what main has established   *)
(* by the time it is where it is: it serves what config.Load made of the   *)
(* sources; once it drains, no listener is open that could bring in a      *)
(* connection, and once it has drained, no connection has a request due,   *)
(* so that the requests Shutdown has seen off stay the last.               *)
(***************************************************************************)
EXTENDS Lifecycle, TLAPS

Leaving == {"drained", "return"}

Failures == {"server exited", "graceful shutdown failed"}

ListenerOK == /\ Serving => proc \in {"serve", "gone"}
              /\ proc = "load" => listener = "new"
              /\ listener \in {"new", "refused"} => \A r \in Requests : http[r] = "none"
              /\ errCh = "error" => listener \in {"refused", "broken"}
QuietOK    == proc \in Leaving => Open = {} /\ Due = {}
CutOK      == /\ ~Alive => \A r \in Requests : http[r] # "open"
              /\ ~Alive => \A r \in Requests : http[r] # "connected"
              /\ Alive => \A r \in Requests : http[r] # "cut" /\ tool[r] # "cut"
              /\ exit = "0" => \A r \in Requests : http[r] # "cut"
              /\ exit = "0" => \A r \in Requests : tool[r] = "cut" => http[r] = "left"
              /\ \A r \in Requests : tool[r] \in {"run", "accepted"} =>
                                        http[r] \in {"open", "left"}
SignalOK   == proc \in {"drain"} \cup Leaving \/ exit = "0" => signal
LogOK      == /\ Alive => log \cap Failures = {}
              /\ "shutdown complete" \in log => proc = "return" \/ exit = "0"
              /\ exit = "1" => log \cap Failures # {}
              /\ exit \in {"0", "panic"} => log \cap Failures = {}
              /\ proc \notin {"return", "gone"} => "shutdown complete" \notin log

SettingsOK == /\ Loaded => Load(environment, file).ok /\ config = Load(environment, file).config
              /\ Serving => Loaded /\ listener = Scheme

IInv == TypeOK /\ ListenerOK /\ QuietOK /\ CutOK /\ SignalOK /\ LogOK /\ TimeToFinish

LEMMA InitInv == Init => IInv
  BY DEF Init, Nothing, IInv, TypeOK, ListenerOK, QuietOK, CutOK, SignalOK, LogOK, Leaving,
         Failures, Open, Due, TimeToFinish, Alive, Serving

(* What a line adds to the log, whatever the level; errors pass any level. *)
LEMMA LogLines ==
    /\ \A severity, msg : Logged(severity, msg) \in {log, log \cup {msg}}
    /\ \A msg : Logged("error", msg) = log \cup {msg}
  <1>1. Written(config, "error")
    BY DEF Written
  <1>. QED BY <1>1 DEF Logged

(* The end of the process leaves no request open and no handler running.   *)
LEMMA Ends ==
    ASSUME IInv, NEW status \in {"0", "1", "panic"}, Alive, End(status),
           status = "0" => Open = {} /\ signal,
           Open # {} /\ status # "0" =>
              /\ status = "1"
              /\ \/ expired /\ "graceful shutdown failed" \in log'
                 \/ listener = "broken" /\ "server exited" \in log',
           log' \subseteq log \cup Failures,
           status = "1" <=> log' \cap Failures # {},
           status # "0" => proc # "return", UNCHANGED settings
    PROVE  IInv'
  <1>1. TypeOK'
    <2>1. /\ http' \in [Requests -> {"none", "connected", "open", "replied", "left",
                                   "closed", "cut"}]
          /\ tool' \in [Requests -> {"none", "run", "accepted", "done", "cut"}]
      BY DEF End, Cut, IInv, TypeOK
    <2>2. log' \subseteq {"TLS is not configured", "starting", "server exited",
                          "shutdown signal received", "shutdown complete",
                          "graceful shutdown failed"}
      BY DEF IInv, TypeOK, Failures
    <2>. QED BY <2>1, <2>2 DEF End, IInv, TypeOK, settings
  <1>a. \A r \in Requests : http'[r] = CASE http[r] = "open"      -> "cut"
                                          [] http[r] = "connected" -> "closed"
                                          [] OTHER                 -> http[r]
    BY DEF End, Cut
  <1>2. ListenerOK' /\ QuietOK' /\ SignalOK'
    <2>1. listener \in {"new", "refused"} => \A r \in Requests : http'[r] = "none"
      BY <1>a DEF IInv, ListenerOK
    <2>. QED BY <2>1 DEF End, Serving, IInv, ListenerOK, QuietOK, SignalOK, Leaving
  <1>b. TimeToFinish'
    <2>. SUFFICES ASSUME NEW r \in Requests, http'[r] = "cut"
                  PROVE  /\ exit' = "1"
                         /\ \/ expired' /\ "graceful shutdown failed" \in log'
                            \/ listener' = "broken" /\ "server exited" \in log'
      BY DEF TimeToFinish
    <2>1. http[r] # "cut"
      BY DEF IInv, CutOK
    <2>2. r \in Open
      BY <1>a, <2>1 DEF Open
    <2>. QED BY <2>2 DEF End
  <1>3. CutOK'
    <2>1. ~Alive'
      BY DEF End, Alive
    <2>2. \A r \in Requests : /\ http'[r] = CASE http[r] = "open"      -> "cut"
                                             [] http[r] = "connected" -> "closed"
                                             [] OTHER                 -> http[r]
                              /\ tool'[r] = IF tool[r] \in {"run", "accepted"} THEN "cut"
                                            ELSE tool[r]
      BY DEF End, Cut
    <2>3. exit' = "0" => \A r \in Requests : http[r] # "open"
      BY DEF End, Open
    <2>4. \A r \in Requests : http[r] # "cut" /\ tool[r] # "cut"
      BY DEF IInv, CutOK
    <2>5. \A r \in Requests : tool[r] \in {"run", "accepted"} => http[r] \in {"open", "left"}
      BY DEF IInv, CutOK
    <2>. QED BY <2>1, <2>2, <2>3, <2>4, <2>5 DEF CutOK
  <1>4. LogOK'
    <2>1. "shutdown complete" \in log' => "shutdown complete" \in log
      BY DEF Failures
    <2>2. "shutdown complete" \in log => proc = "return"
      BY DEF IInv, LogOK, Alive
    <2>3. "shutdown complete" \in log' => exit' = "0"
      BY <2>1, <2>2 DEF End
    <2>. QED BY <2>3 DEF LogOK, End, Alive
  <1>. QED BY <1>1, <1>2, <1>b, <1>3, <1>4 DEF IInv

LEMMA StepInv == IInv /\ [Next]_vars => IInv'
  <1>. SUFFICES ASSUME IInv, [Next]_vars PROVE IInv'
    OBVIOUS
  <1>0. /\ TypeOK /\ ListenerOK /\ QuietOK /\ CutOK /\ SignalOK /\ LogOK /\ TimeToFinish
        /\ "shutdown complete" \notin Failures
    BY DEF IInv, Failures
  <1>1. CASE LoadConfig
    <2>1. CASE End("panic") /\ UNCHANGED <<settings, log>>
      <3>1. log \cap Failures = {} /\ Alive /\ proc = "load" /\ Open = {}
        BY <1>0, <1>1 DEF LogOK, LoadConfig, ListenerOK, Open
      <3>. QED BY <2>1, <3>1, Ends
    <2>2. CASE /\ Alive /\ proc = "load" /\ proc' = "serve" /\ DOMAIN config' = Keys
               /\ log' \in {log, log \cup {"TLS is not configured"}}
               /\ UNCHANGED <<exit, listener, errCh, signal, expired, http, tool>>
      BY <1>0, <2>2 DEF IInv, TypeOK, ListenerOK, QuietOK, CutOK, SignalOK, LogOK, Leaving,
                        Open, Due, TimeToFinish, Alive, Serving, Failures
    <2>3. DOMAIN Load(environment, file).config = Keys
      BY DEF Load, ApplyFile
    <2>. QED BY <1>1, <2>1, <2>2, <2>3 DEF LoadConfig, settings
  <1>2. CASE ServerExited
    <2>1. log' = log \cup {"server exited"} /\ End("1") /\ Alive /\ proc = "serve"
          /\ UNCHANGED settings
      BY <1>2, LogLines DEF ServerExited
    <2>2. log' \subseteq log \cup Failures /\ log' \cap Failures # {}
      BY <2>1 DEF Failures
    <2>3. Open # {} => listener = "broken" /\ "server exited" \in log'
      BY <1>0, <1>2, <2>1 DEF ServerExited, ListenerOK, Open
    <2>. QED BY <2>1, <2>2, <2>3, Ends
  <1>3. CASE GiveUp
    <2>1. log' = log \cup {"graceful shutdown failed"} /\ End("1") /\ Alive /\ proc = "drain"
          /\ UNCHANGED settings
      BY <1>3, LogLines DEF GiveUp
    <2>2. log' \subseteq log \cup Failures /\ log' \cap Failures # {}
      BY <2>1 DEF Failures
    <2>3. expired /\ "graceful shutdown failed" \in log'
      BY <1>3, <2>1 DEF GiveUp
    <2>. QED BY <2>1, <2>2, <2>3, Ends
  <1>4. CASE Return
    <2>1. Alive /\ proc = "return" /\ End("0") /\ log' = log /\ UNCHANGED settings
      BY <1>4 DEF Return
    <2>2. Open = {} /\ signal /\ log \cap Failures = {}
      BY <1>0, <2>1 DEF QuietOK, SignalOK, LogOK, Leaving
    <2>. QED BY <2>1, <2>2, Ends
  <1>5. CASE Shutdown
    <2>1. log' \in {log, log \cup {"shutdown signal received"}}
      BY <1>5, LogLines DEF Shutdown
    <2>. QED BY <1>0, <1>5, <2>1 DEF Shutdown, IInv, TypeOK, ListenerOK, QuietOK, CutOK, SignalOK,
                 LogOK, Leaving, Failures, Open, Due, TimeToFinish, Alive, Serving, settings
  <1>6. CASE Drained
    BY <1>0, <1>6 DEF Drained, IInv, TypeOK, ListenerOK, QuietOK, CutOK, SignalOK, LogOK,
                      Leaving, Open, Due, TimeToFinish, Alive, Serving, settings
  <1>7. CASE Complete
    <2>1. log' \in {log, log \cup {"shutdown complete"}}
      BY <1>7, LogLines DEF Complete
    <2>. QED BY <1>0, <1>7, <2>1 DEF Complete, IInv, TypeOK, ListenerOK, QuietOK, CutOK, SignalOK,
                 LogOK, Leaving, Failures, Open, Due, TimeToFinish, Alive, Serving, settings
  <1>8. CASE Listen
    <2>1. log' \in {log, log \cup {"starting"}}
      BY <1>8, LogLines DEF Listen
    <2>. QED BY <1>0, <1>8, <2>1 DEF Listen, Scheme, IInv, TypeOK, ListenerOK, QuietOK, CutOK,
                 SignalOK, LogOK, Leaving, Failures, Open, Due, TimeToFinish, Alive, Serving, settings
  <1>9. CASE Signal \/ Expire
    BY <1>0, <1>9 DEF Signal, Expire, IInv, TypeOK, ListenerOK, QuietOK, CutOK, SignalOK,
                      LogOK, Leaving, Open, Due, TimeToFinish, Alive, Serving, settings
  <1>10. ASSUME NEW r \in Requests, Accept(r) PROVE IInv'
    <2>1. proc = "serve" /\ Alive
      BY <1>0, <1>10 DEF Accept, ListenerOK, Alive, TypeOK
    <2>. QED BY <1>0, <1>10, <2>1 DEF Accept, IInv, TypeOK, ListenerOK, QuietOK, CutOK,
                 SignalOK, LogOK, Leaving, Open, Due, Alive, Serving, settings, TimeToFinish
  <1>11. ASSUME NEW r \in Requests,
                Begin(r) \/ Drop(r) \/ Change(r) \/ Finish(r) \/ Reply(r) \/ Leave(r)
         PROVE  IInv'
    <2>1. Alive /\ UNCHANGED <<settings, proc, exit, listener, errCh, signal, expired, log>>
      BY <1>11 DEF Begin, Drop, Change, Finish, Reply, Leave
    <2>2. TypeOK'
      BY <1>0, <1>11 DEF Begin, Drop, Change, Finish, Reply, Leave, TypeOK, settings
    <2>3. ListenerOK' /\ SignalOK' /\ LogOK'
      <3>1. listener \in {"new", "refused"} => \A q \in Requests : http'[q] = "none"
        BY <1>0, <1>11 DEF Begin, Drop, Change, Finish, Reply, Leave, ListenerOK, CutOK
      <3>. QED BY <1>0, <2>1, <3>1 DEF ListenerOK, SignalOK, LogOK, Alive, Serving
    <2>4. QuietOK'
      BY <1>0, <1>11 DEF Begin, Drop, Change, Finish, Reply, Leave, QuietOK, Open, Due, TypeOK
    <2>5. CutOK'
      BY <1>0, <1>11, <2>1 DEF Begin, Drop, Change, Finish, Reply, Leave, CutOK, Alive, TypeOK
    <2>6. TimeToFinish'
      <3>1. \A q \in Requests : http'[q] # "cut"
        BY <2>1, <2>5 DEF CutOK, Alive
      <3>. QED BY <3>1 DEF TimeToFinish
    <2>. QED BY <2>2, <2>3, <2>4, <2>5, <2>6 DEF IInv
  <1>13. CASE StopServing
    <2>1. ~(listener' \in {"new", "refused"}) /\ proc = "serve" /\ Alive
      BY <1>13 DEF StopServing
    <2>. QED BY <1>0, <1>13, <2>1 DEF StopServing, IInv, TypeOK, ListenerOK, QuietOK, CutOK,
                 SignalOK, LogOK, Leaving, Open, Due, Alive, Serving, settings, TimeToFinish
  <1>12. CASE UNCHANGED vars
    BY <1>0, <1>12 DEF vars, IInv, TypeOK, ListenerOK, QuietOK, CutOK, SignalOK, LogOK, Open, Due,
                       Alive, Serving, settings, TimeToFinish
  <1>. QED BY <1>1, <1>2, <1>3, <1>4, <1>5, <1>6, <1>7, <1>8, <1>9, <1>10, <1>11, <1>12,
              <1>13 DEF Next, Main

LEMMA Invariant == Spec => []IInv
  BY InitInv, StepInv, PTL DEF Spec

(* The values the process's variables take.                                *)
THEOREM TypeCorrect == Spec => []TypeOK
  <1>1. IInv => TypeOK
    BY DEF IInv
  <1>. QED BY <1>1, Invariant, PTL

(* However many requests there are and whenever the signal comes, status 0 *)
(* means a graceful end.                                                   *)
THEOREM ZeroIsGraceful == Spec => []ZeroMeansGraceful
  <1>1. IInv => ZeroMeansGraceful
    BY DEF IInv, SignalOK, CutOK, ZeroMeansGraceful
  <1>. QED BY <1>1, Invariant, PTL

(* Status 1 and a logged failure go together.                              *)
THEOREM FailuresLogged == Spec => []FailureIsLogged
  <1>1. IInv => FailureIsLogged
    BY DEF IInv, LogOK, TypeOK, Failures, Alive, FailureIsLogged
  <1>. QED BY <1>1, Invariant, PTL

(* "shutdown complete" is only logged when the server has been drained.    *)
THEOREM CompleteTrue == Spec => []CompleteIsTrue
  <1>1. IInv => CompleteIsTrue
    <2>. SUFFICES ASSUME IInv, "shutdown complete" \in log
                  PROVE  "graceful shutdown failed" \notin log /\ Open = {}
                         /\ \A r \in Requests : http[r] # "cut"
      BY DEF CompleteIsTrue
    <2>1. CASE proc = "return"
      BY <2>1 DEF IInv, QuietOK, CutOK, LogOK, TypeOK, Leaving, Failures, Alive
    <2>2. CASE exit = "0"
      BY <2>2 DEF IInv, CutOK, LogOK, Failures, Open, Due, TimeToFinish, Alive
    <2>. QED BY <2>1, <2>2 DEF IInv, LogOK
  <1>. QED BY <1>1, Invariant, PTL

(* A graceful end cuts off no handler whose caller still waits.            *)
THEOREM NoCallerCutOff == Spec => []CutOffUnseen
  <1>1. IInv => CutOffUnseen
    BY DEF IInv, CutOK, CutOffUnseen
  <1>. QED BY <1>1, Invariant, PTL

(* Whoever is cut off while he waits had 15 s, or the server failed.       *)
THEOREM TimeIsGiven == Spec => []TimeToFinish
  <1>1. IInv => TimeToFinish
    BY DEF IInv
  <1>. QED BY <1>1, Invariant, PTL

-------------------------------------------------------------------------------
(* The settings, from their sources to the listener.                       *)

LEMMA SettingsInit == Init => SettingsOK
  BY DEF Init, SettingsOK, Loaded, Serving

LEMMA SettingsStep == IInv /\ SettingsOK /\ [Next]_vars => SettingsOK'
  <1>. SUFFICES ASSUME IInv, SettingsOK, [Next]_vars PROVE SettingsOK'
    OBVIOUS
  <1>0. ListenerOK /\ (Alive <=> proc # "gone")
    BY DEF IInv, TypeOK, Alive
  <1>1. CASE LoadConfig
    <2>. DEFINE loaded == Load(environment, file)
    <2>1. ~Serving /\ UNCHANGED <<environment, file>>
      BY <1>0, <1>1 DEF LoadConfig, ListenerOK
    <2>2. CASE /\ loaded.ok /\ config' = loaded.config /\ proc' = "serve"
               /\ UNCHANGED <<exit, listener>>
      <3>. HIDE DEF loaded
      <3>1. ~Serving' /\ exit' # "panic"
        BY <2>1, <2>2, <1>1 DEF Serving, LoadConfig, Alive
      <3>2. loaded' = loaded
        BY <2>1 DEF loaded
      <3>. QED BY <2>2, <3>1, <3>2 DEF SettingsOK, loaded
    <2>3. CASE End("panic")
      BY <2>1, <2>3 DEF SettingsOK, Loaded, End, Serving
    <2>. QED BY <1>1, <2>2, <2>3 DEF LoadConfig
  <1>2. CASE Listen
    <2>1. proc # "load" /\ exit # "panic" /\ UNCHANGED <<settings, proc, exit>>
      BY <1>2 DEF Listen, Alive
    <2>2. Serving' => listener' = Scheme
      BY <1>2 DEF Listen, Serving
    <2>3. Loaded /\ Loaded' /\ Scheme' = Scheme
      BY <2>1 DEF Loaded, Scheme, settings
    <2>. QED BY <2>1, <2>2, <2>3 DEF SettingsOK, settings
  <1>3. CASE Shutdown \/ StopServing
    <2>1. UNCHANGED <<settings, exit>> /\ Loaded' /\ Loaded /\ ~Serving'
      BY <1>3 DEF Shutdown, StopServing, Loaded, Serving, Alive
    <2>. QED BY <2>1 DEF SettingsOK, settings
  <1>4. ASSUME UNCHANGED <<settings, listener>>, Loaded' <=> Loaded PROVE SettingsOK'
    BY <1>4 DEF SettingsOK, Serving, Scheme, settings
  <1>5. CASE ServerExited \/ GiveUp \/ Return
    <2>1. UNCHANGED <<settings, listener>> /\ Loaded /\ Loaded'
      BY <1>5 DEF ServerExited, GiveUp, Return, End, Loaded, Alive
    <2>. QED BY <2>1, <1>4
  <1>6. CASE Drained \/ Complete
    <2>1. UNCHANGED <<settings, listener>> /\ Loaded /\ Loaded'
      BY <1>6 DEF Drained, Complete, Loaded, Alive
    <2>. QED BY <2>1, <1>4
  <1>7. CASE Signal \/ Expire \/ UNCHANGED vars
    <2>1. UNCHANGED <<settings, listener, proc, exit>>
      BY <1>7 DEF Signal, Expire, vars
    <2>. QED BY <2>1, <1>4 DEF Loaded
  <1>8. ASSUME NEW r \in Requests,
               \/ Accept(r) \/ Begin(r) \/ Drop(r)
               \/ Change(r) \/ Finish(r) \/ Reply(r) \/ Leave(r)
        PROVE  SettingsOK'
    <2>1. UNCHANGED <<settings, listener, proc, exit>>
      BY <1>8 DEF Accept, Begin, Drop, Change, Finish, Reply, Leave
    <2>. QED BY <2>1, <1>4 DEF Loaded
  <1>. QED BY <1>1, <1>2, <1>3, <1>5, <1>6, <1>7, <1>8 DEF Next, Main

LEMMA SettingsInvariant == Spec => []SettingsOK
  BY SettingsInit, SettingsStep, Invariant, PTL DEF Spec

(* config.Load, of every environment and every file it accepts: the value  *)
(* of a key is the file's, else the environment's, else the default.       *)
LEMMA LoadPrecedence ==
    ASSUME NEW e, NEW f, NEW k \in Keys
    PROVE  Load(e, f).config[k] =
              LET meant == IF f.keys[k] # Absent THEN f.keys[k]
                           ELSE IF Heeded(k, e[k]) THEN e[k] ELSE Default[k]
              IN  IF k = "gocd_base_url" THEN TrimSlash(meant) ELSE meant
  BY DEF Load, ApplyFile, FromEnv, SetInEnv, Heeded

(* A configuration that is accepted names both files of the pair or none.  *)
LEMMA PairOrNone ==
    ASSUME NEW e, NEW f, Load(e, f).ok, ~TLSEnabled(Load(e, f).config)
    PROVE  \A k \in {"tls_cert_file", "tls_key_file"} : Load(e, f).config[k] = ""
  <1>. DEFINE c == ApplyFile(FromEnv(e), f)
  <1>1. (c["tls_cert_file"] = "") = (c["tls_key_file"] = "")
    BY DEF Load, Valid
  <1>2. \A k \in {"tls_cert_file", "tls_key_file"} : Load(e, f).config[k] = c[k]
    BY DEF Load, ApplyFile, Keys
  <1>. QED BY <1>1, <1>2 DEF TLSEnabled

(* The process runs with the settings that its sources mean.               *)
THEOREM MeantSettings == Spec => []Precedence
  <1>1. SettingsOK => Precedence
    BY LoadPrecedence DEF SettingsOK, Precedence
  <1>. QED BY <1>1, SettingsInvariant, PTL

(* No mistake in the pair of TLS files makes the process serve plain HTTP. *)
THEOREM PlainIsMeant == Spec => []PlainOnlyIfMeant
  <1>1. SettingsOK => PlainOnlyIfMeant
    <2>. SUFFICES ASSUME SettingsOK, listener = "plain",
                         NEW k \in {"tls_cert_file", "tls_key_file"}
                  PROVE  \/ file.keys[k] = ""
                         \/ file.keys[k] = Absent /\ environment[k] \in {Absent, ""}
      BY DEF PlainOnlyIfMeant
    <2>. DEFINE loaded == Load(environment, file)
    <2>1. loaded.ok /\ ~TLSEnabled(loaded.config)
      BY DEF SettingsOK, Serving, Scheme
    <2>2. loaded.config[k] = "" /\ k \in Keys /\ k # "gocd_base_url" /\ k \notin Durations
      BY <2>1, PairOrNone DEF Keys, Durations
    <2>3. (IF file.keys[k] # Absent THEN file.keys[k]
           ELSE IF Heeded(k, environment[k]) THEN environment[k] ELSE Default[k]) = ""
      BY <2>2, LoadPrecedence
    <2>. QED BY <2>2, <2>3 DEF Heeded, Absent
  <1>. QED BY <1>1, SettingsInvariant, PTL
===============================================================================
