---------------------------- MODULE ToolCallsProofs ----------------------------
(***************************************************************************)
(* Theorems about ToolCalls, for any number of requests and users and any  *)
(* toolset.  The invariant IInv says of each request how far its handler   *)
(* is: that what was sent is a beginning of the tool's plan, in the name   *)
(* of the caller and with arguments that passed their check; that whatever *)
(* can change something was audited first; and what the result says of     *)
(* what was sent.  It is stated of the values of one request's variables,  *)
(* so that a step of another request leaves it alone by substitution.      *)
(***************************************************************************)
EXTENDS ToolCalls, TLAPS

Methods   == {"GET", "POST", "PUT", "PATCH", "DELETE"}
Values    == {"good", "blank", "odd", "dots"}
Logins    == Users \cup {Nameless, NoLogin}
Changing  == ActionTools \cup ConfigTools
Callable  == Tools \cup Resources

(* What the tables say of the requests of an operation, and of the checks  *)
(* on the arguments that go into their paths.                              *)
PlanOK(what) ==
    /\ \A i \in 1..Len(Plan(what)) : Plan(what)[i].method \in Methods
    /\ Len(Plan(what)) = (IF what = "whoami" THEN 0 ELSE IF IsTrigger(what) THEN 3 ELSE 1)
    /\ IsTrigger(what) => /\ Plan(what)[1].method = "GET"
                          /\ Plan(what)[2].method # "GET"
                          /\ Plan(what)[3].method = "GET"
    /\ what \notin Changing => \A i \in 1..Len(Plan(what)) : Plan(what)[i].method = "GET"

PathsOK(what) ==
    \A i \in 1..Len(Plan(what)) : \A f \in Plan(what)[i].path :
        f \in Arguments(what) /\ "blank" \in Checks(Operation(what))[f]

(* The part of a plan that was sent went well.                             *)
Passed(what, i, code) == Success(code) \/ (i = 2 /\ code = 409 /\ what = "trigger_pipeline")

Quiet == {"nothing", "ok", "unconfirmed"}

Place(c, h, t, o, s) ==
    /\ h = "idle" => c = NoRequest
    /\ h \in {"idle", "auth"} => t = "none"
    /\ t = "none" /\ h # "closed" => s = <<>>
    /\ t = "start" => s = <<>>
    /\ t \in {"none", "start", "asking"} => o = "nothing"
    /\ t # "none" \/ h = "auth" => /\ c.what \in Callable
                                   /\ c.args \in [Arguments(c.what) -> Values]
    /\ t # "none" => c.login # NoLogin
    /\ t = "asking" => /\ c.login \in Users
                       /\ c.what \in Registered(Toolset)
                       /\ Valid(c.what, c.args)
                       /\ Len(s) < Len(Plan(c.what))

SentOK(c, t, s) ==
    /\ \A i \in DOMAIN s : s[i].as = c.login
    /\ t = "none" => Len(s) <= 1
    /\ t = "none" => \A i \in DOMAIN s : s[i].method = "GET" /\ s[i].path = Unchecked
    /\ t # "none" /\ s # <<>> => /\ c.what \in Registered(Toolset)
                                 /\ Valid(c.what, c.args)
    /\ t # "none" => \A i \in DOMAIN s :
          /\ i <= Len(Plan(c.what))
          /\ s[i].method = Plan(c.what)[i].method
          /\ s[i].path = [f \in Plan(c.what)[i].path |-> Escape(c.args[f])]

Loud == LogLevel \in {"debug", "info"}

Audited(c, l) == \E j \in DOMAIN l : /\ l[j].msg = "audit"
                                     /\ l[j].what = c.what
                                     /\ l[j].login = c.login

AuditOK(c, t, s, l) ==
    Loud /\ c.what \in Changing /\ (t = "asking" \/ (t # "none" /\ s # <<>>)) => Audited(c, l)

Settled(c, t, o, s) ==
    /\ t = "asking" => \A i \in DOMAIN s : Passed(c.what, i, s[i].code)
    /\ o = "ok" => /\ Len(s) = Len(Plan(c.what))
                   /\ \A i \in DOMAIN s : Passed(c.what, i, s[i].code)
    /\ o \notin Quiet => \A i \in DOMAIN s :
          s[i].method # "GET" /\ s[i].took => Undecided(s[i].code)

LinesOK(c, h, t, w, l) ==
    /\ \A i \in DOMAIN l : l[i].login \in {NoLogin, c.login}
    /\ h \in {"idle", "auth"} => l = <<>>
    /\ h # "closed" => \A i \in DOMAIN l : l[i].msg # "request"
    /\ h = "closed" /\ t # "none" /\ c.login \in Users =>
          \A i \in DOMAIN l : l[i].msg = "request" => l[i].login = c.login
    /\ w \in {NoLogin, c.login}
    /\ t # "none" /\ c.login \in Users => w = c.login
    /\ t = "none" => w = NoLogin

CallOK(c, h, t, o, w, s, l) ==
    /\ Place(c, h, t, o, s) /\ SentOK(c, t, s) /\ AuditOK(c, t, s, l)
    /\ Settled(c, t, o, s) /\ LinesOK(c, h, t, w, l)

LineSet == [msg : {"request", "panic recovered", "audit", "tool_call"},
            what : Asked \cup {"none", "200", "401", "500", "503"},
            login : Logins, ok : BOOLEAN]
PathSet == {Unchecked} \cup
    UNION {UNION {[Plan(what)[i].path -> Values \cup {"escaped"}] : i \in 1..3} :
              what \in Callable}
SentSet == [method : Methods, as : Logins, path : PathSet, code : Codes, took : BOOLEAN]
ArgSet  == {Unchecked} \cup UNION {[Arguments(what) -> Values] : what \in Callable}

Shape == /\ request \in [Requests -> [what : Asked \cup {"none"}, args : ArgSet,
                                      login : Logins]]
         /\ http \in [Requests -> {"idle", "auth", "open", "closed"}]
         /\ tool \in [Requests -> {"none", "start", "asking", "told", "done"}]
         /\ told \in [Requests -> Results]
         /\ holder \in [Requests -> Users \cup {NoLogin}]
         /\ sent \in [Requests -> Seq(SentSet)]
         /\ log \in [Requests -> Seq(LineSet)]

Sound(r) == CallOK(request[r], http[r], tool[r], told[r], holder[r], sent[r], log[r])

IInv == /\ Shape
        /\ \A r \in Requests : Sound(r)

-------------------------------------------------------------------------------
(* The tables.                                                             *)

LEMMA TriggerPaths == PathsOK("trigger_pipeline") /\ PathsOK("trigger_stage")
  <1>1. Plan("trigger_pipeline") = <<Send("GET", {"pipeline"}), Send("POST", {"pipeline"}),
                                     Send("GET", {"pipeline"})>>
    BY DEF Plan, Operation, Resources, ToolOf, Routes, PipelineRoutes, AgentRoutes,
           InstanceRoutes, LogRoutes, ActionRoutes, ConfigRoutes, TemplateRoutes, Send, Get,
           Post, Checks, ReadChecks, LogChecks, TriggerChecks, StageChecks, ActionChecks,
           ConfigChecks, TemplateChecks
  <1>2. Checks(Operation("trigger_pipeline")) = TriggerChecks.trigger_pipeline
    BY DEF Plan, Operation, Resources, ToolOf, Routes, PipelineRoutes, AgentRoutes,
           InstanceRoutes, LogRoutes, ActionRoutes, ConfigRoutes, TemplateRoutes, Send, Get,
           Post, Checks, ReadChecks, LogChecks, TriggerChecks, StageChecks, ActionChecks,
           ConfigChecks, TemplateChecks
  <1>3. Plan("trigger_stage") = <<Send("GET", {"pipeline", "counter"}),
                                  Send("POST", {"pipeline", "counter", "stage"}),
                                  Send("GET", {"pipeline", "counter"})>>
    BY DEF Plan, Operation, Resources, ToolOf, Routes, PipelineRoutes, AgentRoutes,
           InstanceRoutes, LogRoutes, ActionRoutes, ConfigRoutes, TemplateRoutes, Send, Get,
           Post, Checks, ReadChecks, LogChecks, TriggerChecks, StageChecks, ActionChecks,
           ConfigChecks, TemplateChecks
  <1>4. Checks(Operation("trigger_stage")) = StageChecks.trigger_stage
    BY DEF Plan, Operation, Resources, ToolOf, Routes, PipelineRoutes, AgentRoutes,
           InstanceRoutes, LogRoutes, ActionRoutes, ConfigRoutes, TemplateRoutes, Send, Get,
           Post, Checks, ReadChecks, LogChecks, TriggerChecks, StageChecks, ActionChecks,
           ConfigChecks, TemplateChecks
  <1>5. PathsOK("trigger_pipeline")
    BY <1>1, <1>2 DEF PathsOK, Arguments, Send, TriggerChecks, Named, Present
  <1>6. PathsOK("trigger_stage")
    BY <1>3, <1>4 DEF PathsOK, Arguments, Send, StageChecks, Named, Present
  <1>. QED BY <1>5, <1>6

(* What a pipeline trigger sends besides reads is a POST.                  *)
LEMMA TriggerPosts ==
    ASSUME NEW what, what = "trigger_pipeline", NEW i \in 1..Len(Plan(what))
    PROVE  Plan(what)[i].method \in {"GET", "POST"}
  <1>1. Plan("trigger_pipeline") = <<Send("GET", {"pipeline"}), Send("POST", {"pipeline"}),
                                     Send("GET", {"pipeline"})>>
    BY DEF Plan, Operation, Resources, ToolOf, Routes, PipelineRoutes, AgentRoutes,
           InstanceRoutes, LogRoutes, ActionRoutes, ConfigRoutes, TemplateRoutes, Send, Get, Post
  <1>. QED BY <1>1 DEF Send

LEMMA ReadPlans == \A what \in ReadOnlyTools \cup Identity : PlanOK(what) /\ PathsOK(what)
  <1>. USE DEF Plan, Operation, Resources, ToolOf, Routes, PipelineRoutes, AgentRoutes,
               InstanceRoutes, LogRoutes, ActionRoutes, ConfigRoutes, TemplateRoutes,
               Get, Post, Send
  <1>1. PlanOK("whoami")
    BY DEF PlanOK, Changing, ActionTools, ConfigTools, IsTrigger, Methods
  <1>2. PlanOK("list_pipelines")
    BY DEF PlanOK, Changing, ActionTools, ConfigTools, IsTrigger, Methods
  <1>3. PlanOK("get_pipeline_status")
    BY DEF PlanOK, Changing, ActionTools, ConfigTools, IsTrigger, Methods
  <1>4. PlanOK("get_pipeline_history")
    BY DEF PlanOK, Changing, ActionTools, ConfigTools, IsTrigger, Methods
  <1>5. PlanOK("list_agents")
    BY DEF PlanOK, Changing, ActionTools, ConfigTools, IsTrigger, Methods
  <1>6. PlanOK("get_pipeline_instance")
    BY DEF PlanOK, Changing, ActionTools, ConfigTools, IsTrigger, Methods
  <1>7. PlanOK("get_job_console_log")
    BY DEF PlanOK, Changing, ActionTools, ConfigTools, IsTrigger, Methods
  <1>8. PlanOK("get_pipeline_config")
    BY DEF PlanOK, Changing, ActionTools, ConfigTools, IsTrigger, Methods
  <1>9. PlanOK("list_templates")
    BY DEF PlanOK, Changing, ActionTools, ConfigTools, IsTrigger, Methods
  <1>10. PlanOK("get_template")
    BY DEF PlanOK, Changing, ActionTools, ConfigTools, IsTrigger, Methods
  <1>11. PathsOK("whoami")
    BY DEF PathsOK, Arguments, Checks, ReadChecks, LogChecks, TriggerChecks, StageChecks,
           ActionChecks, ConfigChecks, TemplateChecks, Unchecked, Named, Present
  <1>12. PathsOK("list_pipelines")
    BY DEF PathsOK, Arguments, Checks, ReadChecks, LogChecks, TriggerChecks, StageChecks,
           ActionChecks, ConfigChecks, TemplateChecks, Unchecked, Named, Present
  <1>13. PathsOK("get_pipeline_status")
    BY DEF PathsOK, Arguments, Checks, ReadChecks, LogChecks, TriggerChecks, StageChecks,
           ActionChecks, ConfigChecks, TemplateChecks, Unchecked, Named, Present
  <1>14. PathsOK("get_pipeline_history")
    BY DEF PathsOK, Arguments, Checks, ReadChecks, LogChecks, TriggerChecks, StageChecks,
           ActionChecks, ConfigChecks, TemplateChecks, Unchecked, Named, Present
  <1>15. PathsOK("list_agents")
    BY DEF PathsOK, Arguments, Checks, ReadChecks, LogChecks, TriggerChecks, StageChecks,
           ActionChecks, ConfigChecks, TemplateChecks, Unchecked, Named, Present
  <1>16. PathsOK("get_pipeline_instance")
    BY DEF PathsOK, Arguments, Checks, ReadChecks, LogChecks, TriggerChecks, StageChecks,
           ActionChecks, ConfigChecks, TemplateChecks, Unchecked, Named, Present
  <1>17. PathsOK("get_job_console_log")
    BY DEF PathsOK, Arguments, Checks, ReadChecks, LogChecks, TriggerChecks, StageChecks,
           ActionChecks, ConfigChecks, TemplateChecks, Unchecked, Named, Present
  <1>18. PathsOK("get_pipeline_config")
    BY DEF PathsOK, Arguments, Checks, ReadChecks, LogChecks, TriggerChecks, StageChecks,
           ActionChecks, ConfigChecks, TemplateChecks, Unchecked, Named, Present
  <1>19. PathsOK("list_templates")
    BY DEF PathsOK, Arguments, Checks, ReadChecks, LogChecks, TriggerChecks, StageChecks,
           ActionChecks, ConfigChecks, TemplateChecks, Unchecked, Named, Present
  <1>20. PathsOK("get_template")
    BY DEF PathsOK, Arguments, Checks, ReadChecks, LogChecks, TriggerChecks, StageChecks,
           ActionChecks, ConfigChecks, TemplateChecks, Unchecked, Named, Present
  <1>. HIDE DEF Plan, Operation, Routes
  <1>. QED
    BY <1>1, <1>2, <1>3, <1>4, <1>5, <1>6, <1>7, <1>8, <1>9, <1>10, <1>11, <1>12, <1>13, <1>14, <1>15, <1>16, <1>17, <1>18, <1>19, <1>20 DEF ReadOnlyTools, Identity

LEMMA ResourcePlans == \A what \in Resources : PlanOK(what) /\ PathsOK(what)
  <1>. USE DEF Plan, Operation, Resources, ToolOf, Routes, PipelineRoutes, AgentRoutes,
               InstanceRoutes, LogRoutes, ActionRoutes, ConfigRoutes, TemplateRoutes,
               Get, Post, Send
  <1>1. PlanOK("dashboard")
    BY DEF PlanOK, Changing, ActionTools, ConfigTools, IsTrigger, Methods
  <1>2. PlanOK("agents")
    BY DEF PlanOK, Changing, ActionTools, ConfigTools, IsTrigger, Methods
  <1>3. PlanOK("pipeline_config")
    BY DEF PlanOK, Changing, ActionTools, ConfigTools, IsTrigger, Methods
  <1>4. PlanOK("pipeline_history")
    BY DEF PlanOK, Changing, ActionTools, ConfigTools, IsTrigger, Methods
  <1>5. PathsOK("dashboard")
    BY DEF PathsOK, Arguments, Checks, ReadChecks, LogChecks, TriggerChecks, StageChecks,
           ActionChecks, ConfigChecks, TemplateChecks, Unchecked, Named, Present
  <1>6. PathsOK("agents")
    BY DEF PathsOK, Arguments, Checks, ReadChecks, LogChecks, TriggerChecks, StageChecks,
           ActionChecks, ConfigChecks, TemplateChecks, Unchecked, Named, Present
  <1>7. PathsOK("pipeline_config")
    BY DEF PathsOK, Arguments, Checks, ReadChecks, LogChecks, TriggerChecks, StageChecks,
           ActionChecks, ConfigChecks, TemplateChecks, Unchecked, Named, Present
  <1>8. PathsOK("pipeline_history")
    BY DEF PathsOK, Arguments, Checks, ReadChecks, LogChecks, TriggerChecks, StageChecks,
           ActionChecks, ConfigChecks, TemplateChecks, Unchecked, Named, Present
  <1>. HIDE DEF Plan, Operation, Routes
  <1>. QED
    BY <1>1, <1>2, <1>3, <1>4, <1>5, <1>6, <1>7, <1>8 DEF Resources, ToolOf

LEMMA ActionPlans == \A what \in ActionTools : PlanOK(what) /\ PathsOK(what)
  <1>. USE DEF Plan, Operation, Resources, ToolOf, Routes, PipelineRoutes, AgentRoutes,
               InstanceRoutes, LogRoutes, ActionRoutes, ConfigRoutes, TemplateRoutes,
               Get, Post, Send
  <1>1. PlanOK("trigger_pipeline")
    BY DEF PlanOK, Changing, ActionTools, ConfigTools, IsTrigger, Methods
  <1>2. PlanOK("trigger_stage")
    BY DEF PlanOK, Changing, ActionTools, ConfigTools, IsTrigger, Methods
  <1>3. PlanOK("pause_pipeline")
    BY DEF PlanOK, Changing, ActionTools, ConfigTools, IsTrigger, Methods
  <1>4. PlanOK("unpause_pipeline")
    BY DEF PlanOK, Changing, ActionTools, ConfigTools, IsTrigger, Methods
  <1>5. PlanOK("cancel_stage")
    BY DEF PlanOK, Changing, ActionTools, ConfigTools, IsTrigger, Methods
  <1>6. PlanOK("comment_on_pipeline")
    BY DEF PlanOK, Changing, ActionTools, ConfigTools, IsTrigger, Methods
  <1>7. PathsOK("trigger_pipeline")
    BY TriggerPaths
  <1>8. PathsOK("trigger_stage")
    BY TriggerPaths
  <1>9. PathsOK("pause_pipeline")
    BY DEF PathsOK, Arguments, Checks, ReadChecks, LogChecks, TriggerChecks, StageChecks,
           ActionChecks, ConfigChecks, TemplateChecks, Unchecked, Named, Present
  <1>10. PathsOK("unpause_pipeline")
    BY DEF PathsOK, Arguments, Checks, ReadChecks, LogChecks, TriggerChecks, StageChecks,
           ActionChecks, ConfigChecks, TemplateChecks, Unchecked, Named, Present
  <1>11. PathsOK("cancel_stage")
    BY DEF PathsOK, Arguments, Checks, ReadChecks, LogChecks, TriggerChecks, StageChecks,
           ActionChecks, ConfigChecks, TemplateChecks, Unchecked, Named, Present
  <1>12. PathsOK("comment_on_pipeline")
    BY DEF PathsOK, Arguments, Checks, ReadChecks, LogChecks, TriggerChecks, StageChecks,
           ActionChecks, ConfigChecks, TemplateChecks, Unchecked, Named, Present
  <1>. HIDE DEF Plan, Operation, Routes
  <1>. QED
    BY <1>1, <1>2, <1>3, <1>4, <1>5, <1>6, <1>7, <1>8, <1>9, <1>10, <1>11, <1>12 DEF ActionTools

LEMMA ConfigPlans == \A what \in ConfigTools : PlanOK(what) /\ PathsOK(what)
  <1>. USE DEF Plan, Operation, Resources, ToolOf, Routes, PipelineRoutes, AgentRoutes,
               InstanceRoutes, LogRoutes, ActionRoutes, ConfigRoutes, TemplateRoutes,
               Get, Post, Send
  <1>1. PlanOK("update_pipeline_config")
    BY DEF PlanOK, Changing, ActionTools, ConfigTools, IsTrigger, Methods
  <1>2. PlanOK("create_pipeline")
    BY DEF PlanOK, Changing, ActionTools, ConfigTools, IsTrigger, Methods
  <1>3. PlanOK("delete_pipeline")
    BY DEF PlanOK, Changing, ActionTools, ConfigTools, IsTrigger, Methods
  <1>4. PlanOK("update_agent")
    BY DEF PlanOK, Changing, ActionTools, ConfigTools, IsTrigger, Methods
  <1>5. PlanOK("create_template")
    BY DEF PlanOK, Changing, ActionTools, ConfigTools, IsTrigger, Methods
  <1>6. PlanOK("update_template")
    BY DEF PlanOK, Changing, ActionTools, ConfigTools, IsTrigger, Methods
  <1>7. PlanOK("delete_template")
    BY DEF PlanOK, Changing, ActionTools, ConfigTools, IsTrigger, Methods
  <1>8. PathsOK("update_pipeline_config")
    BY DEF PathsOK, Arguments, Checks, ReadChecks, LogChecks, TriggerChecks, StageChecks,
           ActionChecks, ConfigChecks, TemplateChecks, Unchecked, Named, Present
  <1>9. PathsOK("create_pipeline")
    BY DEF PathsOK, Arguments, Checks, ReadChecks, LogChecks, TriggerChecks, StageChecks,
           ActionChecks, ConfigChecks, TemplateChecks, Unchecked, Named, Present
  <1>10. PathsOK("delete_pipeline")
    BY DEF PathsOK, Arguments, Checks, ReadChecks, LogChecks, TriggerChecks, StageChecks,
           ActionChecks, ConfigChecks, TemplateChecks, Unchecked, Named, Present
  <1>11. PathsOK("update_agent")
    BY DEF PathsOK, Arguments, Checks, ReadChecks, LogChecks, TriggerChecks, StageChecks,
           ActionChecks, ConfigChecks, TemplateChecks, Unchecked, Named, Present
  <1>12. PathsOK("create_template")
    BY DEF PathsOK, Arguments, Checks, ReadChecks, LogChecks, TriggerChecks, StageChecks,
           ActionChecks, ConfigChecks, TemplateChecks, Unchecked, Named, Present
  <1>13. PathsOK("update_template")
    BY DEF PathsOK, Arguments, Checks, ReadChecks, LogChecks, TriggerChecks, StageChecks,
           ActionChecks, ConfigChecks, TemplateChecks, Unchecked, Named, Present
  <1>14. PathsOK("delete_template")
    BY DEF PathsOK, Arguments, Checks, ReadChecks, LogChecks, TriggerChecks, StageChecks,
           ActionChecks, ConfigChecks, TemplateChecks, Unchecked, Named, Present
  <1>. HIDE DEF Plan, Operation, Routes
  <1>. QED
    BY <1>1, <1>2, <1>3, <1>4, <1>5, <1>6, <1>7, <1>8, <1>9, <1>10, <1>11, <1>12, <1>13, <1>14 DEF ConfigTools

LEMMA Plans == \A what \in Callable : PlanOK(what) /\ PathsOK(what)
  BY ReadPlans, ResourcePlans, ActionPlans, ConfigPlans DEF Callable, Tools

-------------------------------------------------------------------------------
(* Counting along a plan, which has no, one or three requests.             *)

LEMMA FirstOne == \A a, b : a = 0 /\ b \in {1, 3} => a < b
  OBVIOUS

LEMMA NextOne ==
    ASSUME NEW a \in Nat, NEW b \in {0, 1, 3}, a < b
    PROVE  /\ a + 1 \in 1..3 /\ a + 1 \in 1..b /\ b \in {1, 3}
           /\ a + 1 = 3 => a = 2 /\ b = 3
           /\ a + 1 # 3 => a = 0 \/ a = 1
           /\ a = 1 => b = 3
  OBVIOUS

LEMMA Within == ASSUME NEW s \in Seq(SentSet), NEW i \in DOMAIN s, NEW b \in {0, 1, 3}, i <= b
                PROVE  i \in 1..b
  OBVIOUS

LEMMA AtMostThree == ASSUME NEW a \in Nat, NEW b \in {0, 1, 3}, a <= b PROVE a <= 3
  OBVIOUS

LEMMA PathInSet ==
    ASSUME NEW what \in Callable, NEW i \in 1..3,
           NEW p \in [Plan(what)[i].path -> Values \cup {"escaped"}]
    PROVE  p \in PathSet
  <1>. DEFINE Of(w, j) == [Plan(w)[j].path -> Values \cup {"escaped"}]
              At(w) == UNION {Of(w, j) : j \in 1..3}
  <1>. HIDE DEF Of
  <1>1. p \in Of(what, i)
    BY DEF Of
  <1>2. p \in At(what)
    BY <1>1
  <1>. HIDE DEF At
  <1>3. p \in UNION {At(w) : w \in Callable}
    BY <1>2
  <1>. QED BY <1>3 DEF PathSet, At, Of

LEMMA ShortOne == ASSUME NEW s, NEW e, s \in {<<>>, <<e>>} PROVE Len(s) <= 1
  <1>1. Len(<<>>) <= 1 /\ Len(<<e>>) <= 1
    OBVIOUS
  <1>. QED BY <1>1

LEMMA StaysAudited ==
    ASSUME NEW c, NEW t, NEW s, NEW new, NEW l, AuditOK(c, "asking", s, l)
    PROVE  AuditOK(c, t, new, l)
  <1>1. Loud /\ c.what \in Changing => Audited(c, l)
    BY DEF AuditOK
  <1>. QED BY <1>1, Zenon DEF AuditOK

-------------------------------------------------------------------------------
(* How the log of one request grows.                                       *)

Grown(old, new, line) ==
    /\ \A i \in DOMAIN old : i \in DOMAIN new /\ new[i] = old[i]
    /\ \A i \in DOMAIN new : (i \in DOMAIN old /\ new[i] = old[i]) \/ new[i] = line

LEMMA LogGrows ==
    ASSUME NEW q \in Requests, NEW level, NEW line \in LineSet,
           log \in [Requests -> Seq(LineSet)], log' = Logged(q, level, line)
    PROVE  /\ log' \in [Requests -> Seq(LineSet)]
           /\ \A r \in Requests \ {q} : log'[r] = log[r]
           /\ Grown(log[q], log'[q], line)
           /\ Written(level) => \E i \in DOMAIN log'[q] : log'[q][i] = line
  <1>1. CASE Written(level)
    <2>1. log' = [log EXCEPT ![q] = Append(log[q], line)]
      BY <1>1 DEF Logged
    <2>2. log'[q] = Append(log[q], line) /\ log[q] \in Seq(LineSet)
      BY <2>1
    <2>3. log' \in [Requests -> Seq(LineSet)] /\ \A r \in Requests \ {q} : log'[r] = log[r]
      BY <2>1, <2>2
    <2>4. Grown(log[q], log'[q], line)
      BY <2>2 DEF Grown
    <2>5. Len(log[q]) + 1 \in DOMAIN log'[q] /\ log'[q][Len(log[q]) + 1] = line
      BY <2>2
    <2>. QED BY <2>3, <2>4, <2>5
  <1>2. CASE ~Written(level)
    BY <1>2 DEF Logged, Grown
  <1>. QED BY <1>1, <1>2

LEMMA StillAudited ==
    ASSUME NEW c, NEW t, NEW s, NEW old, NEW new, NEW line,
           Grown(old, new, line), AuditOK(c, t, s, old)
    PROVE  AuditOK(c, t, s, new)
  BY DEF AuditOK, Audited, Grown

(* A step of request q is sound if it keeps the shape, leaves the others   *)
(* alone, and leaves q sound.                                              *)
Others(q) == \A r \in Requests \ {q} :
    /\ request'[r] = request[r] /\ http'[r] = http[r] /\ tool'[r] = tool[r]
    /\ told'[r] = told[r] /\ holder'[r] = holder[r] /\ sent'[r] = sent[r] /\ log'[r] = log[r]

LEMMA OneMoves ==
    ASSUME IInv, NEW q \in Requests, Shape', Others(q), Sound(q)'
    PROVE  IInv'
  <1>1. \A r \in Requests \ {q} : Sound(r)'
    BY DEF IInv, Sound, Others
  <1>. QED BY <1>1 DEF IInv

LEMMA Starting == Init => IInv
  <1>. SUFFICES ASSUME Init PROVE IInv
    OBVIOUS
  <1>1. Shape
    BY DEF Init, Shape, NoRequest, ArgSet, Logins, Results
  <1>2. ASSUME NEW r \in Requests PROVE Sound(r)
    BY DEF Init, Sound, CallOK, Place, SentOK, AuditOK, Settled, LinesOK, NoRequest, Quiet
  <1>. QED BY <1>1, <1>2 DEF IInv

-------------------------------------------------------------------------------
(* The middleware.                                                         *)

LEMMA ArriveKeeps == ASSUME IInv, NEW q \in Requests, Arrive(q) PROVE IInv'
  <1>0. PICK what \in Asked \ Probes, login \in Logins :
           \E args \in InputsOf(what) :
              request' = [request EXCEPT ![q] = [what |-> what, args |-> args, login |-> login]]
    BY DEF Arrive, Logins
  <1>1. PICK args \in InputsOf(what) :
           request' = [request EXCEPT ![q] = [what |-> what, args |-> args, login |-> login]]
    BY <1>0
  <1>2. what \in Callable
    BY AskedAssumption DEF Callable
  <1>3. args \in [Arguments(what) -> Values]
    BY <1>1, FlawsAssumption DEF InputsOf, Values
  <1>4. args \in ArgSet
    BY <1>2, <1>3 DEF ArgSet
  <1>5. Shape'
    BY <1>1, <1>4 DEF IInv, Shape, Arrive
  <1>6. request'[q] = [what |-> what, args |-> args, login |-> login] /\ http'[q] = "auth"
    BY <1>1 DEF IInv, Shape, Arrive
  <1>7. Others(q)
    BY <1>1 DEF IInv, Shape, Arrive, Others
  <1>8. CallOK(request[q], "idle", tool[q], told[q], holder[q], sent[q], log[q])
    BY DEF IInv, Sound, Arrive
  <1>9. CallOK(request'[q], "auth", tool[q], told[q], holder[q], sent[q], log[q])
    BY <1>8, <1>6, <1>2, <1>3 DEF CallOK, Place, SentOK, AuditOK, Settled, LinesOK, Quiet
  <1>. QED BY <1>5, <1>7, <1>6, <1>9, OneMoves DEF Arrive, Sound

(* A step that ends the HTTP side of q and logs a line about it.           *)
LEMMA Ends ==
    ASSUME IInv, NEW q \in Requests, NEW level, NEW line \in LineSet,
           log' = Logged(q, level, line), http' = [http EXCEPT ![q] = "closed"],
           UNCHANGED <<request, tool, told, holder, sent>>,
           http[q] # "closed", line.login \in {NoLogin, request[q].login},
           line.msg = "request" /\ tool[q] # "none" => line.login = holder[q]
    PROVE  IInv'
  <1>1. /\ log' \in [Requests -> Seq(LineSet)]
        /\ \A r \in Requests \ {q} : log'[r] = log[r]
        /\ Grown(log[q], log'[q], line)
    BY LogGrows DEF IInv, Shape
  <1>2. Shape'
    BY <1>1 DEF IInv, Shape
  <1>3. Others(q)
    BY <1>1 DEF IInv, Shape, Others
  <1>4. CallOK(request[q], http[q], tool[q], told[q], holder[q], sent[q], log[q])
    BY DEF IInv, Sound
  <1>5. AuditOK(request[q], tool[q], sent[q], log'[q])
    BY <1>1, <1>4, StillAudited DEF CallOK
  <1>6. LinesOK(request[q], "closed", tool[q], holder[q], log'[q])
    BY <1>1, <1>4 DEF CallOK, LinesOK, Grown
  <1>7. CallOK(request[q], "closed", tool[q], told[q], holder[q], sent[q], log'[q])
    BY <1>4, <1>5, <1>6 DEF CallOK, Place
  <1>8. http'[q] = "closed"
    BY DEF IInv, Shape
  <1>. QED BY <1>2, <1>3, <1>7, <1>8, OneMoves DEF Sound

LEMMA AccessLineOK ==
    ASSUME IInv, NEW q \in Requests, NEW status \in {"200", "401", "503"}
    PROVE  /\ AccessLine(q, status) \in LineSet
           /\ AccessLine(q, status).login = holder[q]
           /\ AccessLine(q, status).login \in {NoLogin, request[q].login}
  <1>1. holder[q] \in {NoLogin, request[q].login}
    BY DEF IInv, Sound, CallOK, LinesOK
  <1>. QED BY <1>1 DEF IInv, Shape, AccessLine, Line, LineSet, HolderOf, Logins

LEMMA RejectKeeps == ASSUME IInv, NEW q \in Requests, Reject(q) PROVE IInv'
  BY Ends, AccessLineOK DEF Reject

LEMMA CloseKeeps == ASSUME IInv, NEW q \in Requests, Close(q) PROVE IInv'
  BY Ends, AccessLineOK DEF Close

LEMMA PanicKeeps == ASSUME IInv, NEW q \in Requests, Panic(q) PROVE IInv'
  <1>. DEFINE line == Line("panic recovered", "500", NoLogin, FALSE)
  <1>1. line \in LineSet /\ line.login = NoLogin /\ line.msg # "request"
    BY DEF Line, LineSet, Logins
  <1>. QED BY <1>1, Ends DEF Panic

LEMMA ProbeKeeps == ASSUME IInv, NEW q \in Requests, Probe(q) PROVE IInv'
  <1>1. PICK what \in Asked \cap Probes, code \in Codes, status \in {"200", "503"} :
           /\ request' = [request EXCEPT ![q].what = what]
           /\ sent' = IF what = "healthz" THEN sent
                      ELSE [sent EXCEPT ![q] = <<[method |-> "GET", as |-> NoLogin,
                                                  path |-> Unchecked, code |-> code,
                                                  took |-> FALSE]>>]
           /\ log' = Logged(q, "info", AccessLine(q, status))
    BY DEF Probe
  <1>. DEFINE line == AccessLine(q, status)
              get  == [method |-> "GET", as |-> NoLogin, path |-> Unchecked, code |-> code,
                       took |-> FALSE]
  <1>2. line \in LineSet /\ line.login = holder[q]
    BY AccessLineOK
  <1>3. /\ log' \in [Requests -> Seq(LineSet)]
        /\ \A r \in Requests \ {q} : log'[r] = log[r]
        /\ Grown(log[q], log'[q], line)
    BY <1>1, <1>2, LogGrows DEF IInv, Shape
  <1>4. get \in SentSet
    BY DEF SentSet, Methods, Logins, PathSet
  <1>5. <<get>> \in Seq(SentSet)
    BY <1>4
  <1>6. sent' \in [Requests -> Seq(SentSet)]
    BY <1>1, <1>5 DEF IInv, Shape
  <1>7. request[q] = NoRequest
    BY DEF IInv, Sound, CallOK, Place, Probe
  <1>8. request' = [request EXCEPT ![q] = [what |-> what, args |-> Unchecked,
                                           login |-> NoLogin]]
    <2>1. [NoRequest EXCEPT !.what = what]
             = [what |-> what, args |-> Unchecked, login |-> NoLogin]
      BY DEF NoRequest
    <2>2. request' = [request EXCEPT ![q] = [request[q] EXCEPT !.what = what]]
      BY <1>1
    <2>. QED BY <2>1, <2>2, <1>7
  <1>9. request' \in [Requests -> [what : Asked \cup {"none"}, args : ArgSet, login : Logins]]
    BY <1>8 DEF IInv, Shape, ArgSet, Logins
  <1>10. Shape'
    BY <1>3, <1>6, <1>9 DEF IInv, Shape, Probe
  <1>11. Others(q)
    BY <1>1, <1>3, <1>8 DEF IInv, Shape, Others, Probe
  <1>12. CallOK(request[q], "idle", tool[q], told[q], holder[q], sent[q], log[q])
    BY DEF IInv, Sound, Probe
  <1>13. /\ tool[q] = "none" /\ told[q] = "nothing" /\ sent[q] = <<>> /\ log[q] = <<>>
         /\ holder[q] = NoLogin
    BY <1>12 DEF CallOK, Place, LinesOK
  <1>14. /\ request'[q].login = NoLogin /\ http'[q] = "closed" /\ tool'[q] = "none"
         /\ told'[q] = "nothing" /\ holder'[q] = NoLogin
    BY <1>8, <1>13 DEF IInv, Shape, Probe
  <1>15. sent'[q] \in {<<>>, <<get>>}
    BY <1>1, <1>13 DEF IInv, Shape
  <1>16. \A i \in DOMAIN log'[q] : log'[q][i].login = NoLogin
    BY <1>2, <1>3, <1>13 DEF Grown
  <1>17. \A i \in DOMAIN sent'[q] : sent'[q][i] = get
    <2>. HIDE DEF get
    <2>. QED BY <1>15
  <1>18. Len(sent'[q]) <= 1
    BY <1>15, ShortOne
  <1>19. CallOK(request'[q], "closed", "none", "nothing", NoLogin, sent'[q], log'[q])
    BY <1>14, <1>16, <1>17, <1>18 DEF CallOK, Place, SentOK, AuditOK, Settled, LinesOK, Quiet
  <1>. QED BY <1>10, <1>11, <1>14, <1>19, OneMoves DEF Sound

LEMMA AdmitKeeps == ASSUME IInv, NEW q \in Requests, Admit(q) PROVE IInv'
  <1>1. holder' \in [Requests -> Users \cup {NoLogin}]
    BY DEF IInv, Shape, Admit, Principal, HolderOf
  <1>2. Shape'
    BY <1>1 DEF IInv, Shape, Admit
  <1>3. Others(q)
    BY DEF IInv, Shape, Others, Admit, HolderOf
  <1>4. CallOK(request[q], "auth", tool[q], told[q], holder[q], sent[q], log[q])
    BY DEF IInv, Sound, Admit
  <1>5. holder'[q] = IF request[q].login \in Users THEN request[q].login ELSE holder[q]
    BY DEF IInv, Shape, Admit, Principal, HolderOf
  <1>6. /\ tool'[q] = "start" /\ http'[q] = "open" /\ request[q].login # NoLogin
        /\ told'[q] = told[q] /\ sent'[q] = sent[q] /\ log'[q] = log[q]
        /\ request'[q] = request[q]
    BY DEF IInv, Shape, Admit
  <1>7. CallOK(request[q], "open", "start", told[q], holder'[q], sent[q], log[q])
    BY <1>4, <1>5, <1>6 DEF CallOK, Place, SentOK, AuditOK, Settled, LinesOK, Quiet
  <1>. QED BY <1>2, <1>3, <1>6, <1>7, OneMoves DEF Sound

-------------------------------------------------------------------------------
(* The handlers: they leave the HTTP side alone.                           *)

(* The start of a handler, which may log one line, an audit line at that:  *)
(* it ends in a result, or is about to ask GoCD.                           *)
StartOK(q, t, o) ==
    \/ t = "told" /\ o \notin {"nothing", "ok", "unconfirmed"}
    \/ t = "told" /\ o = "ok" /\ request[q].what = "whoami"
    \/ /\ t = "asking" /\ o = "nothing"
       /\ request[q].login \in Users
       /\ request[q].what \in Registered(Toolset) \ {"whoami"}
       /\ Valid(request[q].what, request[q].args)

LEMMA Begins ==
    ASSUME IInv, NEW q \in Requests, NEW t \in {"told", "asking"}, NEW o \in Results,
           tool[q] = "start", tool' = [tool EXCEPT ![q] = t], told' = [told EXCEPT ![q] = o],
           UNCHANGED <<request, http, holder, sent>>, StartOK(q, t, o),
           \/ log' = log /\ (t = "asking" => request[q].what \notin Changing)
           \/ log' = Logged(q, "info", Line("audit", request[q].what, LoginOf(q), TRUE))
    PROVE  IInv'
  <1>. DEFINE line == Line("audit", request[q].what, LoginOf(q), TRUE)
  <1>1. line \in LineSet /\ line.login \in {NoLogin, request[q].login} /\ line.msg = "audit"
        /\ line.what = request[q].what
    BY DEF Line, LineSet, LoginOf, Principal, Logins, IInv, Shape
  <1>2. /\ log' \in [Requests -> Seq(LineSet)]
        /\ \A r \in Requests \ {q} : log'[r] = log[r]
        /\ Grown(log[q], log'[q], line)
    <2>1. CASE log' = log
      BY <2>1 DEF IInv, Shape, Grown
    <2>2. CASE log' = Logged(q, "info", line)
      BY <2>2, <1>1, LogGrows DEF IInv, Shape
    <2>. QED BY <2>1, <2>2
  <1>3. Shape'
    BY <1>2 DEF IInv, Shape
  <1>4. Others(q)
    BY <1>2 DEF IInv, Shape, Others
  <1>5. CallOK(request[q], http[q], "start", told[q], holder[q], sent[q], log[q])
    BY DEF IInv, Sound
  <1>6. sent[q] = <<>> /\ request[q].what \in Callable
    BY <1>5 DEF CallOK, Place
  <1>7. t = "asking" => Len(sent[q]) < Len(Plan(request[q].what))
    <2>1. PlanOK(request[q].what)
      BY <1>6, Plans
    <2>2. t = "asking" => Len(Plan(request[q].what)) \in {1, 3}
      BY <2>1 DEF StartOK, PlanOK
    <2>3. Len(sent[q]) = 0
      BY <1>6
    <2>. QED BY <2>2, <2>3, FirstOne
  <1>8. Place(request[q], http[q], t, o, sent[q])
    BY <1>5, <1>6, <1>7 DEF CallOK, Place, StartOK
  <1>9. SentOK(request[q], t, sent[q])
    BY <1>6 DEF SentOK
  <1>10. AuditOK(request[q], t, sent[q], log'[q])
    <2>. SUFFICES ASSUME Loud, request[q].what \in Changing, t = "asking"
                  PROVE  Audited(request[q], log'[q])
      BY <1>6 DEF AuditOK
    <2>1. log' = Logged(q, "info", line)
      OBVIOUS
    <2>2. Written("info")
      BY DEF Loud, Written
    <2>3. \E i \in DOMAIN log'[q] : log'[q][i] = line
      BY <2>1, <2>2, <1>1, LogGrows DEF IInv, Shape
    <2>4. line.login = request[q].login
      BY DEF StartOK, LoginOf, Principal, Line
    <2>. QED BY <2>3, <2>4, <1>1 DEF Audited
  <1>11. Settled(request[q], t, o, sent[q])
    <2>1. o = "ok" => request[q].what = "whoami"
      BY DEF StartOK
    <2>2. o = "ok" => Len(Plan(request[q].what)) = 0
      BY <2>1, <1>6, Plans DEF PlanOK
    <2>. QED BY <2>2, <1>6 DEF Settled
  <1>12. LinesOK(request[q], http[q], t, holder[q], log'[q])
    BY <1>1, <1>2, <1>5 DEF CallOK, LinesOK, Grown, Place
  <1>13. /\ request'[q] = request[q] /\ http'[q] = http[q] /\ tool'[q] = t /\ told'[q] = o
         /\ holder'[q] = holder[q] /\ sent'[q] = sent[q]
    BY DEF IInv, Shape
  <1>. QED
    BY <1>3, <1>4, <1>8, <1>9, <1>10, <1>11, <1>12, <1>13, OneMoves DEF Sound, CallOK

LEMMA StartsAtNothing ==
    ASSUME IInv, NEW q \in Requests, tool[q] = "start"
    PROVE  told[q] = "nothing" /\ told = [told EXCEPT ![q] = "nothing"]
  BY DEF IInv, Shape, Sound, CallOK, Place

LEMMA UnregisteredKeeps == ASSUME IInv, NEW q \in Requests, Unregistered(q) PROVE IInv'
  BY Begins DEF Unregistered, Tell, StartOK, Results

LEMMA WhoamiKeeps == ASSUME IInv, NEW q \in Requests, Whoami(q) PROVE IInv'
  <1>1. request[q].what = "whoami"
    BY DEF Whoami, Starts, Identity
  <1>. QED BY <1>1, Begins DEF Whoami, Starts, Tell, StartOK, Results, Changing, ActionTools,
              ConfigTools

(* Without a principal the handler fails.                                  *)
LEMMA FailsKeeps ==
    ASSUME IInv, NEW q \in Requests, tool[q] = "start", NoPrincipal(q),
           UNCHANGED <<request, http, holder, sent>>
    PROVE  IInv'
  BY Begins DEF NoPrincipal, Tell, StartOK, Results

LEMMA ProceedKeeps ==
    ASSUME IInv, NEW q \in Requests, NEW what, what = request[q].what, tool[q] = "start",
           Principal(q), what \in Registered(Toolset) \ {"whoami"}, Proceed(q, what),
           UNCHANGED <<request, http, holder, sent>>,
           \/ log' = log /\ what \notin Changing
           \/ log' = Logged(q, "info", Line("audit", what, LoginOf(q), TRUE))
    PROVE  IInv'
  <1>1. CASE Valid(what, request[q].args)
    <2>1. tool' = [tool EXCEPT ![q] = "asking"] /\ told' = [told EXCEPT ![q] = "nothing"]
      BY <1>1, StartsAtNothing DEF Proceed
    <2>2. StartOK(q, "asking", "nothing")
      BY <1>1 DEF StartOK, Principal
    <2>. QED BY <2>1, <2>2, Begins DEF Results
  <1>2. CASE ~Valid(what, request[q].args)
    <2>1. PICK o \in {"invalid", "failed"} :
             tool' = [tool EXCEPT ![q] = "told"] /\ told' = [told EXCEPT ![q] = o]
      BY <1>2 DEF Proceed, Tell, ErrorFrom
    <2>. QED BY <2>1, Begins DEF StartOK, Results
  <1>. QED BY <1>1, <1>2

LEMMA ReadKeeps == ASSUME IInv, NEW q \in Requests, Read(q) PROVE IInv'
  <1>1. request[q].what \notin Changing \cup {"whoami"}
    BY DEF Read, Starts, ReadOnlyTools, Changing, ActionTools, ConfigTools
  <1>. QED BY <1>1, FailsKeeps, ProceedKeeps DEF Read, Starts

LEMMA ReadResourceKeeps == ASSUME IInv, NEW q \in Requests, ReadResource(q) PROVE IInv'
  <1>1. request[q].what \notin Changing \cup {"whoami"}
    BY DEF ReadResource, Starts, Resources, ToolOf, Changing, ActionTools, ConfigTools
  <1>2. CASE Tell(q, "failed") /\ UNCHANGED log
    BY <1>2, <1>1, Begins DEF ReadResource, Starts, Tell, StartOK, Results
  <1>3. CASE NoPrincipal(q)
    BY <1>3, FailsKeeps DEF ReadResource, Starts
  <1>4. CASE Principal(q) /\ Proceed(q, request[q].what) /\ UNCHANGED log
    BY <1>4, <1>1, ProceedKeeps DEF ReadResource, Starts
  <1>. QED BY <1>2, <1>3, <1>4 DEF ReadResource

LEMMA ActKeeps == ASSUME IInv, NEW q \in Requests, Act(q) PROVE IInv'
  <1>1. request[q].what # "whoami"
    BY DEF Act, Starts, ActionTools
  <1>. QED BY <1>1, FailsKeeps, ProceedKeeps DEF Act, Starts, Audit

LEMMA EditConfigKeeps == ASSUME IInv, NEW q \in Requests, EditConfig(q) PROVE IInv'
  <1>1. request[q].what # "whoami"
    BY DEF EditConfig, Starts, ConfigTools
  <1>. QED BY <1>1, FailsKeeps, ProceedKeeps DEF EditConfig, Starts, Audit

(* The call is logged and over.                                            *)
LEMMA ReturnedKeeps == ASSUME IInv, NEW q \in Requests, Returned(q) PROVE IInv'
  <1>. DEFINE line == Line("tool_call", request[q].what, LoginOf(q),
                           told[q] \in {"ok", "unconfirmed"})
  <1>0. (told[q] \in {"ok", "unconfirmed"}) \in BOOLEAN
    OBVIOUS
  <1>1. line \in LineSet /\ line.login \in {NoLogin, request[q].login} /\ line.msg = "tool_call"
    BY <1>0 DEF Line, LineSet, LoginOf, Principal, Logins, IInv, Shape
  <1>2. /\ log' \in [Requests -> Seq(LineSet)]
        /\ \A r \in Requests \ {q} : log'[r] = log[r]
        /\ Grown(log[q], log'[q], line)
    <2>1. CASE log' = log
      BY <2>1 DEF IInv, Shape, Grown
    <2>2. CASE log' = Logged(q, "info", line)
      BY <2>2, <1>1, LogGrows DEF IInv, Shape
    <2>. QED BY <2>1, <2>2 DEF Returned
  <1>3. Shape'
    BY <1>2 DEF IInv, Shape, Returned
  <1>4. Others(q)
    BY <1>2 DEF IInv, Shape, Others, Returned
  <1>5. CallOK(request[q], http[q], "told", told[q], holder[q], sent[q], log[q])
    BY DEF IInv, Sound, Returned
  <1>6. AuditOK(request[q], "told", sent[q], log'[q])
    BY <1>2, <1>5, StillAudited DEF CallOK
  <1>7. LinesOK(request[q], http[q], "done", holder[q], log'[q])
    BY <1>1, <1>2, <1>5 DEF CallOK, LinesOK, Grown, Place
  <1>8. CallOK(request[q], http[q], "done", told[q], holder[q], sent[q], log'[q])
    BY <1>5, <1>6, <1>7 DEF CallOK, Place, SentOK, AuditOK, Settled
  <1>9. /\ request'[q] = request[q] /\ http'[q] = http[q] /\ tool'[q] = "done"
        /\ told'[q] = told[q] /\ holder'[q] = holder[q] /\ sent'[q] = sent[q]
    BY DEF IInv, Shape, Returned
  <1>. QED BY <1>3, <1>4, <1>8, <1>9, OneMoves DEF Sound

(* One more request of the plan was sent and answered.                     *)
LEMMA AskKeeps == ASSUME IInv, NEW q \in Requests, Ask(q) PROVE IInv'
  <1>. DEFINE c == request[q]
              s == sent[q]
              n == Len(sent[q]) + 1
  <1>1. PICK code \in Codes, usable \in BOOLEAN, took \in BOOLEAN :
           /\ took \in Effects(q, code)
           /\ sent' = [sent EXCEPT ![q] = Append(@, AsSent(q, code, took))]
           /\ IF Final(q, Failure(q, code, usable))
              THEN \E result \in Outcomes(q, Failure(q, code, usable)) : Tell(q, result)
              ELSE UNCHANGED <<tool, told>>
    <2>1. PICK code \in Codes, usable \in BOOLEAN :
             /\ \E took \in Effects(q, code) :
                   sent' = [sent EXCEPT ![q] = Append(@, AsSent(q, code, took))]
             /\ IF Final(q, Failure(q, code, usable))
                THEN \E result \in Outcomes(q, Failure(q, code, usable)) : Tell(q, result)
                ELSE UNCHANGED <<tool, told>>
      BY DEF Ask
    <2>2. PICK took \in Effects(q, code) :
             sent' = [sent EXCEPT ![q] = Append(@, AsSent(q, code, took))]
      BY <2>1
    <2>3. took \in BOOLEAN
      BY <2>2 DEF Effects
    <2>. QED BY <2>1, <2>2, <2>3
  <1>. DEFINE err == Failure(q, code, usable)
              e   == AsSent(q, code, took)
  <1>2. CallOK(c, http[q], "asking", told[q], holder[q], s, log[q])
    BY DEF IInv, Sound, Ask
  <1>3. /\ c.what \in Callable /\ c.args \in [Arguments(c.what) -> Values]
        /\ c.login \in Users /\ c.what \in Registered(Toolset) /\ Valid(c.what, c.args)
        /\ Len(s) < Len(Plan(c.what)) /\ told[q] = "nothing"
    BY <1>2 DEF CallOK, Place
  <1>4. PlanOK(c.what)
    BY <1>3, Plans
  <1>5. s \in Seq(SentSet) /\ n \in 1..3 /\ n \in 1..Len(Plan(c.what))
        /\ Len(Plan(c.what)) \in {1, 3} /\ (Len(Plan(c.what)) = 3 <=> IsTrigger(c.what))
    <2>1. s \in Seq(SentSet)
      BY DEF IInv, Shape
    <2>2. Len(Plan(c.what)) \in {0, 1, 3} /\ (Len(Plan(c.what)) = 3 <=> IsTrigger(c.what))
      <3>1. ~IsTrigger("whoami")
        BY DEF IsTrigger
      <3>. QED BY <3>1, <1>4 DEF PlanOK
    <2>3. Len(s) \in Nat
      BY <2>1
    <2>4. Len(Plan(c.what)) \in {1, 3} /\ n \in 1..3 /\ n \in 1..Len(Plan(c.what))
      BY <2>2, <2>3, <1>3, NextOne
    <2>. QED BY <2>1, <2>2, <2>4
  <1>6. /\ e.method = Plan(c.what)[n].method /\ e.as = c.login /\ e.code = code
        /\ e.took = took
        /\ e.path = [f \in Plan(c.what)[n].path |-> Escape(c.args[f])]
    BY DEF AsSent, Upcoming, TokenOf
  <1>7. e \in SentSet
    <2>1. Plan(c.what)[n].path \subseteq Arguments(c.what)
      BY <1>3, <1>5, Plans DEF PathsOK
    <2>2. \A f \in Plan(c.what)[n].path : Escape(c.args[f]) \in Values \cup {"escaped"}
      BY <2>1, <1>3 DEF Escape, Values
    <2>3. e.path \in [Plan(c.what)[n].path -> Values \cup {"escaped"}]
      BY <1>6, <2>2
    <2>4. e.path \in PathSet
      BY <2>3, <1>3, <1>5, PathInSet
    <2>5. e.method \in Methods
      BY <1>4, <1>5, <1>6 DEF PlanOK
    <2>6. e = [method |-> e.method, as |-> e.as, code |-> e.code, took |-> e.took,
               path |-> e.path]
      BY DEF AsSent
    <2>. QED BY <2>4, <2>5, <2>6, <1>3, <1>6 DEF SentSet, Logins
  <1>8. sent' \in [Requests -> Seq(SentSet)] /\ sent'[q] = Append(s, e)
        /\ \A r \in Requests \ {q} : sent'[r] = sent[r]
    BY <1>1, <1>5, <1>7 DEF IInv, Shape
  <1>9. /\ Len(Append(s, e)) = n
        /\ \A i \in DOMAIN Append(s, e) : (i \in DOMAIN s /\ Append(s, e)[i] = s[i])
                                          \/ (i = n /\ Append(s, e)[i] = e)
        /\ Append(s, e) # <<>>
    BY <1>5, <1>7
  <1>10. PICK t \in {"asking", "told"}, o \in Results :
            /\ tool' = [tool EXCEPT ![q] = t] /\ told' = [told EXCEPT ![q] = o]
            /\ t = "asking" => ~Final(q, err) /\ o = "nothing"
            /\ t = "told" => Final(q, err) /\ o \in Outcomes(q, err)
    <2>1. CASE Final(q, err)
      <3>1. PICK result \in Outcomes(q, err) : Tell(q, result)
        BY <2>1, <1>1
      <3>2. result \in Results
        BY <3>1 DEF Outcomes, Wrapped, ErrorFrom, Results, ToolError
      <3>. QED BY <2>1, <3>1, <3>2 DEF Tell
    <2>2. CASE ~Final(q, err)
      <3>1. tool' = [tool EXCEPT ![q] = "asking"] /\ told' = [told EXCEPT ![q] = "nothing"]
        BY <2>2, <1>1, <1>3 DEF IInv, Shape, Ask
      <3>. QED BY <2>2, <3>1 DEF Results
    <2>. QED BY <2>1, <2>2
  <1>11. Shape'
    BY <1>8, <1>10 DEF IInv, Shape, Ask
  <1>12. Others(q)
    BY <1>8, <1>10 DEF IInv, Shape, Others, Ask
  <1>13. Place(c, http[q], t, o, Append(s, e))
    <2>1. t = "asking" => n < Len(Plan(c.what))
      BY <1>10, <1>5 DEF Final
    <2>. QED BY <2>1, <1>2, <1>3, <1>9, <1>10 DEF CallOK, Place
  <1>14. SentOK(c, t, Append(s, e))
    <2>. DEFINE new == Append(s, e)
    <2>1. SentOK(c, "asking", s)
      BY <1>2 DEF CallOK
    <2>2. ASSUME NEW i \in DOMAIN new
          PROVE  /\ new[i].as = c.login /\ i <= Len(Plan(c.what))
                 /\ new[i].method = Plan(c.what)[i].method
                 /\ new[i].path = [f \in Plan(c.what)[i].path |-> Escape(c.args[f])]
      <3>1. CASE i \in DOMAIN s /\ new[i] = s[i]
        BY <3>1, <2>1 DEF SentOK
      <3>2. CASE i = n /\ new[i] = e
        BY <3>2, <1>5, <1>6
      <3>. QED BY <3>1, <3>2, <1>9
    <2>. QED BY <2>2, <1>3 DEF SentOK
  <1>15. AuditOK(c, t, Append(s, e), log[q])
    <2>1. AuditOK(c, "asking", s, log[q])
      BY <1>2 DEF CallOK
    <2>. QED BY <2>1, StaysAudited
  <1>16. err = "nil" => Passed(c.what, n, code)
    <2>1. ErrorOf(code) = "nil" => Success(code)
      BY DEF ErrorOf, Success
    <2>2. ErrorOf(code) = "ErrConflict" => code = 409
      BY DEF ErrorOf
    <2>3. c.what = "trigger_pipeline" /\ Upcoming(q).method = "POST" => n = 2
      <3>1. c.what = "trigger_pipeline" => IsTrigger(c.what)
        BY DEF IsTrigger
      <3>. QED BY <3>1, <1>4, <1>5, <1>6 DEF PlanOK, Upcoming, AsSent
    <2>. QED BY <2>1, <2>2, <2>3 DEF Failure, Passed
  <1>17. err # "nil" /\ e.method # "GET" /\ took => Undecided(code)
    <2>1. Success(code) => ErrorOf(code) = "nil"
      BY DEF ErrorOf, Success, NoResponse
    <2>2. e.method # "GET" => err \in {"nil", ErrorOf(code)}
      BY DEF Failure, AsSent
    <2>3. took => MayHaveActed(code) \/ (c.what = "trigger_pipeline" /\ code = 409)
      BY <1>1 DEF Effects
    <2>4. c.what = "trigger_pipeline" /\ code = 409 /\ e.method # "GET" => err = "nil"
      <3>1. c.what = "trigger_pipeline" => e.method \in {"GET", "POST"}
        BY <1>5, <1>6, TriggerPosts
      <3>2. ErrorOf(409) = "ErrConflict"
        BY DEF ErrorOf, Success, NoResponse
      <3>. QED BY <3>1, <3>2 DEF Failure, AsSent
    <2>. QED BY <2>1, <2>2, <2>3, <2>4 DEF MayHaveActed
  <1>18. Settled(c, t, o, Append(s, e))
    <2>1. t = "asking" => err = "nil"
      BY <1>10 DEF Final
    <2>2. o = "ok" => err = "nil" /\ n = Len(Plan(c.what)) /\ t = "told"
      BY <1>10, <1>5 DEF Outcomes, Wrapped, ErrorFrom, Final, ToolError
    <2>3. \A i \in DOMAIN s : Passed(c.what, i, s[i].code)
      BY <1>2 DEF CallOK, Settled
    <2>4. ASSUME o \notin Quiet PROVE (err # "nil" \/ e.method = "GET") /\ n # 3
      <3>1. t = "told" /\ o \in Outcomes(q, err)
        BY <2>4, <1>10 DEF Quiet
      <3>2. n = 3 => IsTrigger(c.what) /\ Len(sent[q]) = 2
        <4>1. Len(s) \in Nat
          BY <1>5
        <4>2. n = 3 => Len(s) = 2 /\ Len(Plan(c.what)) = 3
          BY <4>1, <1>3, <1>5, NextOne
        <4>. QED BY <4>2, <1>5
      <3>3. n # 3
        BY <3>1, <3>2, <2>4 DEF Outcomes, Quiet
      <3>4. err = "nil" => c.what \in ReadOnlyTools
        BY <3>1, <2>4 DEF Outcomes, Wrapped, Quiet
      <3>5. c.what \in ReadOnlyTools => e.method = "GET"
        BY <1>4, <1>5, <1>6 DEF PlanOK, ReadOnlyTools, Changing, ActionTools, ConfigTools
      <3>. QED BY <3>3, <3>4, <3>5
    <2>5. ASSUME o \notin Quiet PROVE \A i \in DOMAIN s : s[i].method = "GET"
      <3>1. Len(s) \in Nat
        BY <1>5
      <3>2. (Len(s) = 0 \/ Len(s) = 1) /\ (Len(s) = 1 => Len(Plan(c.what)) = 3)
        BY <3>1, <2>4, <2>5, <1>3, <1>5, NextOne
      <3>3. \A i \in DOMAIN s : i = 1 /\ Len(s) = 1
        BY <3>2, <1>5
      <3>4. ASSUME NEW i \in DOMAIN s PROVE s[i].method = "GET"
        <4>1. i = 1 /\ IsTrigger(c.what)
          BY <3>2, <3>3, <1>5
        <4>2. s[i].method = Plan(c.what)[i].method
          BY <1>2 DEF CallOK, SentOK
        <4>. QED BY <4>1, <4>2, <1>4 DEF PlanOK
      <3>. QED BY <3>4
    <2>. QED BY <2>1, <2>2, <2>3, <2>4, <2>5, <1>6, <1>9, <1>16, <1>17 DEF Settled
  <1>19. LinesOK(c, http[q], t, holder[q], log[q])
    BY <1>2, <1>10 DEF CallOK, LinesOK
  <1>20. /\ request'[q] = c /\ http'[q] = http[q] /\ tool'[q] = t /\ told'[q] = o
         /\ holder'[q] = holder[q] /\ sent'[q] = Append(s, e) /\ log'[q] = log[q]
    BY <1>8, <1>10 DEF IInv, Shape, Ask
  <1>21. CallOK(c, http[q], t, o, holder[q], Append(s, e), log[q])
    BY <1>13, <1>14, <1>15, <1>18, <1>19 DEF CallOK
  <1>. QED BY <1>11, <1>12, <1>20, <1>21, OneMoves DEF Sound

-------------------------------------------------------------------------------
LEMMA Inductive == Spec => []IInv
  <1>1. IInv /\ UNCHANGED vars => IInv'
    BY DEF IInv, Shape, Sound, vars
  <1>2. ASSUME IInv, Next PROVE IInv'
    <2>1. PICK q \in Requests : \/ Arrive(q) \/ Probe(q) \/ Serve(q) \/ Handle(q)
                                \/ Disconnect(q) \/ Panic(q)
      BY <1>2 DEF Next
    <2>2. CASE Serve(q)
      BY <2>2, <1>2, RejectKeeps, AdmitKeeps, CloseKeeps DEF Serve, Reply
    <2>3. CASE Handle(q)
      BY <2>3, <1>2, UnregisteredKeeps, WhoamiKeeps, ReadKeeps, ReadResourceKeeps, ActKeeps,
         EditConfigKeeps, AskKeeps, ReturnedKeeps DEF Handle
    <2>. QED BY <2>1, <2>2, <2>3, <1>2, ArriveKeeps, ProbeKeeps, CloseKeeps, PanicKeeps
             DEF Disconnect
  <1>. QED BY Starting, <1>1, <1>2, PTL DEF Spec

(* The type invariant of ToolCalls; no call sends more than three requests.*)
THEOREM TypeCorrect == Spec => []TypeOK
  <1>. SUFFICES IInv => TypeOK
    BY Inductive, PTL
  <1>1. ASSUME IInv, NEW r \in Requests PROVE Len(sent[r]) <= 3
    <2>. DEFINE c == request[r]
    <2>1. Place(c, http[r], tool[r], told[r], sent[r]) /\ SentOK(c, tool[r], sent[r])
          /\ sent[r] \in Seq(SentSet)
      BY <1>1 DEF IInv, Sound, CallOK, Shape
    <2>2. CASE tool[r] = "none"
      BY <2>1, <2>2 DEF SentOK
    <2>3. CASE tool[r] # "none" /\ sent[r] # <<>>
      <3>1. c.what \in Callable
        BY <2>1, <2>3 DEF Place
      <3>2. Len(Plan(c.what)) \in {0, 1, 3}
        BY <3>1, Plans DEF PlanOK
      <3>3. Len(sent[r]) \in DOMAIN sent[r]
        BY <2>1, <2>3
      <3>4. Len(sent[r]) <= Len(Plan(c.what))
        BY <3>3, <2>1, <2>3 DEF SentOK
      <3>5. Len(sent[r]) \in Nat
        BY <2>1
      <3>. QED BY <3>2, <3>4, <3>5, AtMostThree
    <2>4. CASE sent[r] = <<>>
      BY <2>4
    <2>. QED BY <2>2, <2>3, <2>4
  <1>2. ASSUME IInv, NEW r \in Requests PROVE \A i \in DOMAIN sent[r] : sent[r][i] \in SentSet
    <2>1. sent[r] \in Seq(SentSet)
      BY <1>2 DEF IInv, Shape
    <2>. QED BY <2>1
  <1>3. ASSUME IInv, NEW r \in Requests
        PROVE  request[r].what \in Asked \cup {"none"} /\ request[r].login \in Logins
    BY <1>3 DEF IInv, Shape
  <1>. QED BY <1>1, <1>2, <1>3 DEF IInv, Shape, TypeOK, SentSet, Methods, Logins

(* Whatever can change something at GoCD comes out of the plan of a tool   *)
(* that is there to change something.                                      *)
LEMMA ChangesComeFromPlans ==
    ASSUME IInv, NEW r \in Requests, NEW i \in Changes(r)
    PROVE  /\ request[r].what \in Changing \cap Registered(Toolset)
           /\ tool[r] # "none" /\ sent[r] # <<>> /\ sent[r][i].as = request[r].login
  <1>1. CallOK(request[r], http[r], tool[r], told[r], holder[r], sent[r], log[r])
    BY DEF IInv, Sound
  <1>2. i \in DOMAIN sent[r] /\ sent[r][i].method # "GET" /\ sent[r][i].as = request[r].login
    BY <1>1 DEF Changes, CallOK, SentOK
  <1>3. tool[r] # "none" /\ sent[r] # <<>> /\ request[r].what \in Callable
    BY <1>1, <1>2 DEF CallOK, SentOK, Place
  <1>4. sent[r][i].method = Plan(request[r].what)[i].method
        /\ i \in 1..Len(Plan(request[r].what))
    <2>1. sent[r] \in Seq(SentSet) /\ Len(Plan(request[r].what)) \in {0, 1, 3}
      BY <1>3, Plans DEF IInv, Shape, PlanOK
    <2>2. i <= Len(Plan(request[r].what))
          /\ sent[r][i].method = Plan(request[r].what)[i].method
      BY <1>1, <1>2, <1>3 DEF CallOK, SentOK
    <2>. QED BY <2>1, <2>2, <1>2, Within
  <1>5. request[r].what \in Changing
    BY <1>2, <1>3, <1>4, Plans DEF PlanOK
  <1>6. request[r].what \in Registered(Toolset)
    BY <1>1, <1>3 DEF CallOK, SentOK
  <1>. QED BY <1>2, <1>3, <1>5, <1>6

(* With the log at "info" or below, whatever changes something at GoCD was *)
(* audited first, under the login whose token it carries.                  *)
THEOREM ChangesAreAudited == ASSUME Loud PROVE Spec => []AuditedFirst
  <1>. SUFFICES IInv => AuditedFirst
    BY Inductive, PTL
  <1>1. ASSUME IInv, NEW r \in Requests, NEW i \in Changes(r)
        PROVE  \E j \in Lines(r, "audit") : /\ log[r][j].what = request[r].what
                                            /\ log[r][j].login = sent[r][i].as
    <2>1. CallOK(request[r], http[r], tool[r], told[r], holder[r], sent[r], log[r])
      BY <1>1 DEF IInv, Sound
    <2>2. Audited(request[r], log[r])
      BY <2>1, <1>1, ChangesComeFromPlans DEF CallOK, AuditOK
    <2>. QED BY <2>2, <1>1, ChangesComeFromPlans DEF Audited, Lines
  <1>. QED BY <1>1 DEF AuditedFirst

(* One request, one user: its lines and what is sent for it.               *)
THEOREM IdentityKept == Spec => []OneIdentity
  <1>. SUFFICES IInv => OneIdentity
    BY Inductive, PTL
  <1>. QED BY DEF IInv, Sound, CallOK, SentOK, LinesOK, OneIdentity, Lines, Principal

(* A call that ends in an error has had no change taken by GoCD, unless    *)
(* the answer to the change was lost or a 5xx.                             *)
THEOREM ErrorsAreSafe == Spec => []ErrorMeansNotAccepted
  <1>. SUFFICES IInv => ErrorMeansNotAccepted
    BY Inductive, PTL
  <1>. QED BY DEF IInv, Sound, CallOK, Settled, Quiet, ErrorMeansNotAccepted, Changes

(* "ok" means that the whole plan of the tool went through.                *)
THEOREM SuccessesAreReal == Spec => []OkMeansDone
  <1>. SUFFICES IInv => OkMeansDone
    BY Inductive, PTL
  <1>. QED BY DEF IInv, Sound, CallOK, Settled, Passed, OkMeansDone

(* An argument that goes into a path is never empty and never splits its   *)
(* segment, for any arguments of any tool.                                 *)
THEOREM SegmentsStayWhole == Spec => []SegmentsKept
  <1>. SUFFICES IInv => SegmentsKept
    BY Inductive, PTL
  <1>1. ASSUME IInv, NEW r \in Requests, NEW i \in DOMAIN sent[r],
               NEW f \in DOMAIN sent[r][i].path
        PROVE  sent[r][i].path[f] \notin {"blank", "odd"}
    <2>. DEFINE c == request[r]
    <2>1. CallOK(c, http[r], tool[r], told[r], holder[r], sent[r], log[r])
      BY <1>1 DEF IInv, Sound
    <2>2. tool[r] # "none"
      BY <2>1 DEF CallOK, SentOK, Unchecked
    <2>3. c.what \in Callable /\ c.args \in [Arguments(c.what) -> Values]
          /\ Valid(c.what, c.args)
      BY <2>1, <2>2 DEF CallOK, Place, SentOK
    <2>4. i \in 1..Len(Plan(c.what))
      <3>1. sent[r] \in Seq(SentSet) /\ Len(Plan(c.what)) \in {0, 1, 3}
        BY <1>1, <2>3, Plans DEF IInv, Shape, PlanOK
      <3>2. i <= Len(Plan(c.what))
        BY <2>1, <2>2 DEF CallOK, SentOK
      <3>. QED BY <3>1, <3>2, Within
    <2>5. sent[r][i].path = [g \in Plan(c.what)[i].path |-> Escape(c.args[g])]
      BY <2>1, <2>2 DEF CallOK, SentOK
    <2>6. f \in Plan(c.what)[i].path
      BY <2>5
    <2>7. f \in Arguments(c.what) /\ "blank" \in Checks(Operation(c.what))[f]
      BY <2>3, <2>4, <2>6, Plans DEF PathsOK
    <2>8. c.args[f] \in {"good", "odd", "dots"}
      BY <2>3, <2>7 DEF Valid, Values
    <2>9. sent[r][i].path[f] = Escape(c.args[f])
      BY <2>5, <2>6
    <2>. QED BY <2>8, <2>9 DEF Escape
  <1>. QED BY <1>1 DEF SegmentsKept

(* A toolset below "full" bounds the changes: its tools alone can make any, *)
(* and a tool that is not registered sends nothing.                        *)
THEOREM ToolsetBounds == Spec => []ToolsetKept
  <1>. SUFFICES IInv => ToolsetKept
    BY Inductive, PTL
  <1>1. ASSUME IInv, NEW r \in Requests, NEW i \in Changes(r)
        PROVE  request[r].what \in Changing \cap Registered(Toolset)
    BY <1>1, ChangesComeFromPlans
  <1>2. \A what \in Changing \cap Registered(Toolset) :
            Toolset = "full" \/ (Toolset = "actions" /\ what \in ActionTools)
    BY ConfigAssumption DEF Registered, Changing, ActionTools, ConfigTools, Identity,
       ReadOnlyTools, Resources, ToolOf
  <1>. QED BY <1>1, <1>2 DEF ToolsetKept

-------------------------------------------------------------------------------
(* The lines a request leaves behind.  With the log at "info" or below     *)
(* every one is written, and its log holds one line about the call once    *)
(* that is over, and one about the request once that is.                   *)

Endings == {"request", "panic recovered"}

NoneOf(l, msgs) == \A i \in DOMAIN l : l[i].msg \notin msgs

OnlyAt(l, msgs, i) == l[i].msg \in msgs /\ \A j \in DOMAIN l : l[j].msg \in msgs => j = i

TraceOK(c, h, t, o, l) ==
    /\ t # "done" => NoneOf(l, {"tool_call"})
    /\ t = "done" /\ c.what \in Tools =>
          \E i \in DOMAIN l :
              /\ OnlyAt(l, {"tool_call"}, i)
              /\ l[i].ok <=> o \in {"ok", "unconfirmed"}
              /\ l[i].login = (IF c.login \in Users THEN c.login ELSE NoLogin)
    /\ h # "closed" => NoneOf(l, Endings)
    /\ h = "closed" => \E i \in DOMAIN l : OnlyAt(l, Endings, i)

Traced(r) == TraceOK(request[r], http[r], tool[r], told[r], log[r])

TraceInv == \A r \in Requests : Traced(r)

LEMMA NewLine ==
    ASSUME NEW l \in Seq(LineSet), NEW line \in LineSet, NEW msgs
    PROVE  /\ line.msg \notin msgs /\ NoneOf(l, msgs) => NoneOf(Append(l, line), msgs)
           /\ line.msg \in msgs /\ NoneOf(l, msgs) =>
                 \E i \in DOMAIN Append(l, line) :
                     /\ Append(l, line)[i] = line
                     /\ OnlyAt(Append(l, line), msgs, i)
           /\ line.msg \notin msgs =>
                 \A i \in DOMAIN l : OnlyAt(l, msgs, i) =>
                     /\ i \in DOMAIN Append(l, line) /\ Append(l, line)[i] = l[i]
                     /\ OnlyAt(Append(l, line), msgs, i)
  <1>. DEFINE new == Append(l, line)
  <1>1. /\ \A i \in DOMAIN l : i \in DOMAIN new /\ new[i] = l[i]
        /\ \A i \in DOMAIN new : (i \in DOMAIN l /\ new[i] = l[i])
                              \/ (i = Len(l) + 1 /\ new[i] = line)
        /\ Len(l) + 1 \in DOMAIN new /\ new[Len(l) + 1] = line
    OBVIOUS
  <1>. HIDE DEF new
  <1>2. line.msg \notin msgs /\ NoneOf(l, msgs) => NoneOf(new, msgs)
    BY <1>1 DEF NoneOf
  <1>3. line.msg \in msgs /\ NoneOf(l, msgs) => OnlyAt(new, msgs, Len(l) + 1)
    BY <1>1 DEF NoneOf, OnlyAt
  <1>4. ASSUME line.msg \notin msgs, NEW i \in DOMAIN l, OnlyAt(l, msgs, i)
        PROVE  OnlyAt(new, msgs, i)
    BY <1>1, <1>4 DEF OnlyAt
  <1>. QED BY <1>1, <1>2, <1>3, <1>4 DEF new

(* A step that writes nothing, and ends neither the call nor the request.  *)
LEMMA NothingWritten ==
    ASSUME NEW c, NEW h, NEW t, NEW o, NEW l, NEW c2, NEW h2, NEW t2, NEW o2,
           TraceOK(c, h, t, o, l), t2 = "done" <=> t = "done", h2 = "closed" <=> h = "closed",
           t = "done" => c2 = c /\ o2 = o
    PROVE  TraceOK(c2, h2, t2, o2, l)
  BY DEF TraceOK

(* A step that writes a line about what it ends, or one about neither.     *)
LEMMA LineWritten ==
    ASSUME NEW c, NEW h, NEW t, NEW o, NEW l \in Seq(LineSet), NEW line \in LineSet,
           NEW c2, NEW h2, NEW t2, NEW o2, TraceOK(c, h, t, o, l),
           t = "done" => c2 = c /\ t2 = t /\ o2 = o,
           line.msg = "tool_call" <=> t # "done" /\ t2 = "done",
           line.msg \in Endings <=> h # "closed" /\ h2 = "closed",
           h = "closed" => h2 = "closed",
           line.msg = "tool_call" =>
              /\ line.ok <=> o2 \in {"ok", "unconfirmed"}
              /\ line.login = (IF c2.login \in Users THEN c2.login ELSE NoLogin)
    PROVE  TraceOK(c2, h2, t2, o2, Append(l, line))
  <1>. DEFINE new == Append(l, line)
  <1>. HIDE DEF new
  <1>1. t2 # "done" => NoneOf(new, {"tool_call"})
    BY NewLine DEF TraceOK, new
  <1>2. ASSUME t2 = "done", c2.what \in Tools
        PROVE  \E i \in DOMAIN new :
                   /\ OnlyAt(new, {"tool_call"}, i)
                   /\ new[i].ok <=> o2 \in {"ok", "unconfirmed"}
                   /\ new[i].login = (IF c2.login \in Users THEN c2.login ELSE NoLogin)
    <2>1. CASE t = "done"
      <3>1. PICK i \in DOMAIN l :
                   /\ OnlyAt(l, {"tool_call"}, i)
                   /\ l[i].ok <=> o \in {"ok", "unconfirmed"}
                   /\ l[i].login = (IF c.login \in Users THEN c.login ELSE NoLogin)
        <4>1. c.what \in Tools
          BY <2>1, <1>2
        <4>. QED BY <4>1, <2>1, Zenon DEF TraceOK
      <3>2. i \in DOMAIN new /\ new[i] = l[i] /\ OnlyAt(new, {"tool_call"}, i)
        BY <3>1, <2>1, NewLine DEF new
      <3>. QED BY <3>1, <3>2, <2>1
    <2>2. CASE t # "done"
      <3>1. line.msg = "tool_call" /\ NoneOf(l, {"tool_call"})
        BY <2>2, <1>2 DEF TraceOK
      <3>2. PICK i \in DOMAIN new : new[i] = line /\ OnlyAt(new, {"tool_call"}, i)
        BY <3>1, NewLine DEF new
      <3>. QED BY <3>1, <3>2
    <2>. QED BY <2>1, <2>2
  <1>3. h2 # "closed" => NoneOf(new, Endings)
    BY NewLine DEF TraceOK, new
  <1>4. ASSUME h2 = "closed" PROVE \E i \in DOMAIN new : OnlyAt(new, Endings, i)
    <2>1. CASE h = "closed"
      BY <2>1, NewLine DEF TraceOK, new
    <2>2. CASE h # "closed"
      BY <2>2, <1>4, NewLine DEF TraceOK, new
    <2>. QED BY <2>1, <2>2
  <1>. QED BY <1>1, <1>2, <1>3, <1>4 DEF TraceOK, new

(* A loud logger writes every line.                                        *)
LEMMA EveryLine ==
    ASSUME Loud, IInv, NEW q \in Requests, NEW level, NEW line, log' = Logged(q, level, line)
    PROVE  log'[q] = Append(log[q], line)
  <1>1. Written(level)
    BY DEF Loud, Written
  <1>. QED BY <1>1 DEF Logged, IInv, Shape

LEMMA TraceKept ==
    ASSUME NEW q \in Requests, TraceInv, Others(q), Traced(q)'
    PROVE  TraceInv'
  <1>1. \A r \in Requests \ {q} : Traced(r)'
    BY DEF TraceInv, Traced, Others
  <1>. QED BY <1>1 DEF TraceInv

(* The HTTP side ends: with the line of the access log or of the panic.    *)
LEMMA EndTraced ==
    ASSUME Loud, IInv, TraceInv, NEW q \in Requests, NEW level, NEW line \in LineSet,
           log' = Logged(q, level, line), http' = [http EXCEPT ![q] = "closed"],
           UNCHANGED <<tool, told>>, \A r \in Requests \ {q} : request'[r] = request[r],
           tool[q] = "done" => request'[q] = request[q],
           UNCHANGED holder, \A r \in Requests \ {q} : sent'[r] = sent[r],
           http[q] # "closed", line.msg \in Endings
    PROVE  TraceInv'
  <1>1. log'[q] = Append(log[q], line) /\ \A r \in Requests \ {q} : log'[r] = log[r]
    <2>1. log'[q] = Append(log[q], line)
      BY EveryLine
    <2>. QED BY <2>1, LogGrows DEF IInv, Shape
  <1>2. Others(q)
    BY <1>1 DEF IInv, Shape, Others
  <1>3. TraceOK(request[q], http[q], tool[q], told[q], log[q]) /\ log[q] \in Seq(LineSet)
    BY DEF TraceInv, Traced, IInv, Shape
  <1>4. http'[q] = "closed" /\ line.msg # "tool_call"
    BY DEF IInv, Shape, Endings
  <1>5. TraceOK(request'[q], "closed", tool[q], told[q], Append(log[q], line))
    BY <1>3, <1>4, LineWritten
  <1>. QED BY <1>1, <1>2, <1>4, <1>5, TraceKept DEF Traced

LEMMA MiddlewareTraced ==
    ASSUME Loud, IInv, TraceInv, NEW q \in Requests,
           Probe(q) \/ Reject(q) \/ Close(q) \/ Panic(q)
    PROVE  TraceInv'
  <1>1. CASE Probe(q)
    <2>1. PICK status \in {"200", "503"} : log' = Logged(q, "info", AccessLine(q, status))
      BY <1>1 DEF Probe
    <2>2. tool[q] = "none" /\ http[q] = "idle"
      BY <1>1 DEF Probe, IInv, Sound, CallOK, Place
    <2>3. AccessLine(q, status) \in LineSet /\ AccessLine(q, status).msg \in Endings
      BY AccessLineOK DEF AccessLine, Line, Endings
    <2>4. \A r \in Requests \ {q} : request'[r] = request[r] /\ sent'[r] = sent[r]
      BY <1>1 DEF Probe, IInv, Shape
    <2>. QED BY <2>1, <2>2, <2>3, <2>4, <1>1, EndTraced DEF Probe
  <1>2. CASE Reject(q) \/ Close(q)
    <2>1. PICK status \in {"200", "401"} : log' = Logged(q, "info", AccessLine(q, status))
      BY <1>2 DEF Reject, Close
    <2>2. AccessLine(q, status) \in LineSet /\ AccessLine(q, status).msg \in Endings
      BY AccessLineOK DEF AccessLine, Line, Endings
    <2>. QED BY <2>1, <2>2, <1>2, EndTraced DEF Reject, Close
  <1>3. CASE Panic(q)
    <2>. DEFINE line == Line("panic recovered", "500", NoLogin, FALSE)
    <2>1. line \in LineSet /\ line.msg \in Endings
      BY DEF Line, LineSet, Logins, Endings
    <2>. QED BY <2>1, <1>3, EndTraced DEF Panic
  <1>. QED BY <1>1, <1>2, <1>3

(* What neither ends nor writes, or writes an audit line.                  *)
LEMMA PlainStepTraced ==
    ASSUME Loud, IInv, TraceInv, NEW q \in Requests, Others(q),
           tool[q] # "done", tool'[q] # "done", http[q] # "closed" <=> http'[q] # "closed",
           \/ log'[q] = log[q]
           \/ log' = Logged(q, "info", Line("audit", request[q].what, LoginOf(q), TRUE))
    PROVE  TraceInv'
  <1>. DEFINE line == Line("audit", request[q].what, LoginOf(q), TRUE)
  <1>1. TraceOK(request[q], http[q], tool[q], told[q], log[q]) /\ log[q] \in Seq(LineSet)
    BY DEF TraceInv, Traced, IInv, Shape
  <1>2. CASE log'[q] = log[q]
    BY <1>1, <1>2, NothingWritten, TraceKept DEF Traced
  <1>3. CASE log' = Logged(q, "info", line)
    <2>1. line \in LineSet /\ line.msg = "audit"
      BY DEF Line, LineSet, LoginOf, Principal, Logins, IInv, Shape
    <2>2. log'[q] = Append(log[q], line)
      BY <1>3, EveryLine
    <2>3. TraceOK(request'[q], http'[q], tool'[q], told'[q], Append(log[q], line))
      BY <1>1, <2>1, LineWritten DEF Endings
    <2>. QED BY <2>2, <2>3, TraceKept DEF Traced
  <1>. QED BY <1>2, <1>3

LEMMA ArriveAdmitTraced ==
    ASSUME Loud, IInv, TraceInv, NEW q \in Requests, Arrive(q) \/ Admit(q)
    PROVE  TraceInv'
  <1>1. Others(q)
    BY DEF Arrive, Admit, IInv, Shape, Others, HolderOf
  <1>2. tool[q] = "none" /\ http[q] \in {"idle", "auth"} /\ log' = log
    BY DEF Arrive, Admit, IInv, Sound, CallOK, Place
  <1>3. tool'[q] # "done" /\ http'[q] \in {"auth", "open"}
    BY <1>2 DEF Arrive, Admit, IInv, Shape
  <1>. QED BY <1>1, <1>2, <1>3, PlainStepTraced

LEMMA StartTraced ==
    ASSUME Loud, IInv, TraceInv, NEW q \in Requests,
           \/ Unregistered(q) \/ Whoami(q) \/ Read(q) \/ ReadResource(q) \/ Act(q)
           \/ EditConfig(q)
    PROVE  TraceInv'
  <1>1. tool[q] = "start" /\ UNCHANGED <<request, http, holder, sent>>
    BY DEF Unregistered, Whoami, Read, ReadResource, Act, EditConfig, Starts
  <1>2. \/ log' = log
        \/ log' = Logged(q, "info", Line("audit", request[q].what, LoginOf(q), TRUE))
    BY DEF Unregistered, Whoami, Read, ReadResource, Act, EditConfig, NoPrincipal, Audit
  <1>3. \/ \E o : Tell(q, o)
        \/ tool' = [tool EXCEPT ![q] = "asking"] /\ told' = told
    BY DEF Unregistered, Whoami, Read, ReadResource, Act, EditConfig, NoPrincipal, Proceed
  <1>4. /\ tool'[q] \in {"told", "asking"}
        /\ \A r \in Requests \ {q} : tool'[r] = tool[r] /\ told'[r] = told[r]
    BY <1>3 DEF Tell, IInv, Shape
  <1>5. \A r \in Requests \ {q} : log'[r] = log[r]
    <2>. DEFINE line == Line("audit", request[q].what, LoginOf(q), TRUE)
    <2>1. line \in LineSet
      BY DEF Line, LineSet, LoginOf, Principal, Logins, IInv, Shape
    <2>. QED BY <1>2, <2>1, LogGrows DEF IInv, Shape
  <1>6. Others(q)
    BY <1>1, <1>4, <1>5 DEF Others
  <1>. QED BY <1>1, <1>2, <1>4, <1>6, PlainStepTraced

LEMMA AskTraced ==
    ASSUME Loud, IInv, TraceInv, NEW q \in Requests, Ask(q)
    PROVE  TraceInv'
  <1>1. \/ \E o : Tell(q, o)
        \/ tool' = tool /\ told' = told
    BY DEF Ask
  <1>2. /\ tool'[q] \in {"told", "asking"}
        /\ \A r \in Requests \ {q} : tool'[r] = tool[r] /\ told'[r] = told[r]
    BY <1>1 DEF Ask, Tell, IInv, Shape
  <1>3. \A r \in Requests \ {q} : sent'[r] = sent[r]
    BY DEF Ask, IInv, Shape
  <1>4. Others(q)
    BY <1>2, <1>3 DEF Others, Ask
  <1>. QED BY <1>2, <1>4, PlainStepTraced DEF Ask

LEMMA ReturnedTraced ==
    ASSUME Loud, IInv, TraceInv, NEW q \in Requests, Returned(q)
    PROVE  TraceInv'
  <1>. DEFINE c    == request[q]
              line == Line("tool_call", c.what, LoginOf(q), told[q] \in {"ok", "unconfirmed"})
  <1>1. TraceOK(c, http[q], "told", told[q], log[q]) /\ log[q] \in Seq(LineSet)
    BY DEF TraceInv, Traced, IInv, Shape, Returned
  <1>2. (told[q] \in {"ok", "unconfirmed"}) \in BOOLEAN
    OBVIOUS
  <1>3. /\ line \in LineSet /\ line.msg = "tool_call" /\ line.login = LoginOf(q)
        /\ line.ok <=> told[q] \in {"ok", "unconfirmed"}
    BY <1>2 DEF Line, LineSet, LoginOf, Principal, Logins, IInv, Shape
  <1>4. /\ request'[q] = c /\ http'[q] = http[q] /\ tool'[q] = "done" /\ told'[q] = told[q]
        /\ \A r \in Requests \ {q} : tool'[r] = tool[r]
    BY DEF Returned, IInv, Shape
  <1>5. CASE c.what \in Resources
    <2>1. log' = log /\ c.what \notin Tools
      BY <1>5 DEF Returned, Resources, ToolOf, Tools, Identity, ReadOnlyTools, ActionTools,
                  ConfigTools
    <2>2. TraceOK(c, http[q], "done", told[q], log[q])
      BY <1>1, <2>1 DEF TraceOK
    <2>3. Others(q)
      BY <1>4, <2>1 DEF Others, Returned
    <2>. QED BY <1>4, <2>1, <2>2, <2>3, TraceKept DEF Traced
  <1>6. CASE c.what \notin Resources
    <2>1. log' = Logged(q, "info", line)
      BY <1>6 DEF Returned
    <2>2. log'[q] = Append(log[q], line) /\ \A r \in Requests \ {q} : log'[r] = log[r]
      BY <2>1, <1>3, EveryLine, LogGrows DEF IInv, Shape
    <2>3. line.login = (IF c.login \in Users THEN c.login ELSE NoLogin)
      BY <1>3 DEF LoginOf, Principal
    <2>4. line.msg \notin Endings
      BY <1>3 DEF Endings
    <2>5. TraceOK(c, http[q], "done", told[q], Append(log[q], line))
      BY <1>1, <1>3, <2>3, <2>4, LineWritten
    <2>6. Others(q)
      BY <1>4, <2>2 DEF Others, Returned
    <2>. QED BY <1>4, <2>2, <2>5, <2>6, TraceKept DEF Traced
  <1>. QED BY <1>5, <1>6

LEMMA TraceInductive == ASSUME Loud PROVE Spec => []TraceInv
  <1>1. Init => TraceInv
    BY DEF Init, TraceInv, Traced, TraceOK, NoneOf
  <1>2. ASSUME IInv, TraceInv, [Next]_vars PROVE TraceInv'
    <2>1. CASE UNCHANGED vars
      BY <2>1, <1>2 DEF TraceInv, Traced, vars
    <2>2. ASSUME Next PROVE TraceInv'
      <3>1. PICK q \in Requests : \/ Arrive(q) \/ Probe(q) \/ Serve(q) \/ Handle(q)
                                  \/ Disconnect(q) \/ Panic(q)
        BY <2>2 DEF Next
      <3>2. CASE Handle(q)
        BY <3>2, <1>2, StartTraced, AskTraced, ReturnedTraced DEF Handle
      <3>3. CASE Serve(q)
        BY <3>3, <1>2, MiddlewareTraced, ArriveAdmitTraced DEF Serve, Reply
      <3>. QED BY <3>1, <3>2, <3>3, <1>2, MiddlewareTraced, ArriveAdmitTraced DEF Disconnect
    <2>. QED BY <1>2, <2>1, <2>2
  <1>. QED BY Inductive, <1>1, <1>2, PTL DEF Spec

(* With the log at "info" or below every tools/call that has returned left *)
(* one tool_call line, under the caller's login, whose ok is the caller's. *)
THEOREM CallsAreLogged == ASSUME Loud PROVE Spec => []CallLogged
  <1>. SUFFICES TraceInv => CallLogged
    BY TraceInductive, PTL
  <1>1. ASSUME TraceInv, NEW r \in Requests, tool[r] = "done", request[r].what \in Tools
        PROVE  \E i \in DOMAIN log[r] :
                   /\ Lines(r, "tool_call") = {i}
                   /\ log[r][i].ok <=> told[r] \in {"ok", "unconfirmed"}
                   /\ log[r][i].login = LoginOf(r)
    <2>1. TraceOK(request[r], http[r], tool[r], told[r], log[r])
      BY <1>1 DEF TraceInv, Traced
    <2>2. PICK i \in DOMAIN log[r] :
             /\ OnlyAt(log[r], {"tool_call"}, i)
             /\ log[r][i].ok <=> told[r] \in {"ok", "unconfirmed"}
             /\ log[r][i].login = (IF request[r].login \in Users THEN request[r].login
                                   ELSE NoLogin)
      BY <2>1, <1>1, Zenon DEF TraceOK
    <2>3. Lines(r, "tool_call") = {i}
      BY <2>2 DEF OnlyAt, Lines
    <2>. QED BY <2>2, <2>3 DEF LoginOf, Principal
  <1>. QED BY <1>1, Zenon DEF CallLogged

(* With the log at "info" or below every HTTP request that has ended, a    *)
(* rejected or a panicked one too, left one line that says so.             *)
THEOREM RequestsAccounted == ASSUME Loud PROVE Spec => []RequestAccounted
  <1>. SUFFICES TraceInv => RequestAccounted
    BY TraceInductive, PTL
  <1>1. ASSUME TraceInv, NEW r \in Requests, http[r] = "closed"
        PROVE  \E i \in DOMAIN log[r] :
                   Lines(r, "request") \cup Lines(r, "panic recovered") = {i}
    <2>1. PICK i \in DOMAIN log[r] : OnlyAt(log[r], Endings, i)
      BY <1>1 DEF TraceInv, Traced, TraceOK
    <2>2. Lines(r, "request") \cup Lines(r, "panic recovered") = {i}
      BY <2>1 DEF OnlyAt, Lines, Endings
    <2>. QED BY <2>2
  <1>. QED BY <1>1 DEF RequestAccounted
================================================================================
