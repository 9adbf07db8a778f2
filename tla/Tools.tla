--------------------------------- MODULE Tools ---------------------------------
(***************************************************************************)
(* What the tools and resources of the server are made of: which toolset   *)
(* registers them (mcpsrv), which arguments the service behind them checks *)
(* (domain), and which request each sends to GoCD (gocd).                  *)
(*                                                                         *)
(* An argument is "good"; "blank": empty or white space, a counter below   *)
(* 1, a body that is no object or an empty one; "odd": a text with a       *)
(* separator in it, a cursor that is no number, a template object whose    *)
(* own name does not fit; or "dots": the text "." or "..", which a path    *)
(* takes for a step and not for a name.                                    *)
(***************************************************************************)
EXTENDS Sequences

ReadOnlyTools == {"list_pipelines", "get_pipeline_status", "get_pipeline_history",
                  "list_agents", "get_pipeline_instance", "get_job_console_log",
                  "get_pipeline_config", "list_templates", "get_template"}

ActionTools == {"trigger_pipeline", "trigger_stage", "pause_pipeline",
                "unpause_pipeline", "cancel_stage", "comment_on_pipeline"}

ConfigTools == {"update_pipeline_config", "create_pipeline", "delete_pipeline",
                "update_agent", "create_template", "update_template", "delete_template"}

(* A resource is read through the service operation of a tool.             *)
ToolOf == [dashboard |-> "list_pipelines", agents |-> "list_agents",
           pipeline_config |-> "get_pipeline_config",
           pipeline_history |-> "get_pipeline_history"]

Resources == DOMAIN ToolOf

Identity == {"whoami"}

Tools == Identity \cup ReadOnlyTools \cup ActionTools \cup ConfigTools

Operation(what) == IF what \in Resources THEN ToolOf[what] ELSE what

(* Mutant: every tool is registered whatever the toolset.                  *)
MutantRegistered(toolset) == Tools \cup Resources

Registered(toolset) == Identity \cup ReadOnlyTools \cup Resources
                       \cup (IF toolset \in {"actions", "full"} THEN ActionTools ELSE {})
                       \cup (IF toolset = "full" THEN ConfigTools ELSE {})

-------------------------------------------------------------------------------
(* The arguments of each operation, and the values its check refuses.      *)

Named   == {"blank", "odd"}          \* validateName, validateStageName
Present == {"blank"}                 \* required text, counters from 1, an object
Numeric == {"blank", "odd", "dots"}  \* a cursor; one left out is "good"
Free    == {}                        \* not checked

(* The values an argument can take besides "good", by its type: a number,  *)
(* an object or a text.                                                    *)
Unusual(f) == IF f \in {"counter", "stage_counter"} THEN {"blank"}
              ELSE IF f = "body" THEN {"blank", "odd"}
              ELSE {"blank", "odd", "dots"}

Unchecked == [x \in {} |-> Free]

ReadChecks == [list_pipelines        |-> [group |-> Free],
               get_pipeline_status   |-> [pipeline |-> Named],
               get_pipeline_history  |-> [pipeline |-> Named, after |-> Numeric],
               list_agents           |-> Unchecked,
               get_pipeline_config   |-> [pipeline |-> Named],
               get_pipeline_instance |-> [pipeline |-> Named, counter |-> Present]]

LogChecks == [get_job_console_log |-> [pipeline |-> Named, stage |-> Present,
                                       job |-> Present, counter |-> Present,
                                       stage_counter |-> Present]]

TriggerChecks == [trigger_pipeline |-> [pipeline |-> Named]]

StageChecks == [trigger_stage |-> [pipeline |-> Named, stage |-> Named,
                                   counter |-> Present]]

(* Mutant: the stage of a cancellation is not checked.                     *)
MutantActionChecks ==
    [pause_pipeline      |-> [pipeline |-> Named, cause |-> Present],
     unpause_pipeline    |-> [pipeline |-> Named],
     cancel_stage        |-> [pipeline |-> Named, stage |-> Free,
                              counter |-> Present, stage_counter |-> Present],
     comment_on_pipeline |-> [pipeline |-> Named, counter |-> Present, text |-> Present]]

ActionChecks ==
    [pause_pipeline      |-> [pipeline |-> Named, cause |-> Present],
     unpause_pipeline    |-> [pipeline |-> Named],
     cancel_stage        |-> [pipeline |-> Named, stage |-> Named,
                              counter |-> Present, stage_counter |-> Present],
     comment_on_pipeline |-> [pipeline |-> Named, counter |-> Present, text |-> Present]]

ConfigChecks ==
    [update_pipeline_config |-> [pipeline |-> Named, etag |-> Present, body |-> Present],
     create_pipeline        |-> [group |-> Present, body |-> Present],
     delete_pipeline        |-> [pipeline |-> Named],
     update_agent           |-> [uuid |-> Present, body |-> Present]]

TemplateChecks ==
    [list_templates  |-> Unchecked,
     get_template    |-> [template |-> Named],
     create_template |-> [body |-> Named],
     update_template |-> [template |-> Named, etag |-> Present, body |-> Named],
     delete_template |-> [template |-> Named]]

Checks(op) == CASE op \in DOMAIN ReadChecks     -> ReadChecks[op]
                [] op \in DOMAIN LogChecks      -> LogChecks[op]
                [] op \in DOMAIN TriggerChecks  -> TriggerChecks[op]
                [] op \in DOMAIN StageChecks    -> StageChecks[op]
                [] op \in DOMAIN ActionChecks   -> ActionChecks[op]
                [] op \in DOMAIN ConfigChecks   -> ConfigChecks[op]
                [] op \in DOMAIN TemplateChecks -> TemplateChecks[op]
                [] OTHER                        -> Unchecked

Arguments(what) == DOMAIN Checks(Operation(what))

Valid(what, args) == \A f \in Arguments(what) : args[f] \notin Checks(Operation(what))[f]

-------------------------------------------------------------------------------
(* The requests each operation sends to GoCD, in order: their methods and  *)
(* the arguments that become segments of the path.                         *)

Send(method, path) == [method |-> method, path |-> path]
Get(path)  == <<Send("GET", path)>>
Post(path) == <<Send("POST", path)>>

PipelineRoutes == [list_pipelines       |-> Get({}),
                   get_pipeline_status  |-> Get({"pipeline"}),
                   get_pipeline_history |-> Get({"pipeline"}),
                   get_pipeline_config  |-> Get({"pipeline"})]

AgentRoutes == [list_agents |-> Get({})]

InstanceRoutes == [get_pipeline_instance |-> Get({"pipeline", "counter"})]

LogRoutes == [get_job_console_log |-> Get({"pipeline", "counter", "stage",
                                           "stage_counter", "job"})]

(* A trigger reads a baseline, posts, and polls: as many polls as it makes *)
(* (TriggerPipeline, TriggerStage) are one here.                           *)
ActionRoutes ==
    [trigger_pipeline    |-> <<Send("GET", {"pipeline"}), Send("POST", {"pipeline"}),
                               Send("GET", {"pipeline"})>>,
     trigger_stage       |-> <<Send("GET", {"pipeline", "counter"}),
                               Send("POST", {"pipeline", "counter", "stage"}),
                               Send("GET", {"pipeline", "counter"})>>,
     pause_pipeline      |-> Post({"pipeline"}),
     unpause_pipeline    |-> Post({"pipeline"}),
     cancel_stage        |-> Post({"pipeline", "counter", "stage", "stage_counter"}),
     comment_on_pipeline |-> Post({"pipeline", "counter"})]

ConfigRoutes ==
    [update_pipeline_config |-> <<Send("PUT", {"pipeline"})>>,
     create_pipeline        |-> Post({}),
     delete_pipeline        |-> <<Send("DELETE", {"pipeline"})>>,
     update_agent           |-> <<Send("PATCH", {"uuid"})>>]

TemplateRoutes ==
    [list_templates  |-> Get({}),
     get_template    |-> Get({"template"}),
     create_template |-> Post({}),
     update_template |-> <<Send("PUT", {"template"})>>,
     delete_template |-> <<Send("DELETE", {"template"})>>]

Routes(op) == CASE op \in DOMAIN PipelineRoutes -> PipelineRoutes[op]
                [] op \in DOMAIN AgentRoutes    -> AgentRoutes[op]
                [] op \in DOMAIN InstanceRoutes -> InstanceRoutes[op]
                [] op \in DOMAIN LogRoutes      -> LogRoutes[op]
                [] op \in DOMAIN ActionRoutes   -> ActionRoutes[op]
                [] op \in DOMAIN ConfigRoutes   -> ConfigRoutes[op]
                [] op \in DOMAIN TemplateRoutes -> TemplateRoutes[op]
                [] OTHER                        -> <<>>

Plan(what) == Routes(Operation(what))

(* url.PathEscape escapes separators, and leaves dots as they are.         *)
Escape(value) == IF value = "odd" THEN "escaped" ELSE value
===============================================================================
