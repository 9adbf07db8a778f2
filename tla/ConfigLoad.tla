------------------------------- MODULE ConfigLoad -------------------------------
(***************************************************************************)
(* config.Load: ten settings from defaults, the environment and a YAML     *)
(* file, in that order of precedence, and their validation.                *)
(*                                                                         *)
(* A source is a function from keys to texts; Absent is a variable that is *)
(* not set, or a key the file does not have.  Texts are told apart as far  *)
(* as the code tells them apart.                                           *)
(***************************************************************************)

Absent == "absent"

Keys == {"gocd_base_url", "listen_addr", "tls_cert_file", "tls_key_file", "mcp_endpoint_path",
         "gocd_request_timeout", "token_cache_ttl", "toolset", "log_level", "log_file"}

Nothing == [k \in Keys |-> Absent]

Durations == {"gocd_request_timeout", "token_cache_ttl"}

(* time.ParseDuration; of the texts used here these are durations.         *)
IsDuration(text) == text \in {"30s", "60s", "5s", "0"}

Default == [k \in Keys |->
    CASE k = "listen_addr"          -> ":8443"
      [] k = "mcp_endpoint_path"    -> "/mcp"
      [] k = "gocd_request_timeout" -> "30s"
      [] k = "token_cache_ttl"      -> "60s"
      [] k = "toolset"              -> "full"
      [] k = "log_level"            -> "info"
      [] OTHER                      -> ""]

HasScheme(url)  == url \in {"https://gocd", "https://gocd/"}
TrimSlash(url)  == IF url = "https://gocd/" THEN "https://gocd" ELSE url
HasSlash(path)  == path \in {"/mcp", "/gocd"}
Toolsets        == {"readonly", "actions", "full"}

(* env and envDuration: a variable that is empty counts for none, and so   *)
(* does a duration that does not parse.                                    *)
SetInEnv(k, text) == /\ text \notin {Absent, ""}
                     /\ k \in Durations => IsDuration(text)

FromEnv(environment) ==
    [k \in Keys |-> IF SetInEnv(k, environment[k]) THEN environment[k] ELSE Default[k]]

(* A file is given by how reading it goes: "none" is named, it is          *)
(* "unreadable" (or no such YAML), or "read", with its keys.               *)
Acceptable(file) ==
    /\ file.st # "unreadable"
    /\ \A k \in Durations : file.keys[k] # Absent => IsDuration(file.keys[k])

(* Mutant: a key that is there but empty is passed over.                   *)
MutantApplyFile(config, file) ==
    [k \in Keys |-> IF file.keys[k] \notin {Absent, ""} THEN file.keys[k] ELSE config[k]]

(* A pointer field of fileConfig is set whenever the file has the key.     *)
ApplyFile(config, file) ==
    [k \in Keys |-> IF file.keys[k] # Absent THEN file.keys[k] ELSE config[k]]

(* Mutant: the pair is asked for only if there is a certificate.           *)
MutantValid(c) ==
    /\ HasScheme(c["gocd_base_url"]) /\ HasSlash(c["mcp_endpoint_path"])
    /\ c["toolset"] \in Toolsets
    /\ c["tls_cert_file"] # "" => c["tls_key_file"] # ""

Valid(c) ==
    /\ HasScheme(c["gocd_base_url"]) /\ HasSlash(c["mcp_endpoint_path"])
    /\ c["toolset"] \in Toolsets
    /\ (c["tls_cert_file"] = "") = (c["tls_key_file"] = "")

Load(environment, file) ==
    LET config == ApplyFile(FromEnv(environment), file)
    IN  [ok     |-> Acceptable(file) /\ Valid(config),
         config |-> [config EXCEPT !["gocd_base_url"] = TrimSlash(@)]]

TLSEnabled(c) == c["tls_cert_file"] # "" /\ c["tls_key_file"] # ""
===============================================================================
