------------------------------ MODULE MCLifecycle ------------------------------
(* Instances of Lifecycle.  The certificate and the key are varied         *)
(* together, the other settings one at a time, each in both sources.       *)
EXTENDS Lifecycle

InEnvironment(k) == {Absent, ""} \cup
    CASE k = "gocd_base_url"     -> {"https://gocd/", "gocd"}
      [] k = "mcp_endpoint_path" -> {"/gocd", "mcp"}
      [] k \in Durations         -> {"5s", "soon"}
      [] k = "toolset"           -> {"readonly", "all"}
      [] k = "log_level"         -> {"warn"}
      [] OTHER                   -> {"one"}

InFile(k) == {Absent, ""} \cup
    CASE k = "gocd_base_url"     -> {"https://gocd"}
      [] k = "mcp_endpoint_path" -> {"/mcp"}
      [] k \in Durations         -> {"0", "soon"}
      [] k = "toolset"           -> {"actions"}
      [] k = "log_level"         -> {"error"}
      [] OTHER                   -> {"two"}

Pair   == {"tls_cert_file", "tls_key_file"}
Groups == {Pair} \cup {{k} : k \in Keys \ Pair}

Texts(In(_), g) == {t \in [g -> UNION {In(k) : k \in g}] : \A k \in g : t[k] \in In(k)}

Over(base, t) == [k \in Keys |-> IF k \in DOMAIN t THEN t[k] ELSE base[k]]

Usual == [Nothing EXCEPT !["gocd_base_url"] = "https://gocd/"]

MCSources ==
    UNION {{[environment |-> Over(Usual, e), file |-> [st |-> "read", keys |-> Over(Nothing, f)]] :
                e \in Texts(InEnvironment, g), f \in Texts(InFile, g)} : g \in Groups}
    \cup {[environment |-> Usual, file |-> [st |-> how, keys |-> Nothing]] :
                how \in {"none", "unreadable"}}
===============================================================================
