------------------------------ MODULE MCServer ------------------------------
(***************************************************************************)
(* One call of each tool on a server started with every combination of a   *)
(* few environments and a few .env files.                                  *)
(*                                                                         *)
(* A variable of the environment is absent, empty or set, and a setting is *)
(* taken from there, from .env, from both or from neither; the files hold  *)
(* every two of a few lines in either order, so that lines are repeated,   *)
(* commented out or empty, and a pair of credentials is split between the  *)
(* two places; a number is none, and a provider is unknown.                *)
(***************************************************************************)
EXTENDS Server, TLC

\* The environments in which each of these variables is absent or one of these.
Varying(values) ==
    {[k \in {v \in DOMAIN c : c[v] # "absent"} |-> c[k]] :
        c \in {f \in [DOMAIN values -> UNION {values[v] : v \in DOMAIN values}] :
                  \A v \in DOMAIN values : f[v] \in values[v]}}

MCEnvironments ==
    Varying("RESEARCH_SYNTHESIS" :> {"absent", "", "simple", "llm"} @@
            "DYNAMIC_THRESHOLD" :> {"absent", "2"}) \cup
    Varying("SEARCH_PROVIDER" :> {"absent", "", "google_cse"} @@
            "GOOGLE_API_KEY" :> {"absent", "k1"}) \cup
    Varying("MCP_TRANSPORT" :> {"absent", "http"} @@
            "MAX_CONCURRENT_RESEARCH" :> {"absent", "many"} @@
            "DYNAMIC_ENABLED" :> {"absent", "off"})

Line(k, v) == [shape |-> "pair", key |-> k, val |-> v]
Comment(k, v) == [shape |-> "comment", key |-> k, val |-> v]

Lines == {Line("RESEARCH_SYNTHESIS", "llm"), Line("RESEARCH_SYNTHESIS", "simple"),
          Line("RESEARCH_SYNTHESIS", ""), Comment("RESEARCH_SYNTHESIS", "llm"),
          Line("GOOGLE_CSE_ID", "c1"), Line("SEARCH_PROVIDER", "brave")}

MCFiles ==
    {NoFile} \cup UNION {[1 .. n -> Lines] : n \in 0 .. 2} \cup
    {<<Line("MCP_TRANSPORT", "sse"), Line("MAX_CONCURRENT_RESEARCH", "-1"), Line("", "k2"),
       Line("EXA_API_KEY", "k2")>>,
     <<Line("GOOGLE_API_KEY", "k3"), Line("SEARCH_PROVIDER", "ddg"),
       Line("DYNAMIC_ENABLED", "maybe"), Line("DYNAMIC_THRESHOLD", "0"),
       Line("MCP_TRANSPORT", "streamable-http"), Line("MAX_CONCURRENT_RESEARCH", "3")>>,
     \* The line of .env.example, whose comment belongs to the value.
     <<Line("MCP_TRANSPORT", "stdio # stdio | http")>>}

MCAtoi == "0" :> 0 @@ "2" :> 2 @@ "3" :> 3 @@ "-1" :> -1

MCThresholds == {50, 0, 2, 3, -1}

MCLimits == {0, 1, 2}

\* Lists of up to three entries, and pages of up to two links with snippets.
Via(href) == <<LinkOf(href), "snippet">>

MCPayloads ==
    UNION {[1 .. n -> {"hit", "void"}] : n \in 0 .. 3} \cup
    {Via(h) \o Via(i) : h, i \in {"none", "redirect", "redirect to nothing"}} \cup
    {<<"snippet", "hit">>, <<"hit", "hit", "snippet">>, <<"hit", "snippet", "hit">>}
=============================================================================
