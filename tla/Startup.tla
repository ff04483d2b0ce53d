------------------------------ MODULE Startup ------------------------------
(***************************************************************************)
(* cmd/myscrape and internal/config: from the environment and the .env     *)
(* file to a wired server.                                                 *)
(*                                                                         *)
(* main() fills the gaps of the environment from .env, reads the settings  *)
(* from what it has become, builds the search provider, and wires fetcher  *)
(* and pipeline.  An environment is a partial function from variable names *)
(* (here without their MYSCRAPE_ prefix) to text.                          *)
(***************************************************************************)
EXTENDS Integers, SequencesExt

CONSTANTS
    Environments, \* environments the process may be started with
    Files,        \* contents of .env, as sequences of lines; NoFile
    NoFile,
    Atoi          \* the texts strconv.Atoi accepts, with their values

VARIABLES
    given,        \* history: the environment the process was started with
    dotenv,       \* the file
    environ,      \* os.Environ
    stage,        \* main() is loading, reading, building; it is serving, or has failed
    settings,     \* config.Settings
    wired         \* what main() made of them: [engines, cap, over]

\* What os.Getenv returns for a variable that is not there: it reads like one
\* that is empty.
Unset == ""

Getenv(k) == IF k \in DOMAIN environ THEN environ[k] ELSE Unset

Credentials == {"MARGINALIA_API_KEY", "TAVILY_API_KEY", "EXA_API_KEY", "SERPAPI_API_KEY",
                "SERPER_API_KEY", "MOJEEK_API_KEY", "GOOGLE_API_KEY", "GOOGLE_CSE_ID"}

\* The engines that join the composite when their credentials are set, in order.
Keyed == <<[name |-> "tavily", needs |-> {"TAVILY_API_KEY"}],
           [name |-> "exa", needs |-> {"EXA_API_KEY"}],
           [name |-> "serpapi", needs |-> {"SERPAPI_API_KEY"}],
           [name |-> "serper", needs |-> {"SERPER_API_KEY"}],
           [name |-> "mojeek", needs |-> {"MOJEEK_API_KEY"}],
           [name |-> "google_cse", needs |-> {"GOOGLE_API_KEY", "GOOGLE_CSE_ID"}]>>
AlwaysOn == <<"ddg", "marginalia">>
Names == ToSet(AlwaysOn) \cup {Keyed[i].name : i \in DOMAIN Keyed}

NoSettings == [provider |-> Unset, credentials |-> [k \in Credentials |-> Unset],
               transport |-> Unset, synthesis |-> "simple", maxConcurrent |-> 0,
               dynamic |-> FALSE, threshold |-> 0]

Init ==
    /\ given \in Environments
    /\ dotenv \in Files
    /\ environ = given
    /\ stage = "loading"
    /\ settings = NoSettings
    /\ wired = [engines |-> <<>>, cap |-> 0, over |-> "nothing"]

-----------------------------------------------------------------------------
(* .env                                                                    *)

\* What is defined anew, over what was.
Over(new, old) ==
    [k \in DOMAIN new \cup DOMAIN old |-> IF k \in DOMAIN new THEN new[k] ELSE old[k]]

\* A line that defines something.  A line is [shape, key, val]: a pair, with or
\* without export, quotes and blanks around it, a comment, or a line without =.
Defines(l) == l.shape = "pair" /\ l.key # Unset /\ l.val # Unset

\* parseDotEnv: of several lines for one key the last one counts.
Parsed(lines) ==
    FoldLeft(LAMBDA out, l : IF Defines(l) THEN Over([k \in {l.key} |-> l.val], out) ELSE out,
             <<>>, lines)

\* The file wins.
M_LoadDotEnvOverrides ==
    /\ stage = "loading"
    /\ environ' = IF dotenv = NoFile THEN environ ELSE Over(Parsed(dotenv), environ)
    /\ stage' = "reading"
    /\ UNCHANGED <<given, dotenv, settings, wired>>

\* Only what is unset, or empty, in the environment is taken from the file.
LoadDotEnv ==
    /\ stage = "loading"
    /\ LET out == IF dotenv = NoFile THEN <<>> ELSE Parsed(dotenv)
           gaps == {k \in DOMAIN out : Getenv(k) = Unset}
       IN  environ' = Over([k \in gaps |-> out[k]], environ)
    /\ stage' = "reading"
    /\ UNCHANGED <<given, dotenv, settings, wired>>

-----------------------------------------------------------------------------
(* Settings.                                                               *)

Text(k, default) == IF Getenv(k) # Unset THEN Getenv(k) ELSE default

Number(k, default) == IF Getenv(k) \in DOMAIN Atoi THEN Atoi[Getenv(k)] ELSE default

\* A text that is neither a yes nor a no is the default; it is looked at without
\* its blanks and in lower case, as which it is given here.
Flag(k, default) ==
    \/ Getenv(k) \in {"1", "true", "yes", "on"}
    \/ default /\ Getenv(k) \notin {"0", "false", "no", "off"}

FromEnv ==
    /\ stage = "reading"
    /\ settings' = [provider |-> Text("SEARCH_PROVIDER", "roundrobin"),
                    credentials |-> [k \in Credentials |->
                        Text(k, IF k = "MARGINALIA_API_KEY" THEN "public" ELSE Unset)],
                    transport |-> Text("MCP_TRANSPORT", "stdio"),
                    synthesis |-> Text("RESEARCH_SYNTHESIS", "simple"),
                    maxConcurrent |-> Number("MAX_CONCURRENT_RESEARCH", 2),
                    dynamic |-> Flag("DYNAMIC_ENABLED", TRUE),
                    threshold |-> Number("DYNAMIC_THRESHOLD", 50)]
    /\ stage' = "building"
    /\ UNCHANGED <<given, dotenv, environ, wired>>

-----------------------------------------------------------------------------
(* Wiring.                                                                 *)

\* One of the credentials will do.
M_JoinsOnAny(engine) == \E k \in engine.needs : settings.credentials[k] # Unset

Joins(engine) == \A k \in engine.needs : settings.credentials[k] # Unset

\* buildRoundRobin.
Composed ==
    FoldLeft(LAMBDA engines, e : IF Joins(e) THEN Append(engines, e.name) ELSE engines,
             AlwaysOn, Keyed)

\* The size of the semaphore; 0 for none.
Cap == IF settings.transport # "stdio" /\ settings.maxConcurrent > 0
       THEN settings.maxConcurrent ELSE 0

\* The transport main() serves over: whatever is not one of the two names of HTTP
\* is stdio.
Served == IF settings.transport \in {"http", "streamable-http"} THEN "http" ELSE "stdio"

Wiring(engines) == [engines |-> engines, cap |-> Cap, over |-> Served]

\* search.Build, and what main() makes of its result: an unknown provider is
\* fatal, the rest cannot fail.
Build ==
    /\ stage = "building"
    /\ LET p == settings.provider
       IN  \/ /\ p = "roundrobin"
              /\ wired' = Wiring(Composed) /\ stage' = "serving"
           \/ /\ p \in Names
              /\ wired' = Wiring(<<p>>) /\ stage' = "serving"
           \/ /\ p \notin Names \cup {"roundrobin"}
              /\ stage' = "failed" /\ UNCHANGED wired
    /\ UNCHANGED <<given, dotenv, environ, settings>>

-----------------------------------------------------------------------------
(* What the start promises.                                                *)

\* What the user has written.
Texts ==
    {Unset} \cup {given[k] : k \in DOMAIN given} \cup
    IF dotenv = NoFile THEN {} ELSE {dotenv[i].val : i \in DOMAIN dotenv}

\* What a variable is worth to the user: the environment, or the last line of
\* the file that defines it, or nothing.
InEffect(k) ==
    LET defining == IF dotenv = NoFile THEN {}
                    ELSE {i \in DOMAIN dotenv : Defines(dotenv[i]) /\ dotenv[i].key = k}
    IN  IF k \in DOMAIN given /\ given[k] # Unset THEN given[k]
        ELSE IF defining = {} THEN Unset
        ELSE dotenv[CHOOSE i \in defining : \A j \in defining : j <= i].val

\* "The real environment wins ... and empty values are ignored so they can't mask
\* a key set elsewhere" (dotenv.go:8-10), "plus any key-gated engine whose
\* credential is set" (build.go:41-42), followed through to the server that is
\* wired: the composite holds the free engines and exactly those whose every
\* credential is in effect, each once, although the two halves of one engine's
\* credentials may come from different places; a named engine stands alone; and an
\* unknown one stops the start.  "In server (HTTP) mode web_research is capped ...
\* default 2" (SPEC.md:42-44): a server over HTTP has the cap it was given, the
\* default for a number that is none, and a start that names no transport, or
\* stdio, is over stdio without a cap.
WiringFollowsTheUser ==
    LET provider == IF InEffect("SEARCH_PROVIDER") = Unset THEN "roundrobin" ELSE InEffect("SEARCH_PROVIDER")
        ready == {Keyed[i].name : i \in
                     {j \in DOMAIN Keyed : \A k \in Keyed[j].needs : InEffect(k) # Unset}}
        engines == wired.engines
        transport == InEffect("MCP_TRANSPORT")
        number == InEffect("MAX_CONCURRENT_RESEARCH")
    IN  /\ stage = "failed" => provider \notin Names \cup {"roundrobin"}
        /\ stage = "serving" =>
            /\ provider = "roundrobin" => ToSet(engines) = {"ddg", "marginalia"} \cup ready
            /\ provider # "roundrobin" => engines = <<provider>> /\ provider \in Names
            /\ \A i, j \in DOMAIN engines : engines[i] = engines[j] => i = j
            /\ wired.over = "http" <=> transport \in {"http", "streamable-http"}
            /\ wired.over = "http" =>
                   wired.cap = IF number \notin DOMAIN Atoi THEN 2
                               ELSE IF Atoi[number] > 0 THEN Atoi[number] ELSE 0
            /\ transport \in {Unset, "stdio"} => wired.over = "stdio" /\ wired.cap = 0
=============================================================================
