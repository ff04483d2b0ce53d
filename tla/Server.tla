------------------------------- MODULE Server -------------------------------
(***************************************************************************)
(* cmd/myscrape: the process, from its start to the reply to a call.       *)
(*                                                                         *)
(* Startup decides what is wired; the wiring sets the fetcher's renderer   *)
(* and threshold and the researcher's default synthesis; and a server that *)
(* serves passes calls to Tools.                                           *)
(***************************************************************************)
EXTENDS Tools

CONSTANTS Environments, Files, NoFile, Atoi

VARIABLES
    given, dotenv, environ, settings, wired,
    main          \* the stage main() has reached

starting == <<given, dotenv, environ, settings, wired, main>>
vars == <<starting, wiring, calling>>

Start == INSTANCE Startup WITH stage <- main

\* A file is a sequence of lines.
ASSUME FilesAssumption ==
    \A f \in Files \ {NoFile} : f \in Seq([shape: STRING, key: STRING, val: STRING])

\* Any number can be set as the threshold.
ASSUME AtoiAssumption ==
    /\ \A text \in DOMAIN Atoi : Atoi[text] \in Thresholds
    /\ 50 \in Thresholds /\ Thresholds \subseteq Int

Init ==
    /\ Start!Init
    /\ renderer = FALSE /\ threshold = 0
    /\ defaultSynthesis = "simple"
    /\ ToolsIdle

\* main() gets as far as its settings.
Configure ==
    /\ Start!LoadDotEnv \/ Start!FromEnv
    /\ UNCHANGED <<wiring, calling>>

\* Without a browser the fetcher is made by NewFetcher: no renderer, and a
\* threshold of 0.
Wire ==
    /\ Start!Build
    /\ IF main' = "serving"
       THEN /\ renderer' = settings.dynamic
            /\ threshold' = IF settings.dynamic THEN settings.threshold ELSE 0
            /\ defaultSynthesis' = settings.synthesis
       ELSE UNCHANGED wiring
    /\ UNCHANGED calling

Serve ==
    /\ main = "serving"
    /\ Call \/ Work(ToSet(wired.engines), settings.provider = "roundrobin")
    /\ UNCHANGED <<starting, defaultSynthesis>>

Next == Configure \/ Wire \/ Serve

Spec == Init /\ [][Next]_vars

TypeOK ==
    /\ ToolsTypeOK
    /\ given \in Environments /\ dotenv \in Files
    /\ main \in {"loading", "reading", "building", "serving", "failed"}
    /\ ToSet(wired.engines) \subseteq Start!Names /\ wired.cap \in Nat
    /\ wired.over \in {"nothing", "stdio", "http"}
    /\ settings.credentials \in [Start!Credentials -> {"public"} \cup Start!Texts]
    /\ defaultSynthesis \in {"simple"} \cup Start!Texts

\* What Startup promises of engines, transport and cap, and of a server that
\* serves besides: the synthesis a call gets that names none is the one in effect,
\* "simple" by default (SPEC.md:26-27); and thin pages go to a browser unless that
\* is switched off, thin being what the threshold in effect says, 50 words by default.
WiringFollowsTheUser ==
    LET synthesisInEffect == Start!InEffect("RESEARCH_SYNTHESIS")
        thin == Start!InEffect("DYNAMIC_THRESHOLD")
    IN  /\ Start!WiringFollowsTheUser
        /\ main = "serving" =>
            /\ defaultSynthesis = IF synthesisInEffect = Unset THEN "simple" ELSE synthesisInEffect
            /\ renderer <=> Start!InEffect("DYNAMIC_ENABLED") \notin {"0", "false", "no", "off"}
            /\ renderer => threshold = IF thin \in DOMAIN Atoi THEN Atoi[thin] ELSE 50

\* "Cap concurrent research only in server (HTTP) mode; stdio is single-user"
\* (main.go:52), "stdio is single-user/unbounded" (SPEC.md:44).
OnlyServersAreCapped == main = "serving" /\ wired.over = "stdio" => wired.cap = 0

\* "In the default simple mode it's never touched (no LLM/GPU contact)"
\* (main.go:47-48): a call reaches the model only if it asks for it itself, or
\* names no mode and the user has chosen llm for the server, in the environment
\* or in the last line of .env that is not overridden there.
ModelOnlyWhenAsked ==
    contacted =>
        \/ synthesis = "llm"
        \/ synthesis = Unset /\ Start!InEffect("RESEARCH_SYNTHESIS") = "llm"
=============================================================================
