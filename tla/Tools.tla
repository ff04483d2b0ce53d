------------------------------- MODULE Tools -------------------------------
(***************************************************************************)
(* internal/mcpserver: the three tools, from the exchange that decides a   *)
(* call to the reply the client reads.                                     *)
(*                                                                         *)
(* web_fetch is the fetcher's call, its content cut to max_tokens and its  *)
(* errors mapped to the codes of the contract.  web_search asks a provider *)
(* for results, web_research the pipeline for an answer; for both the      *)
(* model keeps what their errors are made of.  The handlers share nothing: *)
(* one call of one tool is modelled.  Server wires them and calls.         *)
(***************************************************************************)
EXTENDS Fetcher, Engines

CONSTANTS
    Limits,        \* max_tokens and max_results a client may send
    DefaultResults,\* max_results without one (10)
    Payloads       \* what an engine may send

ASSUME DefaultAssumption == DefaultResults \in Nat \ {0}
ASSUME LimitsAssumption == Limits \subseteq Int
ASSUME PayloadsAssumption == Payloads \subseteq Seq({"hit", "void", "snippet"})

VARIABLES
    tool,          \* the tool called
    limit,         \* its max_tokens or max_results
    mode,          \* its return_mode
    synthesis,     \* its synthesis
    defaultSynthesis, \* the researcher's, for a call that names none
    culprit,       \* history: who failed, or answered for nobody
    contacted,     \* history: has the model been sent anything
    payload,       \* history: what the engine returned
    reply          \* the JSON the client reads

request == <<tool, limit, mode, synthesis>>
wiring == <<fetcher, defaultSynthesis>>
calling == <<fetching, request, culprit, contacted, payload, reply>>

\* A parameter the client has left out.
Unset == ""

Codes == {"RATELIMITED", "SEARCH_UNAVAILABLE", "BLOCKED", "UNREACHABLE",
          "EMPTY_CONTENT", "TIMEOUT", "LLM_ERROR"}
Modes == {Unset, "answer", "sources", "both", "other"}
Syntheses == {Unset, "simple", "llm", "other"}

NoReply == [code |-> "none", retryable |-> FALSE, words |-> 0, truncated |-> FALSE,
            results |-> <<>>, parts |-> {}]
Success == [NoReply EXCEPT !.code = "OK"]
ErrMap(code, retryable) == [NoReply EXCEPT !.code = code, !.retryable = retryable]

ToolsIdle ==
    /\ FetcherIdle
    /\ tool = "none"
    /\ limit = 0
    /\ mode = Unset
    /\ synthesis = Unset
    /\ culprit = "nobody"
    /\ contacted = FALSE
    /\ payload = <<>>
    /\ reply = NoReply

Replying(r) == reply' = r /\ UNCHANGED request

-----------------------------------------------------------------------------
(* web_fetch.                                                              *)

\* An HTTPError is looked for before the Retryable that wraps it.
M_FetchCodeStatusFirst(err) ==
    IF "Timeout" \in err.found THEN "TIMEOUT"
    ELSE IF "HTTPError" \in err.found
         THEN IF err.status \in {401, 403, 451} THEN "BLOCKED" ELSE "UNREACHABLE"
    ELSE IF "Retryable" \in err.found THEN "RATELIMITED"
    ELSE IF "ErrEmpty" \in err.found THEN "EMPTY_CONTENT" ELSE "UNREACHABLE"

\* mapFetchError: the first match decides.
FetchCode(err) ==
    IF "Retryable" \in err.found THEN "RATELIMITED"
    ELSE IF "Timeout" \in err.found THEN "TIMEOUT"
    ELSE IF "HTTPError" \in err.found
         THEN IF err.status \in {401, 403, 451} THEN "BLOCKED" ELSE "UNREACHABLE"
    ELSE IF "ErrEmpty" \in err.found THEN "EMPTY_CONTENT" ELSE "UNREACHABLE"

\* Only a rate limit is worth another call.
M_WorthRetrying(code) == code = "RATELIMITED"

WorthRetrying(code) == code \in {"RATELIMITED", "TIMEOUT"}

\* The content is cut: there is a limit and it is passed.
Truncated(words) == limit > 0 /\ words > limit

CallFetch(n) ==
    /\ tool = "none"
    /\ tool' = "web_fetch"
    /\ limit' = n
    /\ Fetch
    /\ UNCHANGED <<mode, synthesis, culprit, contacted, payload, reply>>

\* Fetch has returned: doWebFetch maps the error or cuts the content.
ReplyFetch ==
    /\ tool = "web_fetch" /\ stage = "done" /\ reply = NoReply
    /\ LET err == outcome.err
           cut == Truncated(outcome.words)
       IN  \/ /\ err # NoError
              /\ Replying(ErrMap(FetchCode(err), WorthRetrying(FetchCode(err))))
              /\ culprit' = IF err = ErrEmpty THEN "page" ELSE "site"
           \/ /\ err = NoError
              /\ Replying([Success EXCEPT !.words = IF cut THEN limit ELSE outcome.words,
                                          !.truncated = cut])
              /\ UNCHANGED culprit
    /\ UNCHANGED <<fetcher, fetching, contacted, payload>>

-----------------------------------------------------------------------------
(* web_search and web_research.                                            *)

\* A body that is no JSON, under a status that is a success.
ParseError == Chain({}, 0)

\* Synthesize wraps the model's error by its text: only ErrLLM is in the chain.
ErrLLM == Chain({"ErrLLM"}, 0)

IsRateLimited(err) ==
    \/ "Retryable" \in err.found
    \/ "HTTPError" \in err.found /\ err.status \in {429, 503, 202}

SearchCode(err) == IF IsRateLimited(err) THEN "RATELIMITED" ELSE "SEARCH_UNAVAILABLE"

ResearchCode(err) == IF "ErrLLM" \in err.found THEN "LLM_ERROR" ELSE SearchCode(err)

\* doWebSearch: no limit, or a senseless one, means the default.
MaxResults(n) == IF n <= 0 THEN DefaultResults ELSE n

CallSearch(n) ==
    /\ tool = "none"
    /\ tool' = "web_search"
    /\ limit' = MaxResults(n)
    /\ UNCHANGED <<fetcher, fetching, mode, synthesis, culprit, contacted, payload, reply>>

CallResearch(m, s) ==
    /\ tool = "none"
    /\ tool' = "web_research"
    /\ mode' = IF m = Unset THEN "answer" ELSE m
    /\ synthesis' = s
    /\ UNCHANGED <<fetcher, fetching, limit, culprit, contacted, payload, reply>>

EngineErrors(err) == IF tool = "web_search" THEN SearchCode(err) ELSE ResearchCode(err)

\* provider.Search is under way.
Searching == tool \in {"web_search", "web_research"} /\ reply = NoReply /\ culprit = "nobody"

\* The search fails: no engine that was asked has answered, and the last one's
\* exchange ended so.
EngineFails(h) ==
    /\ Searching
    /\ heard' = h
    /\ culprit' = "engine"
    /\ Replying(ErrMap(EngineErrors(ErrorOf(h)), TRUE))
    /\ UNCHANGED <<fetcher, stage, static, rendered, outcome, contacted, payload>>

\* The same, but the last one's answer could not be parsed; anything can be parsed
\* as a page.
EngineGarbles(e) ==
    /\ Searching
    /\ e \notin Scraped
    /\ culprit' = "engine"
    /\ Replying(ErrMap(EngineErrors(ParseError), TRUE))
    /\ UNCHANGED <<fetcher, fetching, contacted, payload>>

\* The composite finds every breaker open and asks nobody: no results and no error,
\* which doWebSearch takes for a success and the pipeline for nothing to fetch.
BreakersOpen ==
    /\ Searching
    /\ culprit' = "breakers"
    /\ \/ tool = "web_search" /\ Replying(Success)
       \/ tool = "web_research" /\ UNCHANGED <<request, reply>>
    /\ UNCHANGED <<fetcher, fetching, contacted, payload>>

\* The search succeeds: an engine sends results, or one that was asked had none
\* and so had every other that answered.
EngineAnswers(e, p) ==
    /\ tool = "web_search" /\ Searching
    /\ ToSet(p) \subseteq Items(e)
    /\ payload' = p
    /\ Replying([Success EXCEPT !.results = ResultsOf(e, p, limit)])
    /\ UNCHANGED <<fetcher, fetching, culprit, contacted>>

\* The model is asked: main() always hands one to the researcher.
ByModel == (IF synthesis = Unset THEN defaultSynthesis ELSE synthesis) = "llm"

\* The model's exchange fails, a rate limit of its own included.
ModelFails(h) ==
    /\ tool = "web_research" /\ reply = NoReply
    /\ ByModel
    /\ heard' = h
    /\ culprit' = "model"
    /\ contacted' = TRUE
    /\ Replying(ErrMap(ResearchCode(ErrLLM), TRUE))
    /\ UNCHANGED <<fetcher, stage, static, rendered, outcome, payload>>

\* The pipeline returns its result; the mode selects what is shown of it.
ResearchEnds ==
    /\ tool = "web_research" /\ reply = NoReply
    /\ contacted' = ByModel
    /\ Replying([Success EXCEPT !.parts =
                    (IF mode \in {"answer", "both"} THEN {"answer"} ELSE {}) \cup
                    (IF mode \in {"sources", "both"} THEN {"sources"} ELSE {})])
    /\ UNCHANGED <<fetcher, fetching, culprit, payload>>

-----------------------------------------------------------------------------
Fetching == FetchStep /\ UNCHANGED <<request, culprit, contacted, payload, reply>>

Call ==
    \/ \E n \in Limits : CallFetch(n) \/ CallSearch(n)
    \/ \E m \in Modes, s \in Syntheses : CallResearch(m, s)

\* A call goes on, on a server that searches with one of these engines, or with a
\* composite of them.
Work(engines, composite) ==
    \/ Fetching
    \/ ReplyFetch
    \/ \E h \in Failures : EngineFails(h) \/ ModelFails(h)
    \/ composite /\ BreakersOpen
    \/ \E e \in engines : EngineGarbles(e) \/ \E p \in Payloads : EngineAnswers(e, p)
    \/ ResearchEnds

Results == [rank: Nat, place: Nat, snippet: Nat]

ToolsTypeOK ==
    /\ FetcherTypeOK
    /\ tool \in {"none", "web_fetch", "web_search", "web_research"}
    /\ limit \in Int
    /\ mode \in Modes /\ synthesis \in Syntheses /\ contacted \in BOOLEAN
    /\ culprit \in {"nobody", "site", "page", "engine", "breakers", "model"}
    /\ payload \in Payloads \cup {<<>>}
    /\ reply \in [code: Codes \cup {"none", "OK"}, retryable: BOOLEAN, words: Nat,
                  truncated: BOOLEAN, results: Seq(Results), parts: SUBSET {"answer", "sources"}]

-----------------------------------------------------------------------------
(* What the tools promise.                                                 *)

Transient == heard.status \in RetryableStatuses

\* The taxonomy of specs/SPEC.md:12-33 from end to end: the code a client reads
\* names what happened on the wire, through the classification of the HTTP
\* client, the wrapping of the retry loop, the fallbacks of the fetcher and the
\* order in which the handlers look into an error.  A rate limit is 429, 503 or
\* DuckDuckGo's 202 (server.go:200): each is reported as one, and nothing is that
\* is not worth a retry; and what was heard as a failure is no success, open
\* breakers apart, where nothing was heard (EmptyMeansAnswered of RoundRobin).
CodeNamesCause ==
    reply # NoReply =>
        /\ reply.code = "OK" <=> culprit \in {"nobody", "breakers"}
        /\ culprit \in {"site", "engine"} /\ heard.status \in {202, 429, 503} =>
               reply.code = "RATELIMITED"
        /\ reply.code = "RATELIMITED" => culprit \in {"site", "engine"} /\ Transient
        /\ reply.code = "BLOCKED" <=> culprit = "site" /\ heard.status \in {401, 403, 451}
        /\ reply.code = "TIMEOUT" <=> culprit = "site" /\ heard.broke = "timeout"
        /\ reply.code = "EMPTY_CONTENT" <=>
               tool = "web_fetch" /\ static = Empty /\ rendered <= Empty
        /\ reply.code = "LLM_ERROR" <=> culprit = "model"

\* "retryable" tells a client whether to come back (specs/SPEC.md:5): a status
\* that is worth a retry and a timeout are never given as final, and for nothing
\* else does web_fetch send a client back: not to a site that has refused or has
\* nothing, nor to one it could not connect to, which is UNREACHABLE.
RetryAdvice ==
    reply.code \in Codes =>
        /\ Transient \/ heard.broke = "timeout" => reply.retryable
        /\ tool = "web_fetch" /\ reply.retryable => Transient \/ heard.broke = "timeout"

\* web_search returns a ranked list (specs/SPEC.md:7-10) of what the engine sent:
\* ranks without gaps, in the engine's order, nothing without a url, nothing
\* usable left out below the limit.  A snippet stands between the link of its
\* result and the next link, and is not lost there, unless a link that was left
\* out brought a snippet too: of such a result nothing is said.
RankingIsGapless ==
    tool = "web_search" /\ reply.code = "OK" =>
        LET rs == reply.results
            \* From the link of a result up to the next one of these.
            upTo(links, k) == {i \in rs[k].place .. Len(payload) :
                                 \A j \in rs[k].place + 1 .. i : payload[j] \notin links}
            own(k) == upTo({"hit", "void"}, k)
            astray(k) == upTo({"hit"}, k) \ own(k)
        IN  /\ \A k \in DOMAIN rs :
                 /\ rs[k].rank = k /\ payload[rs[k].place] = "hit"
                 /\ (\A i \in astray(k) : payload[i] # "snippet") =>
                        /\ rs[k].snippet # NoSnippet => rs[k].snippet \in own(k)
                        /\ rs[k].snippet = NoSnippet => \A i \in own(k) : payload[i] # "snippet"
            /\ \A j, k \in DOMAIN rs : j < k => rs[j].place < rs[k].place
            /\ Len(rs) <= limit
            /\ Len(rs) < limit =>
                   \A i \in DOMAIN payload : payload[i] = "hit" => \E k \in DOMAIN rs : rs[k].place = i
=============================================================================
