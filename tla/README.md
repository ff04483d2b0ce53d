# myscrape in TLA+

A verification development of myscrape, the Go MCP server with three tools:
`web_search`, `web_fetch` and `web_research`. The modules here are translated
from the Go source (paths below are relative to `src/`), TLC checks small
instances of them, and TLAPS proves for every value of the constants what the
passing runs check on small ones: every invariant, action property and refinement
is the statement of a theorem, and only the liveness properties are not.
`PROJECT.json` maps each definition to the lines it models.

## The system

| component | state | operations | talks to |
|---|---|---|---|
| limiter, `internal/ratelimit` | `nextAllowed` per host, under a mutex | `Acquire` (reserve under the lock, sleep outside it) | clock, sleeper |
| cache, `internal/cache` | `items` with expiry, under a mutex | `Get` (evicts an expired entry), `Set` | clock |
| retry, `internal/retry` | none (locals of the loop) | `Do`, `backoff` | `fn`, sleeper |
| HTTP client, `internal/httpx` | none of its own: cache + limiter + retry options | `Get`, `PostJSON` -> `send` | the three above, `net/http` |
| engine composite, `internal/search/roundrobin.go` | `cursor`, `cooledUntil`, under a mutex | `Search` (`nextOrder`, `isCooled`, `cool`) | engines, clock |
| engine adapters, `internal/search/*.go` | none | `Search`: one HTTP call, one parse | HTTP client |
| fetcher, `internal/fetch` | none | `Fetch`: GET, extract, maybe render and extract again | HTTP client, headless Chrome |
| research pipeline, `internal/research` | semaphore | `Research`: search, concurrent fetches, chunk, rank, synthesize | search, fetcher, LLM |
| LLM client, `internal/llm` | none | `Complete`: one POST | its own `http.Client` |
| MCP server, `internal/mcpserver` | none | three handlers, error taxonomy | search, fetcher, pipeline |
| configuration, `internal/config` | the environment, while the process starts | `LoadDotEnv`, `FromEnv` | `.env` |
| wiring, `cmd/myscrape`, `search.Build` | none | one start | everything |
| benchmark, `cmd/bench` | counters | drives live engines | search |

Requests arrive concurrently (streamable HTTP) and each runs in goroutines of
its own; one `httpx.Client`, one `RoundRobin` and one `WebResearcher` are shared
by all of them. The shared mutable state is therefore small: `nextAllowed`,
`items`, `cursor`, `cooledUntil` and the semaphore. Each is guarded by a mutex
for the length of one helper call only, and what is hard is what happens
between two such calls:

* a limiter slot is reserved under the lock and waited for outside it, and
  sleepers may wake late and together;
* the cache is read before and written after a network exchange;
* a breaker is read, the engine is called, and the breaker is written, in three
  critical sections, while other searches do the same; the call in between runs
  through cache, limiter and retry loop and may outlast a cooldown;
* the retry loop, the limiter and the cache share one clock and none of the
  sleeps looks at the context, nor does the walk over the engines;
* fetches write into a shared slice up to a barrier, and every way out of a
  research call must give its slot back;
* passages, numbering, citations, titles and confidence are derived from pages and
  urls through five transformations, any of which may see duplicates and gaps;
* the start resolves each setting through three levels, whose effects meet only in
  what is wired.

`PROJECT.json` lists each hazard at its line, with the properties that cover it
or the reason why none does.

## Modules

    Limiter -> LimiterGrants -> MCLimiter              Synthesis -> Research -> MCResearch
       |             \-> LimiterProofs                                  \-> ResearchProofs
       |
    HttpClient (Retry, TTLCache, HttpErrors) -> MCHttpClient
       |             \-> HttpClientProofs
       |
    SearchStack <- RoundRobin -> MCRoundRobin
       |               \-> RoundRobinProofs -> FailoverProofs
       |-> MCSearchStack                              |
       \-> SearchStackProofs <------------------------/

    HttpErrors -> Fetcher -> Tools <- Engines
                               |
    Startup ----------------> Server -> MCServer
                                 \-> ServerProofs

    FoldingProofs: instantiated by ResearchProofs and ServerProofs, once per loop

**Limiter** models `ratelimit.go`. `Reserve(c, h)` is the half of `Acquire`
under the lock, `Return(s)` the end of the sleep. A sleeper may return at any
time from its slot on. `LimiterSpec` is the limiter under a clock that may
advance at any moment: it serves as the abstract specification of the pacing
part of the HTTP client. **LimiterGrants** adds history variables (the slots
handed out, whose turn each sleeper holds, which turns are spent), which the
limiter's promises are stated with; they are in a module of their own so that
the client composes the limiter without them.

**TTLCache** models `cache.go`: `Get` is `Hit` or `Miss` (which deletes an expired
entry), `Set` overwrites. **Retry** models the decisions of `retry.go`: which
attempt is the last one, and the set of waits `backoff` may return, with the left
shift as a `WordBits`-wide two's-complement operation. **HttpErrors** is what the
HTTP client says of an outcome: the classification of a status, and the error
chain in which `errors.As` and `errors.Is` look further up. **HttpClient** models
`send()` and composes them: `StartHit`/`StartMiss` (the cache lookup),
`Reserve` (the retry loop's sleep is over, `Acquire` takes its lock), `Send`
(`Acquire` returns, `hc.Do` starts or fails at once under a cancelled context),
`Redirect` (net/http follows a redirect inside the same `hc.Do`), `Answer` (the
outcome is classified and heard by the loop; after a redirect it may come from any
host, `Answerers`), `Store` (`cache.Set`, return), and `Cancel` by the environment. A response body is known by the request it answers
and its status, which is what "the right body" means.

**RoundRobin** models `roundrobin.go`. The rotation is taken in one step
(`Begin`), each engine is checked (`Skip` or `Admit`), called (`AnswerFound`,
`AnswerEmpty`, `AnswerFatal`, `AnswerTransient`) and, after a rate limit, cooled
in a further step (`Cool`), because `isCooled`, the call and `cool` are three
critical sections. Engines are an environment that answers anything. `OpenSpec` is
the composite under a clock that may advance at any moment: the abstract
specification of a web search.

**SearchStack** puts RoundRobin over HttpClient on one clock: an engine call is its
adapter's one call of the client (`Ask`, then `Exchange`, then `Hear`, which hands
up the error chain or what parsing made of the body), and the ctx of a search is
handed down to every call of its walk (`Cancel`). `Composite`, that the stack
implements `RoundRobin!OpenSpec`, replaces RoundRobin's free engines by the real
client; the other properties speak of both layers at once: what an engine's *host*
sees while its breaker is open, and what the *client* heard when a breaker opens.

**Synthesis** models `ChunkText` on the lengths of paragraphs and the two
synthesizers as functions from ranked passages to markers, citations and coverage;
**Research** models the pipeline with its semaphore (a Go channel: a freed slot
goes to the longest waiting sender), its fetch goroutines and barrier, and both
synthesis modes with every error path. Ranking is abstracted to "the best k
passages in some order, each at most once": the model takes every such order.

**Startup** models the start: `LoadDotEnv` (what is unset or empty in the environment
is filled from the last line of `.env` that defines it), `FromEnv` (text, number and
flag with their defaults) and `Build` (the provider or the composite with the engines
whose credentials are complete, the cap, and the transport that is served over, which the
code decides by two different comparisons of one text). **Fetcher** models `fetch.go`:
`GetFails`, `GetPage` (extract, then return or ask the browser) and `Render`, content
being known by its number of words. **Engines** is what an adapter makes of a payload:
filter, rank, cap, and for DuckDuckGo's page the snippets that follow their links.
**Tools** models the handlers of `server.go` on top of both: `CallFetch` and
`ReplyFetch` around the fetcher; for what a search by the provider comes to,
`EngineFails` and `EngineGarbles` (nobody answered, and this was the last error),
`EngineAnswers`, and `BreakersOpen` (the composite asked nobody and returns neither
results nor an error); `ModelFails` and `ResearchEnds` for the pipeline.
**Server** composes Startup and Tools: `Wire` sets the fetcher's renderer and
threshold, the default synthesis and the engines from the settings, and only a
server that serves takes a call. The handlers share nothing, so one call is enough.

## Model checking

| run | instance | shows |
|---|---|---|
| `limiter` | 3 callers, 2 hosts, interval 2, two jitter values, 3 + 1 reservations | slots spaced, rate bounded over every window, no backlog without callers, everybody returns |
| `http` | 2 calls of one request, 3 attempts, statuses 200/202/404, Retry-After -1, 3 or none, cancellation | retry discipline, pacing, backoff, cancellation, termination, and the client implements `LimiterSpec` |
| `http_cache` | 3 calls, 3 requests (two that differ in headers only), redirects | bodies match requests, hits are justified and no request is wasted, while entries expire and are overwritten between other calls' steps |
| `http_redirect` | 1 call, 1 redirect | *violated*: a redirected request is not paced |
| `http_no_attempts` | 1 call, 0 attempts | *violated*: success without any attempt |
| `roundrobin` | 2 concurrent searches, 3 queries, 2 engines, cooldown 2 | rotation fair, breaker respected and holding, complete failover, errors only if nobody answered |
| `search_stack` | 2 concurrent searches, 2 engines on hosts of their own, 2 attempts, cooldown 2, one search cancelled | the stack implements RoundRobin; a cooled engine's host is left alone; only spent rate limits cool; every search returns |
| `all_cooled` | 1 search at a time, 2 queries | *violated*: all engines cooled looks like an empty answer |
| `research` | 3 small calls on 2 slots, where anything may fail; and one larger call alone: up to 3 results (a url twice), pages of 1 to 3 passages or dropped, 2 efforts, both modes, markers 0 to 4 | slots accounted, termination, no page lost, provenance, confidence, an answer whatever was dropped, and packing loses nothing |
| `markers` | 1 call, llm mode, markers 0 to 4 | *violated*: an out-of-range marker stays in the answer |
| `server` | 20 environments x 47 `.env` files, then one call of each tool: 8 statuses, pages up to 3 words, payloads up to 4 items, breakers open | wiring follows the user, the model only when asked, best content returned, codes and advice name the cause, gapless ranks |
| `stdio_cap` | the same | *violated*: a server over stdio caps its research calls |

**Bounds.** `MaxGrants` bounds the reservations of a host, `MaxSearches` the
queries, `LastArrival` the time at which a query of the stack may begin; each call
of the client and of the pipeline runs once per id. No constraint truncates the
clock: `Tick` is enabled only while some deadline is ahead of it, and with none
ahead a later clock changes no guard, so the state spaces are finite and
complete for the bounded work. The limiter's bound lets a queue grow to depth
two, drain, fall idle and restart. In `http` the interval (1), the jitter (0:
below 1), the backoff (1, then 2, its cap), the TTL (2) and Retry-After -1 or 3
(past the cap) put a retry before, at and after its pacing slot; three attempts
give a first, a middle and a last one. `http_cache` trades the attempts (1) for a
third call, so that an entry is written, overwritten and expired between the steps
of others. Three queries over two engines wrap the rotation and meet a breaker
closed, open and elapsed. In `search_stack` engine 0 only rate-limits and engine 1
only answers (either exchange may fail, and any body may not parse): with two
searches that is one that opens the breaker while the other is anywhere between its
check and its last retry. Its base backoff is 0, so that waits come from pacing
alone, and its clock moves only while every search waits: the steps between two
waits take no time there, which the runs of the parts do not assume. In `research` three calls on two
slots give a queue, for which calls of one result and one page do (`Small`); what
becomes of many pages is a matter of one call, so one reader may have three results,
a url among them twice, and three kept passages while the others are idle: every
relation between results, passages and sources the code distinguishes. `MCFairness`
names the calls that run instead of asking TLC for `ENABLED`; the two say the same,
since a call can take a step exactly while it runs. Passages of three words meet paragraphs that fill them, overfill them, or are too
long alone, first and last. In `server` the word threshold is the code's default, below, among or above the page
lengths, or negative (`MCThresholds`); a variable is absent, empty or set; a setting is in the
environment, in the file, in both or in neither, and a file repeats, empties and
comments out its lines in either order.
Symmetry is used in `http_cache` and `roundrobin` only, which check no liveness
and whose identifiers are interchangeable.

**What two properties do not say.** `PacerSpec` shows that each step of the client is one
the limiter may take; the promises of `LimiterGrants`, which are stated with its history
variables, are not carried over by it. What is promised of the requests themselves is
`RequestsPaced`, which counts from the start of the clock and is weaker than the bound
over every window that `RateBound` gives for the limiter. `CodeNamesCause` leaves a 500,
502 or 504 open: a rate limit for a site the retry loop gave up on, by the code, and
`UNREACHABLE` by one of its tests (see the end).

**Deadlock** checking is off everywhere: a client, a composite or a pipeline whose
bounded work is done rightly has nothing to do. That nobody gets stuck before
that is what the liveness properties say.

**Fairness.** `WF` of `Tick`: time passes. `WF` of each goroutine's own next step:
the Go scheduler runs it, a sleep ends, a mutex held for a few instructions is
released. `WF` of `Answer`: `http.Client.Timeout` bounds each exchange (20 s by
default; a timeout of 0, which configuration admits, would void this), and the
same justifies the fetches' and the model's answers elsewhere. RoundRobin assumes
fairness for its engine calls; `EverySearchReturns` of the stack rests on no such
assumption, but on the weakest one there is: as long as a tick or a step of some
search is possible, one of them happens. Nothing is assumed of redirects,
cancellation or new calls, and no strong fairness is needed: the semaphore's waiters
are served first come first served by the channel itself.

**What the violated runs say.** (1) `client.go:5` promises pacing before every
request; a redirect is followed inside `hc.Do` and is not paced. (2) `retry.go:34`
promises nil "on success"; with zero attempts `Do` returns nil without having
called `fn`, and `send` caches the empty body. (3) `roundrobin.go:62-64` means
`(nil, nil)` for "an engine answered, just with nothing" and an error for "every
engine errored or was cooled"; when all are cooled `lastErr` is nil too. (4)
`specs/SPEC.md:36-38` promises that markers resolve and that out-of-range ones are
dropped; they are dropped from the citations and stay in the text. (5) `main.go:52`,
`specs/SPEC.md:44` and `pipeline.go:45` keep the cap to server mode and call stdio
unbounded; `main.go:54` lifts it only for the text `stdio`, while `main.go:65-77` serves
every text over stdio that is not `http` or `streamable-http`. The line of
`.env.example:23`, whose comment stays in the value, is such a text.

## Proofs

**LimiterProofs**, for any callers, hosts, interval, jitter and bound:

* `TypeCorrect` - the type invariant, inductive as it stands.
* `SlotsAreSpaced` - needs the strengthening `Spaced`: not only are the slots of a
  host an interval apart, `nextAllowed` lies an interval past the last of them,
  which is what the next reservation builds on.
* `RateIsBounded` - the bound over every window follows from spacing and from
  `OneWaitEach` (a caller waits in one place) and `Kept` (a sleeper's turn names
  the slot it waits for, a spent turn's slot has come): k spent turns from turn
  i on reach turn i + k - 1 (`CountReaches`), whose slot is k - 1 intervals
  later and has come.
* `BacklogIsReal` - `NoPhantomBacklog` speaks of the clock's present; it is not
  inductive, because a tick removes sleepers from the count. `Backlog` asks the
  same of every instant x from the clock on (sleepers due after x), which a
  reservation extends by one target and one sleeper and a tick only restricts.
* `HistoryOnlyRecords` - `LimiterGrants`' `Spec` implements `LimiterSpec`.

They assume `IntervalAssumption` (interval and jitter are naturals) and
`BoundAssumption`.

**HttpClientProofs**, for any calls, requests, hosts, statuses, waits and TTL. All
speak of `OpenSpec`, the client under a clock that may advance at any moment, so that
they hold of any system it is a part of; `ClosedIsOpen` takes them to `Spec`, which
the runs check.

* `TypeCorrect`, `RetryIsDisciplined`, `BodiesMatch` - from one invariant, `Accounts`:
  where a call stands in the loop tells what it has heard so far. It is inductive
  together with `Brought`: every entry of the cache was brought from the network by a
  call of its key, and expires a TTL after, so that a hit serves what some call
  accounts for.
* `HitsAreJustified` and `CacheIsNotWasted` - two directions: `Brought`, and `Kept`
  (what a call brought stays for a TTL, overwritten only by what is younger).
* `CancelStops`, an action property, and `ClientIsPaced`, the refinement of
  `LimiterSpec`: both by one step per action.
* `BackoffIsHonored` - `Due`: between two attempts a call wakes no earlier than it
  owes the server; it rests on `WaitsAreLongEnough` (a cap and a jitter never shorten
  the wait that was promised).
* `RequestsArePaced` - `RequestsPaced` counts requests and says nothing of the calls
  asleep in the limiter. `Rate` counts those in, for every instant from now on, and
  puts the next slot an interval past all of them; `Whose` ties each sleeper to the
  one call that will send for it.

They assume `ClientAssumption` and `EntryAssumption`, which TLC evaluates, and that
`Attempts` is at least 1: with none the client breaks its promise, which is what
`http_no_attempts` shows. `BackoffIsHonored` assumes `NoOverflow` besides, that
`Base << attempt` loses no bits for the attempts configured; beyond it the code may
wait for less than the promise (`retry.go:59`).

**RoundRobinProofs** and **FailoverProofs**, for any number of engines and concurrent
searches, any cooldown and any errors. All speak of `OpenSpec`, so that they hold of
any system the composite is a part of; `ClosedIsOpen` takes them to `Spec`, which
the run checks.

* `TypeCorrect` - the type invariant; `ContinueKeepsTypes` says it once for the
  four ways of leaving an engine. It bounds `pos` by the rotation, so a walk never
  runs past it.
* `RotationIsFair` - comparing two engines' counts says nothing of whose turn it
  is. `Rotating` does: every engine behind the cursor has begun one rotation more
  than every engine from the cursor on, and the cursor's wrap starts a new round.
* `BreakerIsRespected` - a call that overlaps a cooldown is harmless when it was let
  through before; for that the moment it was let through must lie in the past
  (`SincePast`), and either the breaker was closed and still is as it was, or it
  has been opened since, for a whole cooldown (`LetThrough`). `OnlyCoolOpens` and
  `CallUnderWay` say which steps matter.
* `BreakerAlwaysHolds` - an action property: a search is let through to an engine
  only when a whole cooldown has passed since any limit acted upon. `Covered` keeps
  those limits in the past and their cooldowns inside the breaker's; a late
  `cool` may only lengthen it, since `SincePast`.
* `FailoverIsComplete` and `ErrorMeansNoAnswer` - both hold at the end of a walk and
  need to know its middle. `Walks` gives every engine its turn counted from the start
  of the rotation: those before `pos` have been dealt with without results, those
  after it are untried, and the two locals agree with what was met. `Places` says
  that turns and engines correspond one to one, although the rotation wraps.

They assume `EnginesAssumption` (`buildRoundRobin` keeps at least one engine) and
`CooldownAssumption`; the set of searches and the bound on queries are arbitrary.

**SearchStackProofs**, for any number of searches and engines and any timing:

* `StackIsComposite` - the refinement of RoundRobin, one step of the stack at a time
  (`ExchangesStandApart`: what the client does leaves the composite alone;
  `HearingIsAnAnswer`: what an adapter hands up is one of the answers RoundRobin
  allows). `StackKeepsPromises` carries the composite's theorems over through it.
* `StackIsClient` - the refinement in the other direction: every step of the stack is a
  step of the HTTP client or leaves it alone. It needs `Driven`: a call runs only while
  its search is calling that engine. `StackKeepsClientPromises` carries the client's
  theorems over.
* `OnlyRateLimitsOpenBreakers` - needs both layers. `Limited` says that a search whose
  `cool()` comes next holds a rate limit its call returned; `RetryDiscipline` of the
  client says what such a call has been through.
* `CooledEngineIsLeftAlone` - a request leaves only while its search is calling
  (`Driven`), and a search that is calling was let through before the cooldown
  (`BreakerRespected` of the composite).

Assumed are `StackAssumption` and `ExchangeAssumption`, and `Attempts` at least 1 where
the client needs it.

**FoldingProofs** holds lemmas for the two modules that follow. The loops of the start,
the engines and the pipeline are left folds, and `FoldLeft` is a choice of a function
over sets of places. `FoldIsALoop` shows that such a function exists, for any step, base
and sequence, and gives the states of the loop one by one; `FoldGrows` says what one item
more does. Both are instantiated with each loop's own body. Inductions over such states
are made with a set of numbers that holds 0 and, with a number, the next
(`InductionOnASet`, from the well-ordering of the naturals), since the library's
induction theorems cannot be instantiated here.

**ServerProofs**, for any environment, any `.env`, any threshold, any status and any
payload:

* `WiringFollows` - `Started` says what the settings are at each stage of `main`, in
  terms of `InEffect`, which is what the user meant: `ParsedKeepsTheLatest` (parsing
  yields the last definition of each variable, whatever the number of lines),
  `LoadingSettles` (what is in the environment already is not overwritten) and
  `ComposedIsReady` (the engines are the two free ones and those with complete
  credentials, each once). `Built` adds the transport and the cap, the default synthesis
  and the browser. The cap of a server over stdio is proved for the texts that mean
  stdio; under any other it is what `stdio_cap` refutes.
* `ModelIsAskedFor` - from the same invariant and `Called`, what is known of a call at
  each of its stages.
* `BestContentIsReturned` - `Fetched`: at each stage of a fetch, which contents it holds
  and why it has gone on. It holds for any threshold, a negative one included.
* `CodesNameTheirCause` and `RetriesAreAdvised` - together (`Explained`) inductive over
  `Fetched` and `Called`: a reply with a code comes from the failure that is blamed,
  through a chain of errors in which a `Retryable` is found before the status it hides
  (`WhatAFailureShows`), and a reply without one from a call that nothing went wrong in,
  or from open breakers. A 202, 429 or 503 is reported as a rate limit.
* `RankingHasNoGaps` - `Listed` holds of the output after each item of a payload:
  ranks run from 1 without gaps, and every result stands for one item of the payload,
  in its order, with a snippet that follows its link (`Attributed`, unless a link that was left out has
  brought one in between). Filters drop items, and the cap cuts the end.
* `TypeCorrect`, from all of them.

Assumed are `FilesAssumption` (a file is a sequence of lines), `AtoiAssumption`
(`strconv.Atoi` yields a number that can be a threshold), `LimitsAssumption`,
`PayloadsAssumption`, `DefaultAssumption` and `WordsAssumption` (the types of what a
call meets).

**ResearchProofs**, for any number of callers, any cap, levels, results and pages, and
any ranking and any use the model makes of its passages:

* `SlotsAreAccounted` - `Slots`: a call waits once and at one place of the queue, the
  queue holds exactly the queued calls, and nobody queues without a cap; one lemma for
  the end of a call, whatever it returns (`FinishKeepsSlots`).
* `PagesAreNotLost` - `Barrier`: no call is past its fetches while one may still write
  into its pages, which needs that there are no pages before the search is over. From
  there on, `ConcatHoldsItsParts` (each page hands its passages on under its own url),
  `RankingIsComplete` (a ranking of no more passages than are kept holds them all, by
  counting) and the sources an extractive answer is made of.
* `PagesAreKept` - `ChunksKeepThePage`: `PackedWell` holds of `ChunkText`'s loop after
  every paragraph. What was flushed and what is still being packed are together the
  paragraphs read so far; each passage is within the limit or a single paragraph; and
  the first paragraph of the next would not have fitted in.
* `CitationsAreBacked` - `Answered`: the result of a finished call is one its own pages
  can yield. `ConcatIsOfItsParts` follows each passage to the page it was cut from,
  `SourcesAreDistinct` the sources to the cited urls, each once.
* `CoverageIsEarned` - the sources are distinct urls that were fetched
  (`CitationsAreBacked`), so there are no more of them than fetched urls.
* `SourcesAreDroppedNotFatal` and `TypeCorrect` - from the same invariants.

They assume that the callers are finitely many, `CapAssumption`, `LevelsAssumption`
(`standard` is a level; its two numbers are naturals), `ResultsAssumption` (a search
returns a sequence of results with a url and a title), `PagesAssumption` (a page is the
lengths of its paragraphs; one without a word is a failed extraction) and
`PendingAssumption`.

**Model-checked only.** `EveryAcquireReturns`, `EveryCallReturns`, `EverySearchReturns`
and `EveryResearchReturns`: liveness under fairness, which needs ENABLED and is outside
this prover's temporal backend. The five violated statements are TLC's too: a
counterexample needs no proof.

## Not modelled, and observed

Left to do: the backoff's overflow as a run of its own (nothing in the repository
promises a bound on attempts).

Observed while modelling, and not stated as violations:

* A status the retry loop gave up on is `RATELIMITED` for every tool, a 500, 502 or 504
  included, because the `Retryable` in the chain is looked for first.
  `server_test.go:87` maps a bare `HTTPError{500}` to `UNREACHABLE`; behind the HTTP
  client `web_fetch` never meets one. No property takes either side.
* A search that finds every breaker open is answered as a success with no results, and a
  research call as one that found nothing (`BreakersOpen`); `all_cooled` shows where
  that begins.
* An inline comment in `.env` stays in the value, and a number with one silently
  becomes the default.
* `parseDDG` gives the snippet of a link that was left out to the result before it,
  where it overwrites that result's own (`ddg.go:54-55`). Nothing in the repository says
  whose it should be; the model does what the code does, and `RankingIsGapless` says
  nothing of that result.
* The benchmark counts the searches whose final error is a rate limit; a limit the
  composite fails over from is not in its rate.

Left out for good: HTML extraction, markdown rendering, headless Chrome, JSON
encoding, the adapters' endpoints and field names (pure functions over third-party
formats, or external processes), prompt and answer wording, the listener and the
transport of the MCP library, the benchmark driver (a sequential driver of live
engines), CI and container files. BM25 scores are floating point; the model takes
every ranking instead. The limiter's `float64` jitter is any integer below
`JitterMax`.
