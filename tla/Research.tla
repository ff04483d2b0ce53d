------------------------------ MODULE Research ------------------------------
(***************************************************************************)
(* internal/research/pipeline.go: web_research.                            *)
(*                                                                         *)
(* A call takes a slot of the semaphore (server mode), searches, fetches   *)
(* every result in a goroutine of its own, waits for all of them, chunks   *)
(* and ranks what came back, has it synthesized, by the model or           *)
(* extractively, and attaches titles.  The slot is given back by a defer,  *)
(* on every way out.                                                       *)
(*                                                                         *)
(* phase[c]   idle       Research has not been called                      *)
(*            queued     blocked in sem <- struct{}{}                      *)
(*            searching  inside search.Search                              *)
(*            fetching   in wg.Wait, its fetches under way                 *)
(*            writing    inside llm.Synthesize                             *)
(*            done       Research has returned result[c]                   *)
(*                                                                         *)
(* A page is known by the lengths of its paragraphs, a search result by    *)
(* its [url, title].                                                       *)
(***************************************************************************)
EXTENDS Synthesis, FiniteSets, Functions

CONSTANTS
    Callers,       \* concurrent calls of Research
    Cap,           \* maxConcurrent; 0: no semaphore
    SearchResults, \* the sequences of results Search may return
    Levels,        \* effortLevels: effort -> <<sources, passages>>
    Efforts,       \* efforts a caller may name, known or not
    Modes,         \* synthesis a caller may name
    DefaultMode,   \* defaultSynthesis
    LLMConfigured, \* w.llm # nil
    Pages,         \* pages a fetch may bring
    PassageWords,  \* passageWords
    Pending,       \* pages[i] is nil, its fetch is under way
    MaxMarker      \* bound: largest number the model writes in brackets

ASSUME CapAssumption == Cap \in Nat
ASSUME CallersAssumption == IsFiniteSet(Callers)
ASSUME LevelsAssumption ==
    "standard" \in DOMAIN Levels /\ \A e \in DOMAIN Levels : Levels[e] \in Nat \X Nat
\* A search result is a sequence of records.
ASSUME ResultsAssumption ==
    \A rs \in SearchResults :
        /\ rs \in Seq(ToSet(rs))
        /\ \A i \in DOMAIN rs : rs[i] = [url |-> rs[i].url, title |-> rs[i].title]
\* Extract fails on a page without a word.
ASSUME PagesAssumption == <<>> \notin Pages /\ Pages \subseteq Seq(Nat) /\ PassageWords \in Nat
ASSUME PendingAssumption == Pending \notin Pages \cup {<<>>}

VARIABLES
    inUse,         \* len(w.sem)
    waiters,       \* goroutines blocked on the send, first come first served
    phase, effort, mode,
    results,       \* what Search returned
    pages,         \* pages[i]: the page of results[i], or Pending or Dropped
    top,           \* the ranked passages given to the model
    result         \* what Research returned

sem == <<inUse, waiters>>
vars == <<sem, phase, effort, mode, results, pages, top, result>>

\* pages[i] stays nil after a fetch that failed: it adds nothing.
Dropped == <<>>

\* A parameter the caller has left out.
Unset == ""

NoResult == [status |-> "none"]
Failed(status) == [status |-> status]

Init ==
    /\ inUse = 0
    /\ waiters = <<>>
    /\ phase = [c \in Callers |-> "idle"]
    /\ effort = [c \in Callers |-> "standard"]
    /\ mode = [c \in Callers |-> DefaultMode]
    /\ results = [c \in Callers |-> <<>>]
    /\ pages = [c \in Callers |-> <<>>]
    /\ top = [c \in Callers |-> <<>>]
    /\ result = [c \in Callers |-> NoResult]

-----------------------------------------------------------------------------
\* An unknown effort is "standard".
Level(e) == IF e \in DOMAIN Levels THEN Levels[e] ELSE Levels["standard"]

\* The channel holds one more than the cap.
M_SlotFreeLoose == Cap = 0 \/ inUse <= Cap
SlotFree == Cap = 0 \/ inUse < Cap

\* An empty synthesis means the default.
ModeOf(m) == IF m = Unset THEN DefaultMode ELSE m

\* Research is called: the send on the semaphore goes through or blocks.
Call(c, e, m) ==
    /\ phase[c] = "idle"
    /\ effort' = [effort EXCEPT ![c] = e]
    /\ mode' = [mode EXCEPT ![c] = ModeOf(m)]
    /\ IF SlotFree
       THEN /\ phase' = [phase EXCEPT ![c] = "searching"]
            /\ inUse' = IF Cap = 0 THEN 0 ELSE inUse + 1
            /\ UNCHANGED waiters
       ELSE /\ phase' = [phase EXCEPT ![c] = "queued"]
            /\ waiters' = Append(waiters, c)
            /\ UNCHANGED inUse
    /\ UNCHANGED <<results, pages, top, result>>

\* The slot is given back only by a call that succeeds.
M_FinishLeaks(c, r) ==
    /\ result' = [result EXCEPT ![c] = r]
    /\ top' = [top EXCEPT ![c] = <<>>]
    /\ phase' = [phase EXCEPT ![c] = "done"]
    /\ inUse' = IF Cap > 0 /\ r.status = "ok" THEN inUse - 1 ELSE inUse
    /\ UNCHANGED waiters

\* Research returns r, and the deferred receive frees the slot: the longest
\* waiting sender takes it over at once, if there is one.
Finish(c, r) ==
    /\ result' = [result EXCEPT ![c] = r]
    /\ top' = [top EXCEPT ![c] = <<>>]
    /\ \/ /\ waiters = <<>>
          /\ phase' = [phase EXCEPT ![c] = "done"]
          /\ inUse' = IF Cap = 0 THEN 0 ELSE inUse - 1
          /\ UNCHANGED waiters
       \/ /\ waiters # <<>>
          /\ phase' = [phase EXCEPT ![c] = "done", ![Head(waiters)] = "searching"]
          /\ waiters' = Tail(waiters)
          /\ UNCHANGED inUse

\* Search fails: so does the call.
SearchFails(c) ==
    /\ phase[c] = "searching"
    /\ Finish(c, Failed("search_error"))
    /\ UNCHANGED <<effort, mode, results, pages>>

\* Search returns rs, no more than were asked for; one goroutine per result.
SearchEnds(c, rs) ==
    /\ phase[c] = "searching"
    /\ Len(rs) <= Level(effort[c])[1]
    /\ results' = [results EXCEPT ![c] = rs]
    /\ pages' = [pages EXCEPT ![c] = [i \in 1 .. Len(rs) |-> Pending]]
    /\ phase' = [phase EXCEPT ![c] = "fetching"]
    /\ UNCHANGED <<sem, effort, mode, top, result>>

\* A fetch is over: a page, or an error, which drops it.
FetchEnds(c, i, page) ==
    /\ i \in DOMAIN pages[c]
    /\ pages[c][i] = Pending
    /\ pages' = [pages EXCEPT ![c][i] = page]
    /\ UNCHANGED <<sem, phase, effort, mode, results, top, result>>

\* The call goes on as soon as one fetch is over.
M_AllFetchedEarly(c) == \E i \in DOMAIN pages[c] : pages[c][i] # Pending
\* wg.Wait returns.
AllFetched(c) == \A i \in DOMAIN pages[c] : pages[c][i] # Pending

\* The passages of the pages that came back, by result, under the result's url.
Passages(c) ==
    LET chunks(page) == IF page = Pending THEN <<>> ELSE ChunkText(page, PassageWords)
    IN  Concat([i \in DOMAIN pages[c] |->
            [k \in DOMAIN chunks(pages[c][i]) |-> [url |-> results[c][i].url]]])

\* RankPassages: the best k passages, best first, whatever the scores are.
Rankings(passages, topK) ==
    LET k == IF topK > Len(passages) THEN Len(passages) ELSE topK
    IN  {[i \in 1 .. k |-> passages[f[i]]] :
            f \in {g \in [1 .. k -> 1 .. Len(passages)] :
                     \A i, j \in 1 .. k : i # j => g[i] # g[j]}}

\* The title of the first result.
M_TitleOfFirst(rs, u) == rs[1].title
\* titleByURL: for a url returned twice, the later title.
TitleOf(rs, u) ==
    LET at == {i \in DOMAIN rs : rs[i].url = u}
    IN  rs[CHOOSE i \in at : \A j \in at : j <= i].title

\* Citations get titles; the sources are the distinct urls among them.
Cited(rs, synth) ==
    LET urls == DistinctSources(synth.citations)
    IN  [status |-> "ok",
         markers |-> synth.markers,
         citations |-> [n \in DOMAIN synth.citations |->
             [marker |-> synth.citations[n].marker, url |-> synth.citations[n].url,
              title |-> TitleOf(rs, synth.citations[n].url)]],
         sources |-> [n \in DOMAIN urls |-> [url |-> urls[n], title |-> TitleOf(rs, urls[n])]],
         coverage |-> synth.coverage]

ByModel(c) == mode[c] = "llm" /\ LLMConfigured

\* wg.Wait returns; chunk, rank, and answer extractively in the same breath, or
\* hand the passages to the model.
Gather(c) ==
    /\ phase[c] = "fetching"
    /\ AllFetched(c)
    /\ \E ranked \in Rankings(Passages(c), Level(effort[c])[2]) :
        \/ /\ ByModel(c)
           /\ top' = [top EXCEPT ![c] = ranked]
           /\ phase' = [phase EXCEPT ![c] = "writing"]
           /\ UNCHANGED <<sem, result>>
        \/ /\ ~ByModel(c)
           /\ Finish(c, Cited(results[c], Extractive(ranked)))
    /\ UNCHANGED <<effort, mode, results, pages>>

\* The model answers, or fails.
Write(c, used) ==
    /\ phase[c] = "writing"
    /\ Finish(c, Cited(results[c], Written(top[c], used)))
    /\ UNCHANGED <<effort, mode, results, pages>>

WriteFails(c) ==
    /\ phase[c] = "writing"
    /\ Finish(c, Failed("llm_error"))
    /\ UNCHANGED <<effort, mode, results, pages>>

\* Every dependency comes back: its HTTP client, or the model's, has a timeout.
Search(c) == SearchFails(c) \/ \E rs \in SearchResults : SearchEnds(c, rs)
Fetch(c, i) == \E page \in Pages \cup {Dropped} : FetchEnds(c, i, page)
Model(c) == WriteFails(c) \/ \E used \in SUBSET (0 .. MaxMarker) : Write(c, used)

Work(c) ==
    \/ Search(c)
    \/ \E i \in DOMAIN pages[c] : Fetch(c, i)
    \/ Gather(c)
    \/ Model(c)

Next ==
    \E c \in Callers :
        \/ \E e \in Efforts, m \in Modes : Call(c, e, m)
        \/ Work(c)

\* The goroutines of a call run whenever one of them can.
Fairness == \A c \in Callers : WF_vars(Work(c))

Spec == Init /\ [][Next]_vars /\ Fairness

Running(c) == phase[c] \in {"searching", "fetching", "writing"}

-----------------------------------------------------------------------------
TypeOK ==
    /\ inUse \in 0 .. Cap
    /\ waiters \in Seq(Callers)
    /\ phase \in [Callers -> {"idle", "queued", "searching", "fetching", "writing", "done"}]
    /\ effort \in [Callers -> Efforts \cup {"standard"}]
    /\ mode \in [Callers -> Modes \cup {DefaultMode}]
    /\ results \in [Callers -> SearchResults \cup {<<>>}]
    /\ \A c \in Callers :
        /\ DOMAIN pages[c] = DOMAIN results[c]
        /\ \A i \in DOMAIN pages[c] : pages[c][i] \in Pages \cup {Pending, Dropped}
        /\ Len(top[c]) <= Level(effort[c])[2]
        /\ result[c].status \in {"none", "ok", "search_error", "llm_error"}

-----------------------------------------------------------------------------
(* What web_research promises.                                             *)

\* "Caps simultaneous Research calls" (pipeline.go:44-45), and only that: no
\* more calls run than the cap, every slot in use belongs to a running call,
\* and nobody waits while a slot is free, whichever way earlier calls ended.
SlotsAccounted ==
    Cap > 0 =>
        /\ inUse <= Cap
        /\ inUse = Cardinality({c \in Callers : Running(c)})
        /\ waiters # <<>> => inUse = Cap
        /\ {waiters[i] : i \in DOMAIN waiters} = {c \in Callers : phase[c] = "queued"}

\* No page is lost between its goroutine and the answer (pipeline.go:79-92): if
\* the passages fit the level, an extractive answer names as its sources the
\* urls of exactly those results whose fetch brought a page, whenever each of
\* the fetches was over.
NoPageIsLost ==
    \A c \in Callers :
        result[c].status = "ok" /\ ~ByModel(c) /\ Len(Passages(c)) <= Level(effort[c])[2] =>
            {result[c].sources[n].url : n \in DOMAIN result[c].sources} =
                {results[c][i].url : i \in {k \in DOMAIN pages[c] : pages[c][k] # Dropped}}

\* Provenance: every citation of an answer is a source that this call's own
\* search returned and that was fetched, not dropped, under a title the search
\* gave that url (pipeline.go:97, :118-121); and the sources are the cited urls,
\* each once.
CitationsAreFetchedSources ==
    \A c \in Callers : result[c].status = "ok" =>
        LET r == result[c]
            fetched == {i \in DOMAIN results[c] : pages[c][i] # Dropped}
        IN  /\ \A n \in DOMAIN r.citations : \E i \in fetched :
                 results[c][i].url = r.citations[n].url
            /\ \A n \in DOMAIN r.citations : \E i \in DOMAIN results[c] :
                 results[c][i] = [url |-> r.citations[n].url, title |-> r.citations[n].title]
            /\ {r.sources[n].url : n \in DOMAIN r.sources} = {r.citations[n].url : n \in DOMAIN r.citations}
            /\ IsInjective([n \in DOMAIN r.sources |-> r.sources[n].url])

\* "Distinct-source count -> high (>=3) / medium (2) / low (<=1)" (SPEC.md:39):
\* a confidence is backed by that many different fetched urls, and for an
\* extractive answer it is exactly the number of sources cited.
CoverageIsBacked ==
    \A c \in Callers : result[c].status = "ok" =>
        LET r == result[c]
            fetched == {results[c][i].url :
                          i \in {k \in DOMAIN results[c] : pages[c][k] # Dropped}}
            worth(n) == IF n >= 3 THEN "high" ELSE IF n = 2 THEN "medium" ELSE "low"
        IN  /\ r.coverage = "high" => Cardinality(fetched) >= 3
            /\ r.coverage = "medium" => Cardinality(fetched) >= 2
            /\ ~ByModel(c) => r.coverage = worth(Len(r.sources))

\* "A blocked/empty source is dropped, not fatal" (pipeline.go:80): whatever
\* became of the sources, a call whose search worked is an answer unless the
\* model failed it; and every marker of an extractive answer resolves.
ExtractiveAlwaysAnswers ==
    \A c \in Callers : phase[c] = "done" /\ ~ByModel(c) =>
        /\ result[c].status = "search_error" \/ result[c].status = "ok"
        /\ result[c].status = "ok" =>
            result[c].markers = {result[c].citations[n].marker : n \in DOMAIN result[c].citations}

\* "Packs paragraphs into passages of at most maxWords words (a single long
\* paragraph stays whole)" (chunk.go:10-11): whatever the lengths of the
\* paragraphs of a page that came back, its passages are the page again, every
\* paragraph once and in order; none is too long unless it is one paragraph; and
\* none is shorter than it could be.
PassagesKeepThePage ==
    \A c \in Callers : \A i \in DOMAIN pages[c] : pages[c][i] # Pending =>
        LET passages == ChunkText(pages[c][i], PassageWords)
            words(p) == FoldLeft(LAMBDA n, w : n + w, 0, p)
        IN  /\ Concat(passages) = pages[c][i]
            /\ \A k \in DOMAIN passages :
                 /\ passages[k] # <<>>
                 /\ Len(passages[k]) = 1 \/ words(passages[k]) <= PassageWords
                 /\ k > 1 => words(passages[k - 1]) + Head(passages[k]) > PassageWords

\* Every call returns, queued or not, whichever calls ahead of it fail.
EveryResearchReturns == \A c \in Callers : phase[c] # "idle" ~> phase[c] = "done"

\* "[n] markers resolve against citations ... Out-of-range markers are dropped"
\* (SPEC.md:36-38), of the answer as the caller reads it.
MarkersResolve ==
    \A c \in Callers : result[c].status = "ok" =>
        result[c].markers \subseteq {result[c].citations[n].marker : n \in DOMAIN result[c].citations}
=============================================================================
