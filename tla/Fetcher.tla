------------------------------ MODULE Fetcher ------------------------------
(***************************************************************************)
(* internal/fetch: one page as readable content.                           *)
(*                                                                         *)
(* Fetch gets the page, extracts its content and, when that is thin and a  *)
(* renderer is configured, has a browser render the page, extracts again   *)
(* and keeps the better of the two.  Nothing is shared between calls: one  *)
(* call is modelled, by a fetcher as main() has wired it.                  *)
(*                                                                         *)
(* Content is known by its number of words.                                *)
(***************************************************************************)
EXTENDS HttpErrors

CONSTANTS
    MaxWords,     \* bound: words of a page
    Thresholds,   \* DynamicThreshold, as configured
    Statuses      \* final statuses the servers answer with

ASSUME WordsAssumption == MaxWords \in Nat

VARIABLES
    renderer,     \* f.renderer # nil
    threshold,    \* f.threshold
    stage,        \* idle, getting (inside http.Get), rendering, done
    heard,        \* history: how the last exchange of the call ended
    static,       \* words of the static extraction
    rendered,     \* words of the extraction after the render
    outcome       \* what Fetch returned

fetcher == <<renderer, threshold>>
fetching == <<stage, heard, static, rendered, outcome>>

Failed == -2      \* the render failed
None == -1        \* no extraction took place
Empty == 0        \* the extraction failed with ErrEmpty
Words == 1 .. MaxWords

Silence == [status |-> 0, broke |-> "no"]
Status(s) == [status |-> s, broke |-> "no"]
Breaks == {[status |-> 0, broke |-> b] : b \in {"timeout", "connection"}}

\* The exchanges that end in an error, once the retry loop has given up.
Failures == {Status(s) : s \in {t \in Statuses : KindOf(t) # "ok"}} \cup Breaks

\* The error send() returns for it.
ErrorOf(h) == IF h.broke = "no" THEN StatusError(h.status) ELSE NetError(h.broke)

ErrEmpty == Chain({"ErrEmpty"}, 0)

NoError == Chain({"nil"}, 0)
Page(words, via) == [err |-> NoError, words |-> words, via |-> via]
Fails(err) == [err |-> err, words |-> None, via |-> "none"]
Nothing == [err |-> NoError, words |-> None, via |-> "none"]

FetcherIdle ==
    /\ stage = "idle"
    /\ heard = Silence
    /\ static = None
    /\ rendered = None
    /\ outcome = Nothing

-----------------------------------------------------------------------------
\* Extract: ErrEmpty without content, else a static page.
Extracted(words) == IF words = Empty THEN Fails(ErrEmpty) ELSE Page(words, "static")

\* A page that yielded nothing is not worth a render.
M_ShouldEscalate(words) == words # Empty /\ words < threshold

ShouldEscalate(words) == words = Empty \/ words < threshold

\* The lengths are compared without a look at the errors.
M_BetterUnchecked(words) == static = Empty \/ words > static

\* The rendered page wins where there is no static one, or a shorter one.
Better(words) == words \notin {Failed, Empty} /\ (static = Empty \/ words > static)

Return(r) == stage' = "done" /\ outcome' = r

\* Fetch is called.
Fetch ==
    /\ stage = "idle"
    /\ stage' = "getting"
    /\ UNCHANGED <<fetcher, heard, static, rendered, outcome>>

\* http.Get fails: its error propagates.
GetFails(h) ==
    /\ stage = "getting"
    /\ heard' = h
    /\ Return(Fails(ErrorOf(h)))
    /\ UNCHANGED <<fetcher, static, rendered>>

\* http.Get brings a page of so many words.
GetPage(status, words) ==
    /\ stage = "getting"
    /\ heard' = Status(status)
    /\ static' = words
    /\ \/ /\ renderer /\ ShouldEscalate(words)
          /\ stage' = "rendering"
          /\ UNCHANGED outcome
       \/ /\ ~(renderer /\ ShouldEscalate(words))
          /\ Return(Extracted(words))
    /\ UNCHANGED <<fetcher, rendered>>

\* Render returns a page of so many words, or fails: no browser, a timeout,
\* a cancelled ctx.
Render(words) ==
    /\ stage = "rendering"
    /\ rendered' = words
    /\ Return(IF Better(words) THEN Page(words, "dynamic") ELSE Extracted(static))
    /\ UNCHANGED <<fetcher, heard, static>>

FetchStep ==
    \/ \E h \in Failures : GetFails(h)
    \/ \E s \in {t \in Statuses : KindOf(t) = "ok"}, w \in {Empty} \cup Words : GetPage(s, w)
    \/ \E w \in {Failed, Empty} \cup Words : Render(w)

FetcherTypeOK ==
    /\ renderer \in BOOLEAN /\ threshold \in {0} \cup Thresholds
    /\ stage \in {"idle", "getting", "rendering", "done"}
    /\ heard \in {Silence} \cup {Status(s) : s \in Statuses} \cup Breaks
    /\ static \in {None, Empty} \cup Words
    /\ rendered \in {Failed, None, Empty} \cup Words
    /\ outcome \in {Nothing, Fails(ErrEmpty)} \cup {Fails(ErrorOf(h)) : h \in Failures}
                   \cup {Page(w, via) : w \in Words, via \in {"static", "dynamic"}}

-----------------------------------------------------------------------------
(* What the fetcher promises.                                              *)

\* "Escalates thin/empty static extractions to a browser render"
\* (fetch.go:44-45), and never for the worse: whatever the browser does, a call
\* returns the longest content it has seen, it fails on a page it got only when
\* there was none anywhere, and it does not settle for thin content without
\* having asked the browser there is.
BestContentReturned ==
    stage = "done" /\ static # None =>
        /\ static >= rendered /\ static > Empty => outcome = Page(static, "static")
        /\ rendered > Empty /\ rendered > static => outcome = Page(rendered, "dynamic")
        /\ static = Empty /\ rendered <= Empty => outcome = Fails(ErrEmpty)
        /\ renderer /\ rendered = None => static > Empty /\ static >= threshold
=============================================================================
