------------------------------ MODULE Engines ------------------------------
(***************************************************************************)
(* internal/search: what the engine adapters make of an answer.            *)
(*                                                                         *)
(* A payload is the sequence of the items an adapter looks at, in document *)
(* order.  A JSON list is made of hits, which bring their snippet with     *)
(* them, and of voids, which have no url.  DuckDuckGo's page is made of    *)
(* result links, hits or voids, and of snippets that follow their link.    *)
(***************************************************************************)
EXTENDS Integers, SequencesExt

\* The one engine that is scraped; the others speak JSON.
Scraped == {"ddg"}

Items(engine) == IF engine \in Scraped THEN {"hit", "void", "snippet"} ELSE {"hit", "void"}

\* What is behind the href of a result link (resolveDDGURL): an empty href, and a
\* redirect to nowhere, are void; a redirect that cannot be decoded stands for
\* itself.
LinkOf(href) == IF href \in {"none", "redirect to nothing"} THEN "void" ELSE "hit"

NoSnippet == 0

Result(rank, place, snippet) == [rank |-> rank, place |-> place, snippet |-> snippet]

\* What a loop over the payload meets: an item and its place.
Placed(p) == [i \in DOMAIN p |-> [item |-> p[i], at |-> i]]

\* The rank is the place in the payload.
M_ParsedByPlace(p) ==
    FoldLeft(LAMBDA out, x : IF x.item = "hit" THEN Append(out, Result(x.at, x.at, x.at)) ELSE out,
             <<>>, Placed(p))

\* The JSON adapters: an entry without a url is left out before ranks are given.
Parsed(p) ==
    FoldLeft(LAMBDA out, x : IF x.item = "hit" THEN Append(out, Result(Len(out) + 1, x.at, x.at))
                             ELSE out,
             <<>>, Placed(p))

\* parseDDG: a snippet goes to the last result there is, if there is one.
Scrape(p) ==
    LET step(out, x) ==
            IF x.item = "hit" THEN Append(out, Result(Len(out) + 1, x.at, NoSnippet))
            ELSE IF x.item = "snippet" /\ out # <<>> THEN [out EXCEPT ![Len(out)].snippet = x.at]
            ELSE out
    IN  FoldLeft(step, <<>>, Placed(p))

\* capTo.
CapTo(results, max) == SubSeq(results, 1, IF Len(results) > max THEN max ELSE Len(results))

\* Search of an engine that is sent p.
ResultsOf(engine, p, max) ==
    CapTo(IF engine \in Scraped THEN Scrape(p) ELSE Parsed(p), max)
=============================================================================
