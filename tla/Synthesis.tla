----------------------------- MODULE Synthesis -----------------------------
(***************************************************************************)
(* internal/research: from a page to its passages, and from the ranked     *)
(* passages to an answer, as functions.                                    *)
(*                                                                         *)
(* A page is the sequence of its paragraphs, each known by its number of   *)
(* words; a ranked passage is known by the url it came from; an answer by  *)
(* the set of [n] markers in its text.                                     *)
(***************************************************************************)
EXTENDS Integers, SequencesExt

\* What is being packed at the end is forgotten.
M_ChunkTextNoLastFlush(paras, maxWords) ==
    LET Flush(s) == IF s.current = <<>> THEN s
                    ELSE [out |-> Append(s.out, s.current), current |-> <<>>, words |-> 0]
        Add(s, w) == LET t == IF s.words + w > maxWords THEN Flush(s) ELSE s
                     IN  [t EXCEPT !.current = Append(@, w), !.words = @ + w]
    IN  FoldLeft(Add, [out |-> <<>>, current |-> <<>>, words |-> 0], paras).out

\* ChunkText: paragraphs are packed into a passage until the next would be too
\* much for it.
ChunkText(paras, maxWords) ==
    LET Flush(s) == IF s.current = <<>> THEN s
                    ELSE [out |-> Append(s.out, s.current), current |-> <<>>, words |-> 0]
        Add(s, w) == LET t == IF s.words + w > maxWords THEN Flush(s) ELSE s
                     IN  [t EXCEPT !.current = Append(@, w), !.words = @ + w]
    IN  Flush(FoldLeft(Add, [out |-> <<>>, current |-> <<>>, words |-> 0], paras)).out

\* append(passages, more...), over all pages.
Concat(seqs) == FoldLeft(LAMBDA all, more : all \o more, <<>>, seqs)

\* distinctSources: the urls of the passages, each where it first occurs.
DistinctSources(passages) ==
    FoldLeft(LAMBDA urls, p : IF p.url \in ToSet(urls) THEN urls ELSE Append(urls, p.url),
             <<>>, passages)

\* High takes more than three sources.
M_CoverageForStrict(n) == IF n > 3 THEN "high" ELSE IF n >= 2 THEN "medium" ELSE "low"
\* coverageFor: corroboration by the number of sources.
CoverageFor(n) == IF n >= 3 THEN "high" ELSE IF n = 2 THEN "medium" ELSE "low"

Cite(urls, n) == [marker |-> n, url |-> urls[n]]

\* The passages are numbered, where the sources are.
M_ExtractiveByPassage(passages) ==
    LET urls == DistinctSources(passages)
    IN  [markers |-> 1 .. Len(passages),
         citations |-> [n \in 1 .. Len(urls) |-> Cite(urls, n)],
         coverage |-> CoverageFor(Len(urls))]

\* ExtractiveSynthesize: one numbered block, and one citation, per source.
Extractive(passages) ==
    LET urls == DistinctSources(passages)
    IN  [markers |-> 1 .. Len(urls),
         citations |-> [n \in 1 .. Len(urls) |-> Cite(urls, n)],
         coverage |-> CoverageFor(Len(urls))]

\* The numbers that name a source, in order, as far as the model wrote them.
Citable(used, urls) == Concat([n \in 1 .. Len(urls) |-> IF n \in used THEN <<n>> ELSE <<>>])

\* Synthesize: the answer is the model's prose, with the markers `used' in it;
\* those that number a source become citations.
Written(passages, used) ==
    LET urls == DistinctSources(passages)
        nums == Citable(used, urls)
    IN  [markers |-> used,
         citations |-> [i \in DOMAIN nums |-> Cite(urls, nums[i])],
         coverage |-> CoverageFor(Len(urls))]
=============================================================================
