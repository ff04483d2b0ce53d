----------------------------- MODULE MCResearch -----------------------------
(***************************************************************************)
(* An instance of the pipeline with calls of two sizes.                    *)
(*                                                                         *)
(* Three calls share two slots.  As long as another call is under way or   *)
(* over, a call is small: nothing or one result, one page of one passage,  *)
(* the model to fail or to cite one marker.  That is enough for every      *)
(* order of taking, waiting for and giving back the slots.                 *)
(* While the other two are idle, the reader may be larger: up to three     *)
(* results, two of them of one url under different titles, a page of one   *)
(* to three passages among short ones, more passages than are kept,        *)
(* markers out of range.                                                   *)
(***************************************************************************)
EXTENDS Research

CONSTANTS ua, ub, uc, ta, tb, reader

MCShortPage == <<5>>

\* Passages take three words: they fill up exactly, or short of it, or with one
\* paragraph that is too long alone, first or last.
MCPages == {<<1, 2>>, <<2, 2, 1>>, <<1, 4, 1>>, MCShortPage}

MCFewResults == {<<>>, <<[url |-> ua, title |-> ta]>>}

MCManyResults == MCFewResults \cup
    {<<[url |-> ua, title |-> ta], [url |-> ub, title |-> tb], [url |-> ua, title |-> tb]>>,
     <<[url |-> ua, title |-> ta], [url |-> ub, title |-> tb], [url |-> uc, title |-> tb]>>,
     <<[url |-> ua, title |-> ta], [url |-> ua, title |-> tb]>>}

\* The levels of the code, scaled down: quick keeps few of each.
MCLevels == [quick |-> <<1, 1>>, standard |-> <<2, 2>>, deep |-> <<3, 3>>]

Small(c) ==
    /\ effort[c] # "deep"
    /\ results[c] \in MCFewResults
    /\ \A i \in DOMAIN pages[c] : pages[c][i] \in {Pending, Dropped, MCShortPage}
    /\ result[c].status = "ok" => result[c].markers \subseteq {1}

\* One page of any kind among short ones.
Readable(c) ==
    \A i, j \in DOMAIN pages[c] :
        i # j => {pages[c][i], pages[c][j]} \cap {Pending, Dropped, MCShortPage} # {}

Alone(c) == \A d \in Callers \ {c} : phase[d] = "idle"

\* Which calls the bound lets through, of those that Next takes.
MCNext ==
    /\ Next
    /\ \A c \in Callers : Small(c)' \/ (c = reader /\ Alone(c)')

\* Work(c) is enabled exactly while the call runs: this is Fairness, without an
\* ENABLED for TLC to evaluate.
MCFairness == \A c \in Callers : []<>~Running(c) \/ []<><<Work(c)>>_vars

MCSpec == Init /\ [][MCNext]_vars /\ MCFairness
=============================================================================
