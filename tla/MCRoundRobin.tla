---------------------------- MODULE MCRoundRobin ----------------------------
(***************************************************************************)
(* Instances of the engine composite.                                      *)
(*                                                                         *)
(* MCRoundRobin.cfg: two engines and three queries, so that the rotation   *)
(* wraps around, a breaker opened by one query is met, open, then elapsed, *)
(* by later ones while another search is in any phase, and each order of   *)
(* fates occurs.                                                           *)
(* MCAllCooled.cfg: rate limits until every breaker is open.               *)
(***************************************************************************)
EXTENDS RoundRobin, TLC

\* One error of each kind that matters: a rate limit, and something else.
MCTwoErrors == {[kind |-> "http", status |-> 429], [kind |-> "http", status |-> 403]}
MCWrappedErrors == {[kind |-> "retryable", status |-> 500], [kind |-> "http", status |-> 403]}

\* The two searches are interchangeable (only where no liveness is checked).
SearchSymmetry == Permutations(Searches)
=============================================================================
