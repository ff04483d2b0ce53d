----------------------------- MODULE MCLimiter -----------------------------
(***************************************************************************)
(* The limiter with three callers and two hosts.  MinInterval 2 with two   *)
(* jitter values lets the queue of h1 reach depth two; three reservations  *)
(* on h1 let it fall idle and be taken again; one on h2 shows that the     *)
(* hosts do not delay each other.                                          *)
(***************************************************************************)
EXTENDS LimiterGrants, TLC

CONSTANTS h1, h2

MCHosts == {h1, h2}
MCMaxGrants == h1 :> 3 @@ h2 :> 1
=============================================================================
