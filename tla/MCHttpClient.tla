--------------------------- MODULE MCHttpClient ---------------------------
(***************************************************************************)
(* Instances of the HTTP client: POSTs to one url, of one or two bodies,   *)
(* with one or two sets of headers (the headers stay out of the key).      *)
(***************************************************************************)
EXTENDS HttpClient, TLC

CONSTANTS u1, h1, b1, b2, plain, keyed

Post(b, hs) == [method |-> "POST", url |-> u1, body |-> b, headers |-> hs]

MCRequests == {Post(b1, plain), Post(b2, plain)}
MCHeaderRequests == MCRequests \cup {Post(b1, keyed)}
MCOneRequest == {Post(b1, plain)}
MCHostOf == u1 :> h1
MCStatuses == h1 :> {200, 202, 404}
MCCacheStatuses == h1 :> {200, 202}
MCHints == {-1, 3, NoHint}

\* The calls are interchangeable (only where no liveness is checked).
CallSymmetry == Permutations(Calls)
=============================================================================
