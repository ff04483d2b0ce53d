--------------------------- MODULE MCSearchStack ---------------------------
(***************************************************************************)
(* Two concurrent searches for one query over two engines, one asked by    *)
(* GET and one by POST, each on a host of its own.                         *)
(***************************************************************************)
EXTENDS SearchStack, TLC

MCRequestOf ==
    [e \in 0 .. 1 |->
        [method |-> IF e = 0 THEN "GET" ELSE "POST", url |-> e, body |-> "query",
         headers |-> "none"]]
MCHostOf == [u \in 0 .. 1 |-> u]
MCStatuses == [h \in 0 .. 1 |-> IF h = 0 THEN {429} ELSE {200}]
=============================================================================
