------------------------------ MODULE TTLCache ------------------------------
(***************************************************************************)
(* internal/cache: the in-memory TTL cache.  Get and Set each run under    *)
(* the mutex, so each is one step.  Get evicts an entry it finds expired;  *)
(* nothing else ever removes one.                                          *)
(***************************************************************************)
EXTENDS Integers

CONSTANTS
    Keys,         \* cache keys
    Values,       \* cached values
    NoEntry       \* items[k] when the map has no entry for k

VARIABLES now, items

Entry == [value: Values, expires: Int]

TypeOK == items \in [Keys -> Entry \cup {NoEntry}]

Init == items = [k \in Keys |-> NoEntry]

\* The entry stays one instant past its expiry.
M_Fresh(k) == items[k] # NoEntry /\ now <= items[k].expires

\* Present and unexpired.
Fresh(k) == items[k] # NoEntry /\ now < items[k].expires

\* Get that returns (v, true).
Hit(k, v) == Fresh(k) /\ v = items[k].value /\ UNCHANGED items

\* Get that returns ("", false): no entry, or an expired one, which it deletes.
Miss(k) == ~Fresh(k) /\ items' = [items EXCEPT ![k] = NoEntry]

Set(k, v, ttl) == items' = [items EXCEPT ![k] = [value |-> v, expires |-> now + ttl]]

\* Some entry has yet to expire.
DeadlineAhead == \E k \in Keys : Fresh(k)
=============================================================================
