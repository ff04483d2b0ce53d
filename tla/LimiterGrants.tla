--------------------------- MODULE LimiterGrants ---------------------------
(***************************************************************************)
(* The limiter with the history its promises are about: which slots each   *)
(* host has handed out, in which order, and which of them have been spent. *)
(* The history variables only record; the limiter's own steps are those of *)
(* Limiter.tla, which the HTTP client composes without the history.        *)
(***************************************************************************)
EXTENDS Limiter, Sequences, FiniteSets

CONSTANT MaxGrants   \* bound: reservations made for each host

ASSUME BoundAssumption == MaxGrants \in [Hosts -> Nat]

VARIABLES
    grants,       \* history: the slots reserved for h, in order
    turn,         \* history: the position in grants of the slot a caller waits for
    returned      \* history: the positions whose Acquire has returned

history == <<grants, turn, returned>>
vars == <<limiterVars, history>>

TypeOK ==
    /\ LimiterTypeOK
    /\ grants \in [Hosts -> Seq(Nat)]
    /\ turn \in [Callers -> Nat]
    /\ returned \in [Hosts -> SUBSET Nat]

Init ==
    /\ LimiterInit
    /\ grants = [h \in Hosts |-> <<>>]
    /\ turn = [c \in Callers |-> 0]
    /\ returned = [h \in Hosts |-> {}]

ReserveSlot(c, h) ==
    /\ Len(grants[h]) < MaxGrants[h]
    /\ Reserve(c, h)
    /\ grants' = [grants EXCEPT ![h] = Append(@, Earliest(h))]
    /\ turn' = [turn EXCEPT ![c] = Len(grants[h]) + 1]
    /\ UNCHANGED returned

ReturnFrom(c) ==
    /\ \E s \in sleepers :
        /\ s.caller = c
        /\ Return(s)
        /\ returned' = [returned EXCEPT ![s.host] = @ \cup {turn[c]}]
    /\ turn' = [turn EXCEPT ![c] = 0]
    /\ UNCHANGED grants

\* Time passes while somebody can tell: with no sleeper and no nextAllowed
\* ahead of the clock, a later clock changes nothing the limiter does.
Tick == DeadlineAhead /\ Advance /\ UNCHANGED history

Acquire(c) == ReturnFrom(c) \/ \E h \in Hosts : ReserveSlot(c, h)

Next == Tick \/ \E c \in Callers : Acquire(c)

\* Time passes, and a sleeper whose slot has come is scheduled.
Fairness == WF_vars(Tick) /\ \A c \in Callers : WF_vars(ReturnFrom(c))

Spec == Init /\ [][Next]_vars /\ Fairness

-----------------------------------------------------------------------------
(* What the limiter promises.                                              *)

\* "Spaces requests to one host by a minimum interval" (ratelimit.go:1-3): any
\* two slots handed out for one host, by whatever interleaving of callers, lie
\* at least MinInterval apart for each reservation between them, and in the
\* order they were reserved.
SlotsSpaced ==
    \A h \in Hosts : \A i, j \in DOMAIN grants[h] :
        i < j => grants[h][i] + MinInterval * (j - i) <= grants[h][j]

\* The rate a host sees, over every window that starts at a slot: however late
\* sleepers wake and however they bunch, the Acquire calls that have returned
\* for that slot or a later one number at most one plus the whole intervals
\* that have passed since (ratelimit.go:44-54).
RateBound ==
    \A h \in Hosts : \A i \in DOMAIN grants[h] :
        LET spent == {t \in returned[h] : t >= i}
        IN  spent # {} => grants[h][i] + MinInterval * (Cardinality(spent) - 1) <= now

\* The price of pacing is bounded by the real queue: a caller who arrives now
\* waits at most one full target for each caller still ahead of its slot, plus
\* one.  No host keeps a backlog that nobody is waiting in (ratelimit.go:44-48:
\* an idle host restarts from the clock, a busy one moves one target).
NoPhantomBacklog ==
    LET target == MinInterval + JitterMax
        ahead(h) == {s \in sleepers : s.host = h /\ s.due > now}
    IN  \A h \in Hosts :
            nextAllowed[h] - now <= target * (Cardinality(ahead(h)) + 1)

\* Acquire always returns: nobody sleeps forever, whoever arrives meanwhile
\* (ratelimit.go:38 "blocks until it's polite", :52-54).
EveryAcquireReturns == \A c \in Callers : Sleeping(c) ~> ~Sleeping(c)
=============================================================================
