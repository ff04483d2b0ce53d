------------------------------ MODULE Limiter ------------------------------
(***************************************************************************)
(* internal/ratelimit: the per-host pacer.                                 *)
(*                                                                         *)
(* Acquire(host) has two halves.  Under l.mu it reads the clock, takes the *)
(* next free slot of the host and moves the host's nextAllowed one target  *)
(* (interval plus jitter) past that slot: Reserve.  With the lock released *)
(* it sleeps until the slot and returns: Return.  Any number of goroutines *)
(* may be between the two halves, and one that sleeps wakes at its slot or *)
(* later, never earlier.                                                   *)
(*                                                                         *)
(* Time is an integer clock, read by guards and moved by Advance.          *)
(***************************************************************************)
EXTENDS Integers

CONSTANTS
    Callers,      \* goroutines that may call Acquire
    Hosts,        \* keys of nextAllowed
    MinInterval,  \* minInterval
    JitterMax     \* jitterMax: the jitter is below it

ASSUME IntervalAssumption == MinInterval \in Nat /\ JitterMax \in Nat

VARIABLES
    now,          \* the injected clock
    nextAllowed,  \* nextAllowed[h]; 0 stands for "no entry"
    sleepers      \* Acquire calls between their two halves

limiterVars == <<now, nextAllowed, sleepers>>

Wait == [caller: Callers, host: Hosts, due: Nat]

LimiterTypeOK ==
    /\ now \in Nat
    /\ nextAllowed \in [Hosts -> Nat]
    /\ sleepers \subseteq Wait

LimiterInit ==
    /\ now = 0
    /\ nextAllowed = [h \in Hosts |-> 0]
    /\ sleepers = {}

-----------------------------------------------------------------------------
(* Mutants: plausible slips in the definitions that follow.                *)

\* Each caller is paced from its own arrival: no queue.
M_EarliestIgnoresQueue(h) == now

\* A wait where a time belongs, and no check that it is still ahead.
M_EarliestAsWait(h) == nextAllowed[h] - now

\* A queued caller adds the interval to a slot that already contains it.
M_EarliestPadsQueue(h) ==
    IF nextAllowed[h] > now THEN nextAllowed[h] + MinInterval ELSE now

\* The sleep is rounded down by one unit.
M_AwakeEarly(s) == now + 1 >= s.due

\* Awake at the very instant of the slot or never.
M_AwakeOnlyOnTime(s) == now = s.due
-----------------------------------------------------------------------------

\* time.Duration(l.rand() * float64(l.jitterMax)), rand in [0,1).
Jitters == {0} \cup 0 .. (JitterMax - 1)

\* The earliest time a new request to h may go out.
Earliest(h) == IF nextAllowed[h] > now THEN nextAllowed[h] ELSE now

\* l.sleep(wait): the caller runs again once its slot has come.
Awake(s) == now >= s.due

Sleeping(c) == \E s \in sleepers : s.caller = c

\* The half of Acquire under the lock.
Reserve(c, h) ==
    /\ ~Sleeping(c)
    /\ \E j \in Jitters :
          nextAllowed' = [nextAllowed EXCEPT ![h] = Earliest(h) + MinInterval + j]
    /\ sleepers' = sleepers \cup {[caller |-> c, host |-> h, due |-> Earliest(h)]}
    /\ UNCHANGED now

\* The half of Acquire after the lock: the sleep of s ends, Acquire returns.
Return(s) ==
    /\ s \in sleepers
    /\ Awake(s)
    /\ sleepers' = sleepers \ {s}
    /\ UNCHANGED <<now, nextAllowed>>

Advance == now' = now + 1 /\ UNCHANGED <<nextAllowed, sleepers>>

DeadlineAhead ==
    \/ \E s \in sleepers : s.due > now
    \/ \E h \in Hosts : nextAllowed[h] > now

\* The limiter under a clock that may advance at any moment: what a component
\* that embeds the limiter implements, whatever else that component waits for.
LimiterNext ==
    \/ Advance
    \/ \E c \in Callers, h \in Hosts : Reserve(c, h)
    \/ \E s \in sleepers : Return(s)

LimiterSpec == LimiterInit /\ [][LimiterNext]_limiterVars
=============================================================================
