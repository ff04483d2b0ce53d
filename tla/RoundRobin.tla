----------------------------- MODULE RoundRobin -----------------------------
(***************************************************************************)
(* internal/search/roundrobin.go: the composite of independent engines.    *)
(*                                                                         *)
(* A search takes its rotation of the engines and walks it: isCooled skips *)
(* an engine whose breaker is open; otherwise the engine is called, without *)
(* the lock; a transient error opens its breaker (cool, a critical section *)
(* of its own); the first non-empty answer ends the walk.  Searches run    *)
(* concurrently and meet in the cursor and in cooledUntil.                 *)
(*                                                                         *)
(* Engines are known by their position 0 .. N-1 in the provider list, which *)
(* buildRoundRobin never leaves empty.  A search id stands for a goroutine, *)
(* which serves one query after another.                                   *)
(***************************************************************************)
EXTENDS Integers, FiniteSets

CONSTANTS
    Searches,     \* goroutines inside Search
    N,            \* number of providers
    Cooldown,     \* engineCooldown
    Errors,       \* errors an engine may return: [kind, status] records
    NoError,      \* the nil error
    MaxSearches   \* bound: queries begun in all

ASSUME EnginesAssumption == N \in Nat \ {0}
ASSUME CooldownAssumption == Cooldown \in Nat
ASSUME ErrorsAssumption == NoError \notin Errors
ASSUME BoundAssumption == MaxSearches \in Nat

VARIABLES
    now,          \* the injected clock
    cursor,       \* start of the next rotation
    cooledUntil,  \* cooledUntil[e]; 0 stands for "no entry"
    phase,        \* where the search is in its walk
    start, pos,   \* its rotation, and its place in it
    anyResponded, \* locals of Search
    lastErr,
    result,       \* what Search returned: [found, err]
    tried,        \* history: what the walk met at each engine
    since,        \* history: when isCooled let the call under way through, or,
                  \* once it has failed, when its rate limit was heard
    limitedAt,    \* history: the last rate limit heard from e and acted upon
    begun,        \* history: how many rotations began at each engine
    queries       \* history: how many queries began

shared == <<now, cursor, cooledUntil>>
local == <<phase, start, pos, anyResponded, lastErr, result>>
history == <<tried, since, limitedAt, begun, queries>>
vars == <<shared, local, history>>

Engines == 0 .. N - 1

Fates == {"untried", "skipped", "transient", "fatal", "empty", "found"}

\* Search returned (results, nil), (nil, nil) or (nil, err).
Found == [found |-> TRUE, err |-> NoError]
Nothing(err) == [found |-> FALSE, err |-> err]

TypeOK ==
    /\ now \in Nat
    /\ cursor \in Engines
    /\ cooledUntil \in [Engines -> Nat]
    /\ phase \in [Searches -> {"idle", "check", "calling", "cooling"}]
    /\ start \in [Searches -> Engines]
    /\ pos \in [Searches -> Engines]
    /\ anyResponded \in [Searches -> BOOLEAN]
    /\ lastErr \in [Searches -> Errors \cup {NoError}]
    /\ result \in [Searches -> [found: BOOLEAN, err: Errors \cup {NoError}]]
    /\ tried \in [Searches -> [Engines -> Fates]]
    /\ since \in [Searches -> Nat]
    /\ limitedAt \in [Engines -> Int]
    /\ begun \in [Engines -> Nat]
    /\ queries \in Nat

Untried == [e \in Engines |-> "untried"]

Init ==
    /\ now = 0
    /\ cursor = 0
    /\ cooledUntil = [e \in Engines |-> 0]
    /\ phase = [s \in Searches |-> "idle"]
    /\ start = [s \in Searches |-> 0]
    /\ pos = [s \in Searches |-> 0]
    /\ anyResponded = [s \in Searches |-> FALSE]
    /\ lastErr = [s \in Searches |-> NoError]
    /\ result = [s \in Searches |-> Nothing(NoError)]
    /\ tried = [s \in Searches |-> Untried]
    /\ since = [s \in Searches |-> 0]
    /\ limitedAt = [e \in Engines |-> -Cooldown]
    /\ begun = [e \in Engines |-> 0]
    /\ queries = 0

-----------------------------------------------------------------------------
\* The engine search s is at.
At(s) == (start[s] + pos[s]) % N

(* Mutants: plausible slips in the definitions that follow.                *)

\* The cursor is kept below N only when it is used.
M_NextCursorUnwrapped == cursor + 1

\* The breaker closes one instant early.
M_IsCooledEndsEarly(e) == now + 1 < cooledUntil[e]

\* The cursor goes round one engine short.
M_NextCursorShort == IF cursor + 1 >= N - 1 THEN 0 ELSE cursor + 1

\* The last failure wins over an answer.
M_VerdictErrorFirst(responded, err) == Nothing(err)

\* The walk stops one engine short of the rotation.
M_MoreToTryShort(s) == pos[s] + 1 < N - 1

\* Every failure counts as a rate limit.
M_IsTransientAny(err) == err # NoError

\* The cooldown runs from the previous one instead of from the clock.
M_CooledFromLast(s) == cooledUntil[At(s)]
-----------------------------------------------------------------------------

\* A rate-limit signal worth cooling the engine for.
IsTransient(err) ==
    \/ err.kind = "retryable"
    \/ err.kind = "http" /\ err.status \in {429, 503, 202}

IsCooled(e) == now < cooledUntil[e]

NextCursor == (cursor + 1) % N

\* The loop has engines left after the one s is at.
MoreToTry(s) == pos[s] + 1 < N

\* The moment a cooldown is counted from.
CooledFrom(s) == now

\* nextOrder: the rotation starts at the cursor, which moves on, in one lock.
Begin(s) ==
    /\ phase[s] = "idle"
    /\ queries < MaxSearches
    /\ queries' = queries + 1
    /\ start' = [start EXCEPT ![s] = cursor]
    /\ cursor' = NextCursor
    /\ begun' = [begun EXCEPT ![cursor] = @ + 1]
    /\ phase' = [phase EXCEPT ![s] = "check"]
    /\ tried' = [tried EXCEPT ![s] = Untried]
    /\ UNCHANGED <<now, cooledUntil, pos, anyResponded, lastErr, result, since, limitedAt>>

\* What Search returns after the loop.
Verdict(responded, err) == IF responded THEN Nothing(NoError) ELSE Nothing(err)

\* Search returns r; its locals are gone.
Finish(s, r) ==
    /\ phase' = [phase EXCEPT ![s] = "idle"]
    /\ result' = [result EXCEPT ![s] = r]
    /\ start' = [start EXCEPT ![s] = 0]
    /\ pos' = [pos EXCEPT ![s] = 0]
    /\ anyResponded' = [anyResponded EXCEPT ![s] = FALSE]
    /\ lastErr' = [lastErr EXCEPT ![s] = NoError]

\* The walk leaves the engine it is at: on to the next one, or out of the loop.
Continue(s, responded, err) ==
    \/ /\ MoreToTry(s)
       /\ pos' = [pos EXCEPT ![s] = @ + 1]
       /\ phase' = [phase EXCEPT ![s] = "check"]
       /\ anyResponded' = [anyResponded EXCEPT ![s] = responded]
       /\ lastErr' = [lastErr EXCEPT ![s] = err]
       /\ UNCHANGED <<start, result>>
    \/ ~MoreToTry(s) /\ Finish(s, Verdict(responded, err))

Meets(s, fate) == tried' = [tried EXCEPT ![s][At(s)] = fate]
Forget(s) == since' = [since EXCEPT ![s] = 0]

\* isCooled says yes: the engine is skipped.
Skip(s) ==
    /\ phase[s] = "check"
    /\ IsCooled(At(s))
    /\ Continue(s, anyResponded[s], lastErr[s])
    /\ Meets(s, "skipped")
    /\ UNCHANGED <<shared, since, limitedAt, begun, queries>>

\* isCooled says no: p.Search is called, and the lock is already released.
Admit(s) ==
    /\ phase[s] = "check"
    /\ ~IsCooled(At(s))
    /\ phase' = [phase EXCEPT ![s] = "calling"]
    /\ since' = [since EXCEPT ![s] = now]
    /\ UNCHANGED <<shared, start, pos, anyResponded, lastErr, result, tried, limitedAt, begun, queries>>

\* The engine returns results: so does the search.
AnswerFound(s) ==
    /\ phase[s] = "calling"
    /\ Finish(s, Found)
    /\ Meets(s, "found") /\ Forget(s)
    /\ UNCHANGED <<shared, limitedAt, begun, queries>>

\* The engine answers, with nothing.
AnswerEmpty(s) ==
    /\ phase[s] = "calling"
    /\ Continue(s, TRUE, lastErr[s])
    /\ Meets(s, "empty") /\ Forget(s)
    /\ UNCHANGED <<shared, limitedAt, begun, queries>>

\* The engine is called again after a failure that is not a rate limit.
M_AnswerFatalRetries(s, err) ==
    /\ phase[s] = "calling"
    /\ ~IsTransient(err)
    /\ phase' = [phase EXCEPT ![s] = "check"]
    /\ Forget(s)
    /\ UNCHANGED <<shared, start, pos, anyResponded, lastErr, result, tried, limitedAt, begun, queries>>

\* The engine fails in a way that says nothing about its rate limit.
AnswerFatal(s, err) ==
    /\ phase[s] = "calling"
    /\ ~IsTransient(err)
    /\ Continue(s, anyResponded[s], err)
    /\ Meets(s, "fatal") /\ Forget(s)
    /\ UNCHANGED <<shared, limitedAt, begun, queries>>

\* The engine rate-limits; cool() comes next, in a lock of its own.
AnswerTransient(s, err) ==
    /\ phase[s] = "calling"
    /\ IsTransient(err)
    /\ phase' = [phase EXCEPT ![s] = "cooling"]
    /\ lastErr' = [lastErr EXCEPT ![s] = err]
    /\ since' = [since EXCEPT ![s] = now]
    /\ Meets(s, "transient")
    /\ UNCHANGED <<shared, start, pos, anyResponded, result, limitedAt, begun, queries>>

\* cool(): the breaker opens for a whole cooldown from now.
Cool(s) ==
    /\ phase[s] = "cooling"
    /\ cooledUntil' = [cooledUntil EXCEPT ![At(s)] = CooledFrom(s) + Cooldown]
    /\ limitedAt' = [limitedAt EXCEPT ![At(s)] = IF @ < since[s] THEN since[s] ELSE @]
    /\ Continue(s, anyResponded[s], lastErr[s])
    /\ Forget(s)
    /\ UNCHANGED <<now, cursor, tried, begun, queries>>

Advance == now' = now + 1 /\ UNCHANGED <<cursor, cooledUntil, local, history>>

\* Time passes while some breaker is open; otherwise no reading of the clock
\* tells one moment from another.
Tick == (\E e \in Engines : IsCooled(e)) /\ Advance

Answer(s) ==
    \/ AnswerFound(s)
    \/ AnswerEmpty(s)
    \/ \E err \in Errors : AnswerFatal(s, err) \/ AnswerTransient(s, err)

Walk(s) == Skip(s) \/ Admit(s) \/ Answer(s) \/ Cool(s)

Next == Tick \/ \E s \in Searches : Begin(s) \/ Walk(s)

\* Time passes, goroutines run, and every engine call ends: the adapters go
\* through the HTTP client, whose calls end (HttpClient, EveryCallReturns).
Fairness == WF_vars(Tick) /\ \A s \in Searches : WF_vars(Walk(s))

Spec == Init /\ [][Next]_vars /\ Fairness

\* The same under a clock that may advance at any moment, for a system that
\* the composite is a part of.
OpenNext == Advance \/ \E s \in Searches : Begin(s) \/ Walk(s)
OpenSpec == Init /\ [][OpenNext]_vars

-----------------------------------------------------------------------------
(* What the composite promises.                                            *)

Finished(s) == phase[s] = "idle" /\ tried[s] # Untried
Met(s, fate) == {e \in Engines : tried[s][e] = fate}

\* "Rotates the starting engine per query (spreading load)" (roundrobin.go:13):
\* over any run, with any searches in flight, no engine has been first for two
\* queries more than another.
RotationFair == \A e, f \in Engines : begun[e] <= begun[f] + 1

\* "Skipping it until the cooldown elapses" (roundrobin.go:14-15), with the
\* check and the call in different critical sections: a call under way at an
\* engine whose breaker is open was let through before that breaker opened,
\* never during its cooldown.
BreakerRespected ==
    \A s \in Searches :
        phase[s] = "calling" /\ IsCooled(At(s)) =>
            since[s] + Cooldown <= cooledUntil[At(s)]

\* A search that comes back without results has been refused by all: it left
\* no engine untried, and the ones it did not call were cooling (the loop has
\* no early exit but a non-empty answer, roundrobin.go:44-60).
FailoverComplete ==
    \A s \in Searches : Finished(s) =>
        /\ result[s].found <=> Met(s, "found") # {}
        /\ ~result[s].found => Met(s, "untried") = {}

\* "A healthy-but-empty result is returned as empty (not an error) so a cooling
\* engine's failure never surfaces" (roundrobin.go:15-16): an error comes back
\* only when no engine answered, and then it is the failure of an engine met on
\* this walk, transient only if that engine rate-limited.
ErrorOnlyIfNobodyAnswered ==
    \A s \in Searches : Finished(s) /\ result[s].err # NoError =>
        /\ Met(s, "empty") \cup Met(s, "found") = {}
        /\ Met(s, IF IsTransient(result[s].err) THEN "transient" ELSE "fatal") # {}

\* "A per-engine circuit breaker cools any engine that rate-limits, skipping it
\* until the cooldown elapses" (roundrobin.go:14-15), across searches: once any
\* search has acted on a rate limit from an engine, no search is let through to
\* it until a whole cooldown after that limit was heard; a failure that arrives
\* late never shortens it.
BreakerHolds ==
    [][\A s \in Searches :
        phase[s] = "check" /\ phase'[s] = "calling" => now >= limitedAt[At(s)] + Cooldown]_vars

\* Every query comes back, whatever the engines answer.
EverySearchReturns == \A s \in Searches : phase[s] # "idle" ~> phase[s] = "idle"

\* "An engine answered, just with nothing" (roundrobin.go:62): the empty result
\* without an error means that some engine answered.
EmptyMeansAnswered ==
    \A s \in Searches :
        Finished(s) /\ result[s] = Nothing(NoError) => Met(s, "empty") # {}
=============================================================================
