----------------------------- MODULE SearchStack -----------------------------
(***************************************************************************)
(* A web search from the engine composite down to the wire: RoundRobin     *)
(* over HttpClient, on one clock.                                          *)
(*                                                                         *)
(* RoundRobin takes an engine as something that answers anything, at any   *)
(* time.  Here an engine is its adapter: one call of the HTTP client,      *)
(* cached, paced per host and retried, and what it made of the outcome.    *)
(* One ctx is handed down from Search to every call; the walk itself never *)
(* looks at it.  No engine redirects: what that does to pacing is a matter *)
(* of the client alone.                                                    *)
(*                                                                         *)
(* A search id stands for one query; the call <<s, e>> is the one it makes *)
(* of engine e.                                                            *)
(***************************************************************************)
EXTENDS Integers, FiniteSets

CONSTANTS
    Searches, N, Cooldown, NoError,         \* of the composite
    RequestOf,                              \* the request an adapter makes: [engine -> request]
    HostOf, MinInterval, JitterMax, CacheTTL, StatusesOf, Hints,
    NoRequest, NoEntry,                     \* of the HTTP client
    Attempts, Base, MaxDelay, RetryJitter, WordBits, NoHint,
    Cancellable,                            \* searches whose ctx may be cancelled
    LastArrival                             \* bound: when the last query may begin

VARIABLES
    now,                                    \* time.Now, for both
    cursor, cooledUntil, phase, start, pos, anyResponded, lastErr, result,
    tried, since, limitedAt, begun, queries,                \* of the composite
    nextAllowed, sleepers, items, call, req, attempt, wake, out, reply,
    hops, heard, owed, wire, hopped,                        \* of the HTTP client
    ctxDone                                 \* searches whose ctx is cancelled

Engines == 0 .. N - 1
Calls == Searches \X Engines
Requests == {RequestOf[e] : e \in Engines}

\* Errors as the composite sees them: a Retryable, or anything else.
RateLimited == [kind |-> "retryable", status |-> 0]
OtherError == [kind |-> "other", status |-> 0]
Errors == {RateLimited, OtherError}

\* buildRoundRobin keeps at least one engine, and nil is no error.
ASSUME StackAssumption ==
    /\ N \in Nat \ {0}
    /\ Cooldown \in Nat
    /\ IsFiniteSet(Searches)
    /\ NoError \notin Errors

\* A running call is cancelled when the ctx it was handed is.
Cancelled == {c \in Calls : c[1] \in ctxDone /\ call[c] \notin {"idle", "done"}}

RR == INSTANCE RoundRobin WITH MaxSearches <- Cardinality(Searches)
H == INSTANCE HttpClient WITH phase <- call, result <- reply, cancelled <- Cancelled,
                            MaxHops <- 0

\* What the client takes for granted of its configuration.
ASSUME ExchangeAssumption ==
    /\ Attempts \in Int /\ Base \in Nat /\ MaxDelay \in Nat /\ RetryJitter \in Nat
    /\ WordBits \in Nat \ {0}
    /\ MinInterval \in Nat /\ JitterMax \in Nat /\ CacheTTL \in Int
    /\ Hints \ {NoHint} \subseteq Int
    /\ \A r \in Requests : StatusesOf[HostOf[r.url]] \subseteq Nat
    /\ NoRequest \notin Requests
    /\ NoEntry \notin H!C!Entry

searching == <<cursor, cooledUntil, phase, start, pos, anyResponded, lastErr, result,
               tried, since, limitedAt, begun, queries>>
exchanging == <<nextAllowed, sleepers, items, call, req, attempt, wake, out, reply,
                hops, heard, owed, wire, hopped>>
vars == <<now, searching, exchanging, ctxDone>>

Init == ctxDone = {} /\ RR!Init /\ H!Init

-----------------------------------------------------------------------------
\* The call of the engine search s is at.
Call(s) == <<s, RR!At(s)>>

\* A query begins.
Begin(s) ==
    /\ tried[s] = RR!Untried
    /\ now <= LastArrival
    /\ RR!Begin(s)
    /\ UNCHANGED <<exchanging, ctxDone>>

\* The composite checks the breaker, or opens it.
Decide(s) ==
    /\ RR!Skip(s) \/ RR!Admit(s) \/ RR!Cool(s)
    /\ UNCHANGED <<exchanging, ctxDone>>

\* The adapter builds its request and calls the client.
Ask(s) ==
    /\ phase[s] = "calling"
    /\ UNCHANGED <<now, searching, ctxDone>>
    /\ H!StartHit(Call(s), RequestOf[RR!At(s)]) \/ H!StartMiss(Call(s), RequestOf[RR!At(s)])

\* The client goes on with the call of search s.
Exchange(s) ==
    /\ UNCHANGED <<searching, ctxDone>>
    /\ H!Step(Call(s))

\* The client's error, handed up as it is: errors.As finds a Retryable in it
\* when the retry loop has given up on one.
ErrorOf(r) == IF r.kind = "transient" THEN RateLimited ELSE OtherError

\* The call is over: the adapter hands up the error, or parses the body, into
\* results, into none, or in vain.
Hear(s) ==
    /\ call[Call(s)] = "done"
    /\ LET r == reply[Call(s)]
           Fail(err) == RR!AnswerFatal(s, err) \/ RR!AnswerTransient(s, err)
       IN  \/ r.kind = "body" /\ (RR!AnswerFound(s) \/ RR!AnswerEmpty(s) \/ Fail(OtherError))
           \/ r.kind # "body" /\ Fail(ErrorOf(r))
    /\ UNCHANGED <<exchanging, ctxDone>>

\* A cancelled search gives up where it is, with neither results nor an error.
M_CancelEndsTheWalk(s) ==
    /\ s \in Cancellable \ ctxDone
    /\ phase[s] # "idle"
    /\ ctxDone' = ctxDone \cup {s}
    /\ phase' = [phase EXCEPT ![s] = "idle"]
    /\ UNCHANGED <<now, cursor, cooledUntil, start, pos, anyResponded, lastErr, result,
                   tried, since, limitedAt, begun, queries, exchanging>>

\* The client of the server goes away.
Cancel(s) ==
    /\ s \in Cancellable \ ctxDone
    /\ phase[s] # "idle"
    /\ ctxDone' = ctxDone \cup {s}
    /\ UNCHANGED <<now, searching, exchanging>>

\* Search s waits for a server or for the end of a sleep.
Waits(s) ==
    LET c == Call(s)
    IN  \/ phase[s] = "idle"
        \/ phase[s] = "calling" /\
            \/ call[c] = "inflight"
            \/ call[c] = "acquire" /\ wake[c] > now
            \/ \E z \in sleepers : z.caller = c /\ z.due > now

\* Time passes while every search waits: what a search does between two waits
\* takes no time.  And it passes only as long as something tells the difference.
Tick ==
    /\ \A s \in Searches : Waits(s)
    /\ H!DeadlineAhead \/ \E e \in Engines : RR!IsCooled(e)
    /\ RR!Advance
    /\ UNCHANGED <<exchanging, ctxDone>>

Step(s) == Decide(s) \/ Ask(s) \/ Exchange(s) \/ Hear(s)

Next == Tick \/ \E s \in Searches : Begin(s) \/ Step(s) \/ Cancel(s)

\* Of all that can go on, something does: an exchange ends by http.Client's
\* timeout, a sleep by the clock, and the goroutines run.  Nothing is assumed of
\* which search goes first.
Fairness == WF_vars(Tick \/ \E s \in Searches : Step(s))

Spec == Init /\ [][Next]_vars /\ Fairness

-----------------------------------------------------------------------------
(* What a search promises end to end.                                      *)

\* Over the real client the engines behave as RoundRobin takes them to
\* (roundrobin.go:48): every step of the stack, whatever the client is doing, is
\* a step of the composite or leaves it alone, so that every safety property of
\* RoundRobin holds of the stack.  (That its engine calls end, which RoundRobin
\* assumes, is not in it: that is what EverySearchReturns below rests on.)
Composite == RR!OpenSpec

\* Every query comes back, whatever the servers answer, whoever is cancelled
\* and however long the slots and the breakers make it wait: again and again
\* there is none under way.
EverySearchReturns == []<>(\A s \in Searches : phase[s] = "idle")

\* "A per-engine circuit breaker cools any engine that rate-limits, skipping it
\* until the cooldown elapses" (roundrobin.go:14-15), as the engine's host sees
\* it: a request, be it a first one, a retry or one that waited for its slot,
\* reaches it during a cooldown only from a search that was let through before
\* the cooldown began.
CooledEngineLeftAlone ==
    [][\A s \in Searches :
        LET until == cooledUntil[RR!At(s)]
        IN  call[Call(s)] # "inflight" /\ call'[Call(s)] = "inflight" /\ now < until =>
                since[s] + Cooldown <= until]_vars

\* A breaker opens on a rate limit only, and late: the search that opens it has
\* used every attempt on the engine and heard a retryable status to the last
\* (retry.go:43-50, roundrobin.go:50).  A cancelled ctx, a refusal, a dead
\* connection or a body that does not parse never takes an engine out.
OnlyRateLimitsCool ==
    [][\A e \in Engines : cooledUntil'[e] # cooledUntil[e] =>
        \E s \in Searches :
            /\ phase[s] = "cooling" /\ RR!At(s) = e
            /\ heard[<<s, e>>] = "transient"
            /\ attempt[<<s, e>>] = Attempts]_vars
=============================================================================
