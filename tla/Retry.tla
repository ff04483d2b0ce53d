------------------------------- MODULE Retry -------------------------------
(***************************************************************************)
(* internal/retry: what Do decides after each call of fn, and how long it  *)
(* sleeps before the next one.  The loop itself runs inside the HTTP       *)
(* client (HttpClient.tla), whose fn it is given.                          *)
(***************************************************************************)
EXTENDS Integers

CONSTANTS
    Attempts,     \* Options.Attempts
    Base,         \* Options.Base
    MaxDelay,     \* Options.Max
    RetryJitter,  \* Options.Jitter: the jitter added is below it
    WordBits,     \* width of time.Duration (64 in Go)
    NoHint        \* HasRetryAfter = false

ASSUME RetryAssumption ==
    /\ Attempts \in Int
    /\ Base \in Nat /\ MaxDelay \in Nat /\ RetryJitter \in Nat
    /\ WordBits \in Nat \ {0}

\* x as a two's-complement integer of WordBits bits.
Wrap(x) == ((x + 2^(WordBits - 1)) % 2^WordBits) - 2^(WordBits - 1)

\* opt.Base << attempt: the high bits fall off, and the sign bit is one of them.
Shifted(attempt) == IF attempt >= WordBits THEN 0 ELSE Wrap(Base * 2^attempt)

Capped(d) == IF d > MaxDelay THEN MaxDelay ELSE d

\* Retry-After is capped like the computed wait.
M_BackoffsCapHint(attempt, hint) ==
    {Capped(IF hint # NoHint THEN hint ELSE Shifted(attempt)) + j : j \in {0} \cup 0 .. (RetryJitter - 1)}

\* backoff(): a Retry-After replaces the computed wait, unbounded and without
\* jitter; otherwise exponential from Base, capped, plus jitter.
Backoffs(attempt, hint) ==
    IF hint # NoHint
    THEN {hint}
    ELSE {Capped(Shifted(attempt)) + j : j \in {0} \cup 0 .. (RetryJitter - 1)}

\* One attempt too many, or too few.
M_LastAttemptLate(attempt) == attempt = Attempts
M_LastAttemptEarly(attempt) == attempt + 1 >= Attempts - 1

\* attempt (from 0) was the last one Do makes.
LastAttempt(attempt) == attempt = Attempts - 1
=============================================================================
