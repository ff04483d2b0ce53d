----------------------------- MODULE HttpClient -----------------------------
(***************************************************************************)
(* internal/httpx: the one HTTP primitive under search and fetch.          *)
(*                                                                         *)
(* A call of send() looks its key up in the cache; on a miss it runs the   *)
(* retry loop, whose every attempt acquires the host's pacing slot, puts   *)
(* the request on the wire and classifies the answer; a success is stored  *)
(* in the cache and returned.  Calls run concurrently and meet only in the *)
(* limiter and in the cache, whose modules this one composes on one clock. *)
(*                                                                         *)
(* phase[c]   idle      send() has not been entered                        *)
(*            acquire   the next attempt is due at wake[c] (the loop's     *)
(*                      sleep, over or not)                                *)
(*            pacing    inside Acquire, asleep until the slot              *)
(*            inflight  inside hc.Do: the server, or a redirect, is next   *)
(*            store     Do returned nil, cache.Set comes next              *)
(*            done      send() has returned result[c]                      *)
(***************************************************************************)
EXTENDS Retry, HttpErrors

CONSTANTS
    Calls,        \* concurrent calls of send()
    Requests,     \* what they may ask: [method, url, body, headers] records
    HostOf,       \* hostOf: url -> host
    MinInterval, JitterMax,                 \* of the limiter
    CacheTTL,     \* Config.CacheTTL
    StatusesOf,   \* the final HTTP statuses each host may answer with
    Hints,        \* parsed Retry-After headers they send, NoHint included
    MaxHops,      \* redirects net/http follows for one request (10)
    NoRequest, NoEntry

VARIABLES
    now, nextAllowed, sleepers,                     \* the limiter and its clock
    items,                                          \* the cache
    phase, req, attempt, wake, out, result,         \* locals of each send()
    hops,                                           \* redirects followed by the request in flight
    cancelled,                                      \* running calls whose ctx is cancelled
    heard,                                          \* history: kind of the last outcome a call heard
    owed,                                           \* history: when its next request may go out at the earliest
    wire, hopped                                    \* history: requests a host saw; those by redirect

pacing == <<nextAllowed, sleepers>>
wireVars == <<wire, hopped>>
heardVars == <<heard, owed>>
vars == <<now, pacing, items, phase, req, attempt, wake, out, result,
          hops, cancelled, heardVars, wireVars>>

Hosts == {HostOf[r.url] : r \in Requests}

ASSUME ClientAssumption ==
    /\ MinInterval \in Nat /\ JitterMax \in Nat
    /\ CacheTTL \in Int
    /\ Hints \ {NoHint} \subseteq Int
    /\ MaxHops \in Nat
    /\ \A h \in Hosts : StatusesOf[h] \subseteq Nat
    /\ NoRequest \notin Requests

\* The body stays out of the key.
M_CacheKeyOfUrl(r) == <<r.method, r.url>>

\* The headers go into the key.
M_CacheKeyWithHeaders(r) == <<r.method, r.url, r.body, r.headers>>

\* The key folds in method, url and body; the headers stay out of it.
CacheKey(r) == <<r.method, r.url, r.body>>
Keys == {CacheKey(r) : r \in Requests}

\* A body is known by the request that fetched it and the status it came with;
\* Empty is the nil slice of a loop that never ran fn.
Empty == [req |-> NoRequest, status |-> 0]
Bodies == [req: Requests, status: UNION {StatusesOf[h] : h \in Hosts}] \cup {Empty}

L == INSTANCE Limiter WITH Callers <- Calls
C == INSTANCE TTLCache WITH Values <- Bodies

ASSUME EntryAssumption == NoEntry \notin C!Entry

-----------------------------------------------------------------------------
(* Outcomes of one attempt.                                                *)

\* An error of hc.Do or of reading the body: connection, timeout, cancelled
\* ctx, too many redirects.  It is not retried.
NetworkError == [kind |-> "fatal", status |-> 0, hint |-> NoHint]

Outcome(status, hint) == [kind |-> KindOf(status), status |-> status, hint |-> hint]

Answers(h) ==
    {Outcome(s, NoHint) : s \in StatusesOf[h]} \cup
    {Outcome(s, d) : s \in {t \in StatusesOf[h] : KindOf(t) = "transient"}, d \in Hints}

Pending == [kind |-> "pending", body |-> Empty, from |-> "none", at |-> 0]

Body(b, source) == [kind |-> "body", body |-> b, from |-> source, at |-> now]
Error(kind) == [kind |-> kind, body |-> Empty, from |-> "none", at |-> 0]

-----------------------------------------------------------------------------
Init ==
    /\ L!LimiterInit
    /\ C!Init
    /\ phase = [c \in Calls |-> "idle"]
    /\ req = [c \in Calls |-> NoRequest]
    /\ attempt = [c \in Calls |-> 0]
    /\ wake = [c \in Calls |-> 0]
    /\ out = [c \in Calls |-> Empty]
    /\ result = [c \in Calls |-> Pending]
    /\ hops = [c \in Calls |-> 0]
    /\ cancelled = {}
    /\ heard = [c \in Calls |-> "none"]
    /\ owed = [c \in Calls |-> 0]
    /\ wire = [h \in Hosts |-> 0]
    /\ hopped = [h \in Hosts |-> 0]

Host(c) == HostOf[req[c].url]

\* send() returns r, and its ctx is of no further use.
Finish(c, r) ==
    /\ phase' = [phase EXCEPT ![c] = "done"]
    /\ result' = [result EXCEPT ![c] = r]
    /\ cancelled' = cancelled \ {c}

\* send() is entered and the cache holds a fresh entry: no network.
StartHit(c, r) ==
    /\ phase[c] = "idle"
    /\ \E v \in Bodies : C!Hit(CacheKey(r), v) /\ Finish(c, Body(v, "cache"))
    /\ req' = [req EXCEPT ![c] = r]
    /\ UNCHANGED <<now, pacing, attempt, wake, out, hops, heardVars, wireVars>>

\* send() is entered and misses.  Do's loop runs fn at once, or, with no
\* attempt to make, returns nil without running it.  The ctx it is handed may be
\* cancelled already.
StartMiss(c, r) ==
    /\ phase[c] = "idle"
    /\ C!Miss(CacheKey(r))
    /\ phase' = [phase EXCEPT ![c] = IF Attempts > 0 THEN "acquire" ELSE "store"]
    /\ wake' = [wake EXCEPT ![c] = now]
    /\ req' = [req EXCEPT ![c] = r]
    /\ cancelled' \in {cancelled, cancelled \cup {c}}
    /\ UNCHANGED <<now, pacing, attempt, out, result, hops, heardVars, wireVars>>

\* A retry goes out at once: only the first attempt of a call is paced.
M_ReserveFirstOnly(c) ==
    /\ phase[c] = "acquire"
    /\ now >= wake[c]
    /\ IF attempt[c] = 0 THEN L!Reserve(c, Host(c))
       ELSE /\ sleepers' = sleepers \cup {[caller |-> c, host |-> Host(c), due |-> now]}
            /\ UNCHANGED <<now, nextAllowed>>
    /\ phase' = [phase EXCEPT ![c] = "pacing"]
    /\ wake' = [wake EXCEPT ![c] = 0]
    /\ UNCHANGED <<items, req, attempt, out, result, hops, cancelled, heardVars, wireVars>>

\* The sleep of the retry loop is over; Acquire reserves the next slot.  Neither
\* looks at ctx.
Reserve(c) ==
    /\ phase[c] = "acquire"
    /\ now >= wake[c]
    /\ L!Reserve(c, Host(c))
    /\ phase' = [phase EXCEPT ![c] = "pacing"]
    /\ wake' = [wake EXCEPT ![c] = 0]
    /\ UNCHANGED <<items, req, attempt, out, result, hops, cancelled, heardVars, wireVars>>

\* The documented wait before the retry that follows outcome o.
PromisedWait(c, o) == IF o.hint # NoHint THEN o.hint ELSE Capped(Base * 2^attempt[c])

\* What the retry loop makes of an outcome.
Hear(c, o) ==
    /\ heard' = [heard EXCEPT ![c] = o.kind]
    /\ attempt' = [attempt EXCEPT ![c] = @ + 1]
    /\ \/ /\ o.kind = "ok"
          /\ out' = [out EXCEPT ![c] = [req |-> req[c], status |-> o.status]]
          /\ phase' = [phase EXCEPT ![c] = "store"]
          /\ UNCHANGED <<wake, owed, result, cancelled>>
       \/ /\ \/ o.kind = "fatal"
             \/ o.kind = "transient" /\ LastAttempt(attempt[c])
          /\ Finish(c, Error(o.kind))
          /\ UNCHANGED <<out, wake, owed>>
       \/ /\ o.kind = "transient" /\ ~LastAttempt(attempt[c])
          /\ \E d \in Backoffs(attempt[c], o.hint) : wake' = [wake EXCEPT ![c] = now + d]
          /\ owed' = [owed EXCEPT ![c] = now + PromisedWait(c, o)]
          /\ phase' = [phase EXCEPT ![c] = "acquire"]
          /\ UNCHANGED <<out, result, cancelled>>

\* The request does not carry ctx.
M_SendIgnoresCtx(c) ==
    /\ phase[c] = "pacing"
    /\ \E s \in sleepers : s.caller = c /\ L!Return(s)
    /\ wire' = [wire EXCEPT ![Host(c)] = @ + 1]
    /\ phase' = [phase EXCEPT ![c] = "inflight"]
    /\ owed' = [owed EXCEPT ![c] = 0]
    /\ UNCHANGED <<items, req, attempt, wake, out, result, hops, hopped, cancelled, heard>>

\* Acquire returns and hc.Do starts.  Under a cancelled ctx it fails at once.
Send(c) ==
    /\ phase[c] = "pacing"
    /\ \E s \in sleepers : s.caller = c /\ L!Return(s)
    /\ IF c \in cancelled
       THEN Hear(c, NetworkError) /\ UNCHANGED wire
       ELSE /\ wire' = [wire EXCEPT ![Host(c)] = @ + 1]
            /\ phase' = [phase EXCEPT ![c] = "inflight"]
            /\ owed' = [owed EXCEPT ![c] = 0]
            /\ UNCHANGED <<attempt, wake, out, result, cancelled, heard>>
    /\ UNCHANGED <<items, req, hops, hopped>>

\* The server redirects and net/http follows on its own: the next request goes
\* to host h inside the same hc.Do, past the limiter.
Redirect(c, h) ==
    /\ phase[c] = "inflight"
    /\ c \notin cancelled
    /\ hops[c] < MaxHops
    /\ hops' = [hops EXCEPT ![c] = @ + 1]
    /\ wire' = [wire EXCEPT ![h] = @ + 1]
    /\ hopped' = [hopped EXCEPT ![h] = @ + 1]
    /\ UNCHANGED <<now, pacing, items, phase, req, attempt, wake, out, result, cancelled, heardVars>>

\* Who may answer: after a redirect, any host it may have led to.
Answerers(c) == IF hops[c] = 0 THEN {Host(c)} ELSE Hosts

\* The answer is read in full, or hc.Do fails.
Answer(c) ==
    /\ phase[c] = "inflight"
    /\ \E h \in Answerers(c) : \E o \in Answers(h) \cup {NetworkError} : Hear(c, o)
    /\ hops' = [hops EXCEPT ![c] = 0]
    /\ UNCHANGED <<now, pacing, items, req, wireVars>>

\* A success also lifts the pacing of its host.
M_StoreLiftsPacing(c) ==
    /\ phase[c] = "store"
    /\ C!Set(CacheKey(req[c]), out[c], CacheTTL)
    /\ Finish(c, Body(out[c], "wire"))
    /\ out' = [out EXCEPT ![c] = Empty]
    /\ nextAllowed' = [nextAllowed EXCEPT ![Host(c)] = 0]
    /\ UNCHANGED <<now, sleepers, req, attempt, wake, hops, heardVars, wireVars>>

\* Do returned nil: cache the body and return it.
Store(c) ==
    /\ phase[c] = "store"
    /\ C!Set(CacheKey(req[c]), out[c], CacheTTL)
    /\ Finish(c, Body(out[c], "wire"))
    /\ out' = [out EXCEPT ![c] = Empty]
    /\ UNCHANGED <<now, pacing, req, attempt, wake, hops, heardVars, wireVars>>

\* The caller's ctx is cancelled.
Cancel(c) ==
    /\ phase[c] \notin {"idle", "done"}
    /\ c \notin cancelled
    /\ cancelled' = cancelled \cup {c}
    /\ UNCHANGED <<now, pacing, items, phase, req, attempt, wake, out, result, hops, heardVars, wireVars>>

\* A sleep is not over, a slot not due, an entry not expired.
DeadlineAhead ==
    \/ L!DeadlineAhead
    \/ C!DeadlineAhead
    \/ \E c \in Calls : phase[c] = "acquire" /\ wake[c] > now

\* An instant passes.
Pass ==
    /\ L!Advance
    /\ UNCHANGED <<items, phase, req, attempt, wake, out, result, hops, cancelled, heardVars, wireVars>>

\* Time passes while something waits for it.
Tick == DeadlineAhead /\ Pass

Step(c) == Reserve(c) \/ Send(c) \/ Answer(c) \/ Store(c)

Environment(c) ==
    \/ \E r \in Requests : StartHit(c, r) \/ StartMiss(c, r)
    \/ \E h \in Hosts : Redirect(c, h)
    \/ Cancel(c)

Next == Tick \/ \E c \in Calls : Step(c) \/ Environment(c)

\* The goroutines are scheduled, sleeps end, and hc.Do comes back: http.Client's
\* Timeout bounds it whatever the server does.
Fairness == WF_vars(Tick) /\ \A c \in Calls : WF_vars(Step(c))

Spec == Init /\ [][Next]_vars /\ Fairness

\* The same under a clock that may advance at any moment, for a system that the
\* client is a part of.
OpenNext == Pass \/ \E c \in Calls : Step(c) \/ Environment(c)
OpenSpec == Init /\ [][OpenNext]_vars

TypeOK ==
    /\ L!LimiterTypeOK
    /\ C!TypeOK
    /\ phase \in [Calls -> {"idle", "acquire", "pacing", "inflight", "store", "done"}]
    /\ req \in [Calls -> Requests \cup {NoRequest}]
    /\ attempt \in [Calls -> 0 .. Attempts]
    /\ wake \in [Calls -> Int]
    /\ out \in [Calls -> Bodies]
    /\ result \in [Calls -> [kind: {"pending", "body", "transient", "fatal"}, body: Bodies,
                             from: {"none", "cache", "wire"}, at: Nat]]
    /\ hops \in [Calls -> 0 .. MaxHops]
    /\ cancelled \subseteq Calls
    /\ heard \in [Calls -> {"none", "ok", "transient", "fatal"}]
    /\ owed \in [Calls -> Int]
    /\ wire \in [Hosts -> Nat] /\ hopped \in [Hosts -> Nat]

-----------------------------------------------------------------------------
(* What the client promises.                                               *)

\* Whatever the path (network, or a cache entry some other call stored), a call
\* that returns a body returns what a server answered, with a status the caller
\* should see as success, to a request with its own method, url and body
\* (client.go:119 "so different POSTs to one URL don't collide", :158-169).  In
\* particular no 202 or error page is ever cached or served.
ServedBodyMatches ==
    \A c \in Calls : result[c].kind = "body" =>
        LET b == result[c].body
        IN  /\ b # Empty
            /\ b.status \notin RetryableStatuses /\ b.status < 400
            /\ \A f \in {"method", "url", "body"} : b.req[f] = req[c][f]

\* "A hit skips the network entirely" (client.go:4), and is worth it: a call
\* that hits sends nothing, and what it returns was brought from the network by
\* an earlier call of the same key, less than CacheTTL ago (cache.go:30-49).
HitJustified ==
    \A c \in Calls : result[c].from = "cache" =>
        /\ attempt[c] = 0
        /\ \E d \in Calls :
            /\ result[d].from = "wire"
            /\ result[d].body = result[c].body
            /\ CacheKey(req[d]) = CacheKey(req[c])
            /\ result[d].at <= result[c].at /\ result[c].at < result[d].at + CacheTTL

\* "A hit skips the network entirely" (client.go:4), the other way round: nobody
\* goes to the network, whatever its headers are, while an answer to the same
\* method, url and body is younger than CacheTTL.  Misses that overlap all go,
\* and the last one to come back counts.
CacheNotWasted ==
    [][\A c, d \in Calls :
        /\ phase[c] = "idle" /\ phase'[c] \notin {"idle", "done"}
        /\ result[d].from = "wire"
        /\ \A f \in {"method", "url", "body"} : req[d][f] = req'[c][f]
        => now >= result[d].at + CacheTTL]_vars

\* "Calls fn up to opt.Attempts times ... any other error stops immediately"
\* (retry.go:33-35): a call that reports a transient error has used every
\* attempt and heard nothing better, one that reports another error stopped at
\* the first, and a success that came by the wire is the last thing it heard.
RetryDiscipline ==
    \A c \in Calls :
        /\ attempt[c] <= Attempts
        /\ result[c].kind = "transient" => attempt[c] = Attempts /\ heard[c] = "transient"
        /\ result[c].kind = "fatal" => heard[c] = "fatal"
        /\ phase[c] # "done" => heard[c] # "fatal"
        /\ result[c].from = "wire" => heard[c] = "ok"

\* "Returns ... nil on success" (retry.go:33-35): a call that did not hit the
\* cache reports success only when some attempt of it succeeded.
SuccessWasHeard == \A c \in Calls : result[c].from = "wire" => heard[c] = "ok"

\* Pacing survives the composition: of the requests the calls send on their own
\* account, retries included, a host sees no more than one plus the intervals
\* that have passed since the client was built, whatever the mix of hits, retries, Retry-After waits and
\* cancellations (client.go:131, Acquire inside every attempt).
RequestsPaced ==
    \A h \in Hosts :
        LET own == wire[h] - hopped[h]
        IN  own > 0 => MinInterval * (own - 1) <= now

\* "Per-host pacing before every request" (client.go:5), of the requests a host
\* sees: never more of them than one plus the intervals that have passed.
EveryRequestPaced == \A h \in Hosts : wire[h] > 0 => MinInterval * (wire[h] - 1) <= now

\* "Transient 202/429/5xx are retried, honoring Retry-After" (client.go:6): a
\* retry reaches the wire no earlier than the wait the server asked for, or else
\* the capped exponential backoff, after the answer it follows.
BackoffHonored ==
    [][\A c \in Calls : phase[c] = "pacing" /\ phase'[c] = "inflight" => now >= owed[c]]_vars

\* A cancelled call never puts another request on the wire (client.go:137, the
\* request carries ctx), although its sleeps run to their end.
CancelStopsRequests ==
    [][\A c \in cancelled :
        phase'[c] = "inflight" => phase[c] = "inflight" /\ hops'[c] = hops[c]]_vars

\* send() returns, whatever the servers answer and whoever is cancelled.
EveryCallReturns == \A c \in Calls : phase[c] # "idle" ~> phase[c] = "done"

\* Seen through its limiter alone the client is a limiter: no retry, hit, redirect
\* or cancellation touches the slots in another way than Acquire does.
PacerSpec == L!LimiterSpec
=============================================================================
