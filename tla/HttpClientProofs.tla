-------------------------- MODULE HttpClientProofs --------------------------
(***************************************************************************)
(* The HTTP client for any calls, requests, hosts and statuses, any pacing, *)
(* any backoff of any width and any cache TTL, on its own or in a larger   *)
(* system, as long as it makes at least one attempt: its types, the retry  *)
(* discipline, what the cache serves and spares, cancellation, that its    *)
(* limiter is a limiter, the waits between attempts, and the rate of the   *)
(* requests a host sees.                                                   *)
(***************************************************************************)
EXTENDS HttpClient, FiniteSetTheorems, TLAPS

-----------------------------------------------------------------------------
(* What is inductive.                                                      *)

Underway == {"acquire", "pacing", "inflight"}

\* b is what a server answered, with success, to a request like r.
RightBody(b, r) ==
    /\ b # Empty
    /\ b.status \notin RetryableStatuses /\ b.status < 400
    /\ \A f \in {"method", "url", "body"} : b.req[f] = r[f]

\* Where a call stands in the retry loop tells what it has heard so far.
Account(c) ==
    /\ phase[c] # "idle" => req[c] \in Requests
    /\ phase[c] # "done" => result[c] = Pending
    /\ phase[c] = "idle" => attempt[c] = 0 /\ heard[c] = "none"
    /\ phase[c] \in Underway => attempt[c] < Attempts /\ heard[c] \in {"none", "transient"}
    /\ phase[c] = "store" => heard[c] = "ok" /\ RightBody(out[c], req[c])
    /\ result[c].kind = "transient" => attempt[c] = Attempts /\ heard[c] = "transient"
    /\ result[c].kind = "fatal" => heard[c] = "fatal"
    /\ result[c].kind = "body" => result[c].from \in {"cache", "wire"}
    /\ result[c].from # "none" => result[c].kind = "body" /\ RightBody(result[c].body, req[c])
    /\ result[c].from = "wire" => heard[c] = "ok" /\ result[c].at <= now
    /\ result[c].from = "cache" => attempt[c] = 0

Accounts == \A c \in Calls : Account(c)

\* Every entry of the cache was brought from the network by a call of its key,
\* and expires CacheTTL later.
Brought ==
    \A k \in Keys : items[k] # NoEntry =>
        \E d \in Calls :
            /\ result[d].from = "wire"
            /\ result[d].body = items[k].value
            /\ CacheKey(req[d]) = k
            /\ items[k].expires = result[d].at + CacheTTL

\* What was brought stays in the cache for CacheTTL at least.
Kept ==
    \A d \in Calls : result[d].from = "wire" =>
        \/ now >= result[d].at + CacheTTL
        \/ /\ items[CacheKey(req[d])] # NoEntry
           /\ items[CacheKey(req[d])].expires >= result[d].at + CacheTTL

\* A call between two attempts wakes no earlier than it owes the server, and one
\* that is past that sleep owes nothing more.
Due ==
    \A c \in Calls :
        /\ phase[c] = "idle" => owed[c] = 0
        /\ phase[c] = "acquire" => owed[c] <= wake[c]
        /\ phase[c] = "pacing" => owed[c] <= now

\* The requests host h saw on the calls' own account, and the calls that will
\* have their slot at h by instant x.
Own(h) == wire[h] - hopped[h]
Booked(h, x) == {s \in sleepers : s.host = h /\ s.due <= x}
Waiting(h) == {s \in sleepers : s.host = h}

\* A sleeper is a call inside Acquire, for the host of its request, and the only
\* one of that call.
Whose ==
    /\ \A s \in sleepers : phase[s.caller] = "pacing" /\ s.host = Host(s.caller)
    /\ \A s, z \in sleepers : s.caller = z.caller => s = z

\* Sent or booked up to any instant from now on, the requests of a host are no
\* more than one plus the intervals until then; the next slot lies an interval
\* past all of them.
Rate ==
    /\ IsFiniteSet(sleepers)
    /\ \A h \in Hosts :
        /\ Own(h) \in Nat
        /\ \A x \in Nat : x >= now =>
            LET n == Own(h) + Cardinality(Booked(h, x))
            IN  n > 0 => MinInterval * (n - 1) <= x
        /\ MinInterval * (Own(h) + Cardinality(Waiting(h))) <= nextAllowed[h]

Inv == TypeOK /\ Accounts

-----------------------------------------------------------------------------
(* The backoff.                                                            *)

\* A power of two is positive.
LEMMA PowerIsPositive == ASSUME NEW n \in Nat PROVE 2^n \in Nat \ {0}
<1>1. IsFiniteSet(1 .. n) /\ Cardinality(1 .. n) = n
  BY FS_Interval
<1>2. IsFiniteSet(SUBSET (1 .. n)) /\ Cardinality(SUBSET (1 .. n)) = 2^n
  BY <1>1, FS_SUBSET
<1>3. Cardinality(SUBSET (1 .. n)) # 0
  <2>1. SUBSET (1 .. n) # {}
    OBVIOUS
  <2> QED
    BY <1>2, <2>1, FS_EmptySet
<1> QED
  BY <1>2, <1>3, FS_CardinalityType

\* Whatever the width of the word, a wait is an integer (retry.go:54-65).
LEMMA WaitsAreIntegers ==
    ASSUME NEW n \in Nat, NEW hint \in Hints \cup {NoHint}
    PROVE  /\ Backoffs(n, hint) \subseteq Int
           /\ Capped(Base * 2^n) \in Int
           /\ hint # NoHint => hint \in Int
<1> USE RetryAssumption
<1>1. hint # NoHint => hint \in Int
  BY ClientAssumption
<1>2. 2^n \in Nat \ {0} /\ 2^WordBits \in Nat \ {0} /\ 2^(WordBits - 1) \in Nat \ {0}
  BY PowerIsPositive
<1>3. Base * 2^n \in Int
  BY <1>2
<1>4. Shifted(n) \in Int
  BY <1>2, <1>3 DEF Shifted, Wrap
<1>5. Capped(Shifted(n)) \in Int /\ Capped(Base * 2^n) \in Int
  BY <1>3, <1>4 DEF Capped
<1> QED
  BY <1>1, <1>5 DEF Backoffs

-----------------------------------------------------------------------------
(* One call at a time.                                                     *)

\* What a call hears is a kind, a hint, and for a success one of the statuses of
\* the host that answered, classified (client.go:158-169).
LEMMA OutcomesHaveTypes ==
    ASSUME NEW h \in Hosts, NEW o \in Answers(h) \cup {NetworkError}
    PROVE  /\ o.kind \in {"ok", "transient", "fatal"}
           /\ o.hint \in Hints \cup {NoHint}
           /\ o.kind = "ok" =>
                /\ o.status \in StatusesOf[h]
                /\ o.status \notin RetryableStatuses /\ o.status < 400
<1>1. CASE o = NetworkError
  BY <1>1 DEF NetworkError
<1>2. ASSUME NEW status \in StatusesOf[h], NEW hint \in Hints \cup {NoHint},
             o = Outcome(status, hint)
      PROVE  /\ o.kind \in {"ok", "transient", "fatal"}
             /\ o.hint \in Hints \cup {NoHint}
             /\ o.kind = "ok" =>
                 /\ o.status \in StatusesOf[h]
                 /\ o.status \notin RetryableStatuses /\ o.status < 400
  <2>1. status \in Nat
    BY ClientAssumption
  <2>2. o.kind = KindOf(status) /\ o.status = status /\ o.hint = hint
    BY <1>2 DEF Outcome
  <2> QED
    BY <2>1, <2>2 DEF KindOf
<1> QED
  BY <1>1, <1>2 DEF Answers

\* Only its own steps move a call.
LEMMA OthersStandStill ==
    ASSUME TypeOK, NEW c \in Calls, Step(c) \/ Environment(c), NEW d \in Calls, d # c
    PROVE  /\ phase'[d] = phase[d] /\ req'[d] = req[d] /\ attempt'[d] = attempt[d]
           /\ heard'[d] = heard[d] /\ out'[d] = out[d] /\ result'[d] = result[d]
<1> DEFINE same == /\ phase'[d] = phase[d] /\ req'[d] = req[d] /\ attempt'[d] = attempt[d]
                   /\ heard'[d] = heard[d] /\ out'[d] = out[d] /\ result'[d] = result[d]
<1>1. /\ DOMAIN phase = Calls /\ DOMAIN req = Calls /\ DOMAIN attempt = Calls
      /\ DOMAIN heard = Calls /\ DOMAIN out = Calls /\ DOMAIN result = Calls
  BY DEF TypeOK
<1>2. ASSUME NEW r, StartHit(c, r) PROVE same
  BY <1>1, <1>2 DEF StartHit, Finish, heardVars
<1>3. ASSUME NEW r, StartMiss(c, r) PROVE same
  BY <1>1, <1>3 DEF StartMiss, heardVars
<1>4. CASE Reserve(c)
  BY <1>1, <1>4 DEF Reserve, heardVars
<1>5. ASSUME NEW o, Hear(c, o), UNCHANGED req PROVE same
  BY <1>1, <1>5 DEF Hear, Finish
<1>6. CASE Send(c)
  <2>1. CASE c \in cancelled
    BY <1>5, <1>6, <2>1 DEF Send
  <2>2. CASE c \notin cancelled
    BY <1>1, <1>6, <2>2 DEF Send
  <2> QED
    BY <2>1, <2>2
<1>7. CASE Answer(c)
  BY <1>5, <1>7 DEF Answer
<1>8. CASE Store(c)
  BY <1>1, <1>8 DEF Store, Finish, heardVars
<1>9. CASE Cancel(c) \/ \E h \in Hosts : Redirect(c, h)
  BY <1>9 DEF Cancel, Redirect, heardVars
<1> QED
  BY <1>2, <1>3, <1>4, <1>6, <1>7, <1>8, <1>9 DEF Step, Environment

\* Hearing an outcome keeps the account of the call, and the types of all that
\* the retry loop writes (retry.go:36-52).
LEMMA HearingKeepsTheAccount ==
    ASSUME Attempts \in Nat \ {0}, Inv, NEW c \in Calls, phase[c] \in {"pacing", "inflight"},
           NEW h \in Hosts, NEW o \in Answers(h) \cup {NetworkError}, Hear(c, o),
           UNCHANGED <<now, req>>
    PROVE  /\ phase' \in [Calls -> {"idle", "acquire", "pacing", "inflight", "store", "done"}]
           /\ attempt' \in [Calls -> 0 .. Attempts]
           /\ wake' \in [Calls -> Int] /\ owed' \in [Calls -> Int]
           /\ out' \in [Calls -> Bodies]
           /\ result' \in [Calls -> [kind: {"pending", "body", "transient", "fatal"}, body: Bodies,
                                     from: {"none", "cache", "wire"}, at: Nat]]
           /\ cancelled' \subseteq Calls
           /\ heard' \in [Calls -> {"none", "ok", "transient", "fatal"}]
           /\ Account(c)'
<1> DEFINE types == /\ phase \in [Calls -> {"idle", "acquire", "pacing", "inflight", "store", "done"}]
                    /\ attempt \in [Calls -> 0 .. Attempts]
                    /\ wake \in [Calls -> Int] /\ owed \in [Calls -> Int]
                    /\ out \in [Calls -> Bodies]
                    /\ result \in [Calls -> [kind: {"pending", "body", "transient", "fatal"}, body: Bodies,
                                             from: {"none", "cache", "wire"}, at: Nat]]
                    /\ cancelled \subseteq Calls
                    /\ heard \in [Calls -> {"none", "ok", "transient", "fatal"}]
<1> DEFINE succeeds ==
    /\ o.kind = "ok"
    /\ out' = [out EXCEPT ![c] = [req |-> req[c], status |-> o.status]]
    /\ phase' = [phase EXCEPT ![c] = "store"]
    /\ UNCHANGED <<wake, owed, result, cancelled>>
<1> DEFINE stops ==
    /\ o.kind = "fatal" \/ (o.kind = "transient" /\ LastAttempt(attempt[c]))
    /\ Finish(c, Error(o.kind))
    /\ UNCHANGED <<out, wake, owed>>
<1> DEFINE retries ==
    /\ o.kind = "transient" /\ ~LastAttempt(attempt[c])
    /\ \E d \in Backoffs(attempt[c], o.hint) : wake' = [wake EXCEPT ![c] = now + d]
    /\ owed' = [owed EXCEPT ![c] = now + PromisedWait(c, o)]
    /\ phase' = [phase EXCEPT ![c] = "acquire"]
    /\ UNCHANGED <<out, result, cancelled>>
<1>1. types /\ now \in Nat
  BY DEF Inv, TypeOK, L!LimiterTypeOK
<1>2. /\ req[c] \in Requests /\ result[c] = Pending /\ attempt[c] \in Nat
      /\ attempt[c] < Attempts /\ heard[c] \in {"none", "transient"}
  BY <1>1 DEF Inv, Accounts, Account, Underway
<1>4. /\ o.kind \in {"ok", "transient", "fatal"} /\ o.hint \in Hints \cup {NoHint}
      /\ o.kind = "ok" =>
            /\ o.status \in StatusesOf[h]
            /\ o.status \notin RetryableStatuses /\ o.status < 400
  BY OutcomesHaveTypes
<1>5. attempt' = [attempt EXCEPT ![c] = @ + 1] /\ heard' = [heard EXCEPT ![c] = o.kind]
  BY DEF Hear
<1>6. /\ attempt' \in [Calls -> 0 .. Attempts] /\ attempt'[c] = attempt[c] + 1
      /\ heard' \in [Calls -> {"none", "ok", "transient", "fatal"}] /\ heard'[c] = o.kind
  BY <1>1, <1>2, <1>4, <1>5
<1>7. CASE succeeds
  <2> DEFINE b == [req |-> req[c], status |-> o.status]
  <2>1. b \in Bodies
    BY <1>2, <1>4, <1>7 DEF Bodies
  <2>2. RightBody(b, req[c])
    <3>1. b # Empty
      BY <1>2, ClientAssumption DEF Empty
    <3> QED
      BY <1>4, <1>7, <3>1 DEF RightBody
  <2>3. out'[c] = b /\ phase'[c] = "store" /\ result'[c] = Pending /\ req'[c] = req[c]
    BY <1>1, <1>2, <1>7
  <2>4. RightBody(out[c], req[c])'
    BY <2>2, <2>3 DEF RightBody
  <2>5. Account(c)'
    BY <1>2, <1>6, <1>7, <2>3, <2>4 DEF Account, Pending, Underway
  <2> QED
    BY <1>1, <1>6, <1>7, <2>1, <2>5
<1>8. CASE stops
  <2>1. Error(o.kind) \in [kind: {"pending", "body", "transient", "fatal"}, body: Bodies,
                           from: {"none", "cache", "wire"}, at: Nat]
    BY <1>8 DEF Error, Bodies
  <2>2. phase'[c] = "done" /\ result'[c] = Error(o.kind) /\ req'[c] = req[c]
    BY <1>1, <1>8 DEF Finish
  <2>3. o.kind = "transient" => attempt'[c] = Attempts
    BY <1>2, <1>6, <1>8 DEF LastAttempt
  <2>4. Account(c)'
    BY <1>2, <1>6, <1>8, <2>2, <2>3 DEF Account, Error, Underway
  <2> QED
    BY <1>1, <1>6, <1>8, <2>1, <2>4 DEF Finish
<1>9. CASE retries
  <2>1. Backoffs(attempt[c], o.hint) \subseteq Int /\ PromisedWait(c, o) \in Int
    BY <1>2, <1>4, WaitsAreIntegers DEF PromisedWait
  <2>2. wake' \in [Calls -> Int] /\ owed' \in [Calls -> Int]
    BY <1>1, <1>9, <2>1
  <2>3. phase'[c] = "acquire" /\ result'[c] = Pending /\ req'[c] = req[c]
    BY <1>1, <1>2, <1>9
  <2>4. attempt'[c] < Attempts
    BY <1>2, <1>6, <1>9 DEF LastAttempt
  <2>5. Account(c)'
    BY <1>2, <1>6, <1>9, <2>3, <2>4 DEF Account, Pending, Underway
  <2> QED
    BY <1>1, <1>6, <1>9, <2>2, <2>5
<1> QED
  <2>1. succeeds \/ stops \/ retries
    BY DEF Hear
  <2> HIDE DEF succeeds, stops, retries
  <2> QED
    BY <1>7, <1>8, <1>9, <2>1

\* Every step of a call keeps all types, and its own account.
LEMMA StepKeepsInv ==
    ASSUME Attempts \in Nat \ {0}, Inv, NEW c \in Calls, Step(c) \/ Environment(c),
           C!TypeOK, \A k \in Keys : items[k] # NoEntry =>
                         \A r \in Requests : CacheKey(r) = k => RightBody(items[k].value, r)
    PROVE  TypeOK' /\ Account(c)'
<1> USE DEF L!LimiterTypeOK, L!Wait, C!TypeOK, C!Entry, TypeOK, Inv
<1>1. Account(c) /\ now \in Nat
  BY DEF Accounts
<1>2. phase[c] # "idle" => Host(c) \in Hosts
  BY <1>1 DEF Account, Host, Hosts
<1>3. ASSUME NEW r \in Requests, StartHit(c, r) PROVE TypeOK' /\ Account(c)'
  <2>1. PICK v \in Bodies : C!Hit(CacheKey(r), v) /\ Finish(c, Body(v, "cache"))
    BY <1>3 DEF StartHit
  <2>2. CacheKey(r) \in Keys
    BY DEF Keys
  <2>3. /\ phase[c] = "idle" /\ phase'[c] = "done" /\ result'[c] = Body(v, "cache")
        /\ req' = [req EXCEPT ![c] = r] /\ req'[c] = r
        /\ UNCHANGED <<now, pacing, items, attempt, wake, out, hops, heardVars, wireVars>>
    BY <1>3, <2>1 DEF StartHit, Finish, C!Hit
  <2>4. Body(v, "cache") \in [kind: {"pending", "body", "transient", "fatal"}, body: Bodies,
                             from: {"none", "cache", "wire"}, at: Nat]
    BY <1>1 DEF Body
  <2>5. RightBody(v, r)
    BY <2>1, <2>2 DEF C!Hit, C!Fresh
  <2>6. Account(c)'
    BY <1>1, <2>3, <2>5 DEF Account, Body, Underway, heardVars, RightBody
  <2> QED
    BY <2>1, <2>3, <2>4, <2>6 DEF Finish, pacing, heardVars, wireVars
<1>4. ASSUME NEW r \in Requests, StartMiss(c, r) PROVE TypeOK' /\ Account(c)'
  <2>1. items' \in [Keys -> C!Entry \cup {NoEntry}]
    BY <1>4 DEF StartMiss, C!Miss
  <2>2. /\ phase'[c] = "acquire" /\ req'[c] = r
        /\ UNCHANGED <<now, pacing, attempt, out, result, hops, heardVars, wireVars>>
    BY <1>4 DEF StartMiss
  <2>3. Account(c)'
    BY <1>1, <1>4, <2>2 DEF Account, Pending, StartMiss, Underway, heardVars
  <2> QED
    BY <1>1, <1>4, <2>1, <2>2, <2>3 DEF StartMiss, pacing, heardVars, wireVars
<1>5. CASE Reserve(c)
  <2>1. Host(c) \in Hosts
    BY <1>2, <1>5 DEF Reserve
  <2>2. L!LimiterTypeOK'
    <3>1. L!Earliest(Host(c)) \in Nat
      BY <1>1, <2>1 DEF L!Earliest
    <3>2. \A j \in L!Jitters : j \in Nat
      BY ClientAssumption DEF L!Jitters
    <3>3. nextAllowed' \in [Hosts -> Nat]
      <4>1. PICK j \in L!Jitters :
              nextAllowed' = [nextAllowed EXCEPT ![Host(c)] = L!Earliest(Host(c)) + MinInterval + j]
        BY <1>5 DEF Reserve, L!Reserve
      <4>2. L!Earliest(Host(c)) + MinInterval + j \in Nat
        BY <3>1, <3>2, ClientAssumption
      <4> QED
        BY <4>1, <4>2
    <3>4. sleepers' \subseteq L!Wait
      BY <1>5, <2>1, <3>1 DEF Reserve, L!Reserve
    <3> QED
      BY <1>5, <3>3, <3>4 DEF Reserve, L!Reserve
  <2>3. Account(c)'
    BY <1>1, <1>5, <2>1 DEF Account, Reserve, L!Reserve, Underway, heardVars
  <2> QED
    BY <1>5, <2>2, <2>3 DEF Reserve, heardVars, wireVars
<1>6. CASE Send(c)
  <2>1. UNCHANGED <<now, nextAllowed, items, req, hops, hopped>> /\ sleepers' \subseteq sleepers
    BY <1>6 DEF Send, L!Return
  <2>2. CASE c \in cancelled
    <3>1. Host(c) \in Hosts
      BY <1>2, <1>6 DEF Send
    <3> QED
      BY <1>6, <2>1, <2>2, <3>1, HearingKeepsTheAccount DEF Send
  <2>3. CASE c \notin cancelled
    <3>1. Account(c)'
      BY <1>1, <1>6, <2>1, <2>3 DEF Send, Account, Underway
    <3>2. Host(c) \in Hosts
      BY <1>2, <1>6 DEF Send
    <3>3. wire' \in [Hosts -> Nat] /\ owed' \in [Calls -> Int]
      BY <1>6, <2>3, <3>2 DEF Send
    <3> QED
      BY <1>6, <2>1, <2>3, <3>1, <3>3 DEF Send
  <2> QED
    BY <2>2, <2>3
<1>7. CASE Answer(c)
  <2>1. PICK h \in Hosts : \E o \in Answers(h) \cup {NetworkError} : Hear(c, o)
    <3>1. Host(c) \in Hosts
      BY <1>2, <1>7 DEF Answer
    <3> QED
      BY <1>7, <3>1 DEF Answer, Answerers
  <2>2. /\ phase[c] = "inflight" /\ UNCHANGED <<now, pacing, items, req, wireVars>>
        /\ hops' \in [Calls -> 0 .. MaxHops]
    BY <1>7, ClientAssumption DEF Answer
  <2> QED
    BY <2>1, <2>2, HearingKeepsTheAccount DEF pacing, wireVars
<1>8. CASE Store(c)
  <2>1. items' \in [Keys -> C!Entry \cup {NoEntry}]
    <3>1. items' = [items EXCEPT ![CacheKey(req[c])] =
                      [value |-> out[c], expires |-> now + CacheTTL]]
      BY <1>8 DEF Store, C!Set
    <3>2. [value |-> out[c], expires |-> now + CacheTTL] \in C!Entry
      BY <1>1, ClientAssumption
    <3> QED
      BY <3>1, <3>2
  <2>2. Empty \in Bodies
    BY DEF Bodies
  <2>3. Body(out[c], "wire") \in [kind: {"pending", "body", "transient", "fatal"}, body: Bodies,
                                 from: {"none", "cache", "wire"}, at: Nat]
    BY <1>1 DEF Body
  <2>4. /\ phase[c] = "store" /\ phase'[c] = "done" /\ result'[c] = Body(out[c], "wire")
        /\ UNCHANGED <<now, pacing, req, attempt, wake, hops, heardVars, wireVars>>
    BY <1>8 DEF Store, Finish
  <2>5. Account(c)'
    BY <1>1, <2>4 DEF Account, Body, Underway, heardVars, RightBody
  <2> QED
    BY <1>8, <2>1, <2>2, <2>3, <2>4, <2>5 DEF Store, Finish, pacing, heardVars, wireVars
<1>9. CASE Cancel(c)
  BY <1>1, <1>9 DEF Cancel, pacing, heardVars, wireVars, Account, RightBody
<1>10. ASSUME NEW h \in Hosts, Redirect(c, h) PROVE TypeOK' /\ Account(c)'
  <2>1. hops' \in [Calls -> 0 .. MaxHops]
    BY <1>10, ClientAssumption DEF Redirect
  <2> QED
    BY <1>1, <1>10, <2>1 DEF Redirect, pacing, heardVars, Account, RightBody
<1> QED
  BY <1>3, <1>4, <1>5, <1>6, <1>7, <1>8, <1>9, <1>10 DEF Step, Environment

-----------------------------------------------------------------------------
(* All calls.                                                              *)

\* A call that has returned is of the past: its request and result stay.
LEMMA DoneIsFinal ==
    ASSUME TypeOK, [OpenNext]_vars, NEW d \in Calls, phase[d] = "done"
    PROVE  result'[d] = result[d] /\ req'[d] = req[d]
<1>1. CASE Pass \/ UNCHANGED vars
  BY <1>1 DEF Pass, vars
<1>2. ASSUME NEW c \in Calls, c # d, Step(c) \/ Environment(c)
      PROVE  result'[d] = result[d] /\ req'[d] = req[d]
  BY <1>2, OthersStandStill
<1>3. ~Step(d) /\ \A r : ~StartHit(d, r) /\ ~StartMiss(d, r)
  BY DEF Step, Reserve, Send, Answer, Store, StartHit, StartMiss
<1>4. CASE Environment(d)
  BY <1>3, <1>4 DEF Environment, Redirect, Cancel
<1> QED
  BY <1>1, <1>2, <1>3, <1>4 DEF OpenNext

\* The clock never runs backwards, and a call's body comes from the wire only if
\* its Store step did it.
LEMMA ClockAndWire ==
    ASSUME Inv, [OpenNext]_vars
    PROVE  /\ now' = now \/ now' = now + 1
           /\ \A d \in Calls : result'[d].from # "none" =>
                  \/ phase[d] = "done"
                  \/ result'[d].from = "wire" /\ Store(d)
                  \/ result'[d].from = "cache" /\ \E r \in Requests : StartHit(d, r)
<1>1. now' = now \/ now' = now + 1
  <2>1. ASSUME NEW c \in Calls, Step(c) \/ Environment(c) PROVE now' = now
    BY <2>1 DEF Step, Environment, Reserve, Send, Answer, Store, StartHit, StartMiss, Redirect,
                Cancel, L!Reserve, L!Return
  <2> QED
    BY <2>1 DEF OpenNext, Pass, L!Advance, vars
<1>2. ASSUME NEW d \in Calls, result'[d].from # "none", phase[d] # "done"
      PROVE  \/ result'[d].from = "wire" /\ Store(d)
             \/ result'[d].from = "cache" /\ \E r \in Requests : StartHit(d, r)
  <2>1. result[d] = Pending /\ Pending.from = "none" /\ DOMAIN result = Calls
    BY <1>2 DEF Inv, Accounts, Account, Pending, TypeOK
  <2>2. Step(d) \/ Environment(d)
    <3>1. ASSUME NEW c \in Calls, c # d, Step(c) \/ Environment(c) PROVE FALSE
      BY <1>2, <2>1, <3>1, OthersStandStill DEF Inv
    <3> QED
      BY <1>2, <2>1, <3>1 DEF OpenNext, Pass, vars
  <2>3. ASSUME NEW o, Hear(d, o) PROVE result'[d].from = "none"
    BY <2>1, <2>3 DEF Hear, Finish, Error
  <2>4. ~Reserve(d) /\ ~Answer(d) /\ ~Send(d) /\ ~Cancel(d)
        /\ (\A r : ~StartMiss(d, r)) /\ \A h : ~Redirect(d, h)
    BY <1>2, <2>1, <2>3 DEF Reserve, Answer, Send, Cancel, StartMiss, Redirect
  <2>5. CASE Store(d)
    BY <2>1, <2>5 DEF Store, Finish, Body
  <2>6. ASSUME NEW r \in Requests, StartHit(d, r) PROVE result'[d].from = "cache"
    BY <2>1, <2>6 DEF StartHit, Finish, Body
  <2> QED
    BY <2>2, <2>4, <2>5, <2>6 DEF Step, Environment
<1> QED
  BY <1>1, <1>2

\* The cache is written by a Store, and by a miss that deletes what expired.
LEMMA WhoWritesTheCache ==
    ASSUME [OpenNext]_vars
    PROVE  \/ items' = items
           \/ \E c \in Calls, r \in Requests : C!Miss(CacheKey(r)) /\ StartMiss(c, r)
           \/ \E c \in Calls : Store(c)
BY DEF OpenNext, Step, Environment, Pass, vars, Reserve, Send, Answer, Cancel, Redirect,
       StartHit, StartMiss, C!Hit

\* A hit serves the right body, to whoever asks for that key.
LEMMA EntriesAreRight ==
    ASSUME Inv, Brought, NEW k \in Keys, items[k] # NoEntry,
           NEW r \in Requests, CacheKey(r) = k
    PROVE  RightBody(items[k].value, r)
<1>1. PICK d \in Calls : /\ result[d].from = "wire" /\ result[d].body = items[k].value
                         /\ CacheKey(req[d]) = CacheKey(r)
  BY DEF Brought
<1>2. RightBody(result[d].body, req[d])
  BY <1>1 DEF Inv, Accounts, Account
<1> QED
  BY <1>1, <1>2 DEF RightBody, CacheKey

LEMMA InvIsKept ==
    ASSUME Attempts \in Nat \ {0}, Inv, Brought, [OpenNext]_vars
    PROVE  Inv'
<1>1. ASSUME NEW d \in Calls,
             /\ phase'[d] = phase[d] /\ req'[d] = req[d] /\ attempt'[d] = attempt[d]
             /\ heard'[d] = heard[d] /\ out'[d] = out[d] /\ result'[d] = result[d]
      PROVE  Account(d)'
  <2>1. Account(d) /\ now \in Nat /\ result[d].at \in Nat
    BY DEF Inv, Accounts, TypeOK, L!LimiterTypeOK
  <2>2. now' = now \/ now' = now + 1
    BY ClockAndWire
  <2> QED
    BY <1>1, <2>1, <2>2 DEF Account, RightBody
<1>2. ASSUME NEW c \in Calls, Step(c) \/ Environment(c) PROVE Inv'
  <2>1. TypeOK' /\ Account(c)'
    BY <1>2, EntriesAreRight, StepKeepsInv DEF Inv, TypeOK
  <2>2. ASSUME NEW d \in Calls, d # c PROVE Account(d)'
    BY <1>1, <1>2, <2>2, OthersStandStill DEF Inv
  <2> QED
    BY <2>1, <2>2 DEF Inv, Accounts
<1>3. CASE Pass
  <2>1. TypeOK'
    BY <1>3 DEF Pass, L!Advance, heardVars, wireVars, Inv, TypeOK, L!LimiterTypeOK, C!TypeOK
  <2> QED
    BY <1>1, <1>3, <2>1 DEF Pass, heardVars, Inv, Accounts
<1>4. CASE UNCHANGED vars
  <2>1. TypeOK'
    BY <1>4 DEF vars, pacing, heardVars, wireVars, Inv, TypeOK, L!LimiterTypeOK, C!TypeOK
  <2> QED
    BY <1>1, <1>4, <2>1 DEF vars, heardVars, Inv, Accounts
<1> QED
  BY <1>2, <1>3, <1>4 DEF OpenNext

LEMMA BroughtIsKept ==
    ASSUME Inv, Brought, [OpenNext]_vars
    PROVE  Brought'
<1> SUFFICES ASSUME NEW k \in Keys, items'[k] # NoEntry
             PROVE  \E d \in Calls :
                        /\ result'[d].from = "wire"
                        /\ result'[d].body = items'[k].value
                        /\ CacheKey(req'[d]) = k
                        /\ items'[k].expires = result'[d].at + CacheTTL
  BY DEF Brought, CacheKey
<1>1. items \in [Keys -> C!Entry \cup {NoEntry}]
  BY DEF Inv, TypeOK, C!TypeOK
<1>2. CASE items'[k] = items[k]
  <2>1. PICK d \in Calls : /\ result[d].from = "wire" /\ result[d].body = items[k].value
                           /\ CacheKey(req[d]) = k
                           /\ items[k].expires = result[d].at + CacheTTL
    BY <1>2 DEF Brought
  <2>2. phase[d] = "done"
    BY <2>1 DEF Inv, Accounts, Account, Pending
  <2>3. result'[d] = result[d] /\ req'[d] = req[d]
    BY <2>2, DoneIsFinal DEF Inv
  <2> QED
    BY <1>2, <2>1, <2>3
<1>3. ASSUME NEW c \in Calls, NEW r \in Requests, C!Miss(CacheKey(r))
      PROVE  items'[k] = items[k]
  BY <1>1, <1>3 DEF C!Miss
<1>4. ASSUME NEW c \in Calls, Store(c), items'[k] # items[k]
      PROVE  \E d \in Calls :
                /\ result'[d].from = "wire"
                /\ result'[d].body = items'[k].value
                /\ CacheKey(req'[d]) = k
                /\ items'[k].expires = result'[d].at + CacheTTL
  <2>1. /\ items' = [items EXCEPT ![CacheKey(req[c])] =
                        [value |-> out[c], expires |-> now + CacheTTL]]
        /\ result' = [result EXCEPT ![c] = Body(out[c], "wire")] /\ req' = req
        /\ DOMAIN result = Calls
    BY <1>4 DEF Store, C!Set, Finish, Inv, TypeOK
  <2>2. k = CacheKey(req[c])
    BY <1>1, <1>4, <2>1
  <2>3. items'[k] = [value |-> out[c], expires |-> now + CacheTTL]
    BY <1>1, <2>1, <2>2
  <2>4. result'[c] = Body(out[c], "wire")
    BY <2>1
  <2> QED
    BY <2>1, <2>2, <2>3, <2>4 DEF Body
<1> QED
  BY <1>2, <1>3, <1>4, WhoWritesTheCache

LEMMA KeptIsKept ==
    ASSUME Inv, Kept, [OpenNext]_vars
    PROVE  Kept'
<1> SUFFICES ASSUME NEW d \in Calls, result'[d].from = "wire"
             PROVE  LET k == CacheKey(req'[d])
                        until == result'[d].at + CacheTTL
                    IN  now' >= until \/ (items'[k] # NoEntry /\ items'[k].expires >= until)
  BY DEF Kept, CacheKey
<1> DEFINE k == CacheKey(req'[d])
           until == result'[d].at + CacheTTL
<1>1. /\ items \in [Keys -> C!Entry \cup {NoEntry}] /\ now \in Nat /\ CacheTTL \in Int
      /\ now' = now \/ now' = now + 1
  BY ClientAssumption, ClockAndWire DEF Inv, TypeOK, C!TypeOK, L!LimiterTypeOK
<1>2. phase[d] = "done" \/ Store(d)
  BY ClockAndWire
<1>3. CASE Store(d)
  <2>1. /\ items' = [items EXCEPT ![CacheKey(req[d])] =
                        [value |-> out[d], expires |-> now + CacheTTL]]
        /\ result' = [result EXCEPT ![d] = Body(out[d], "wire")] /\ req' = req
        /\ DOMAIN result = Calls /\ req[d] \in Requests
    BY <1>3 DEF Store, C!Set, Finish, Inv, TypeOK, Accounts, Account
  <2>2. result'[d].at = now
    BY <2>1 DEF Body
  <2>3. CacheKey(req[d]) \in Keys
    BY <2>1 DEF Keys
  <2>4. items'[k] = [value |-> out[d], expires |-> now + CacheTTL]
    BY <1>1, <2>1, <2>3
  <2>5. items'[k] # NoEntry
    BY <1>1, <2>4, EntryAssumption DEF C!Entry, Inv, TypeOK
  <2> QED
    BY <1>1, <2>2, <2>4, <2>5
<1>4. CASE phase[d] = "done"
  <2>1. result'[d] = result[d] /\ req'[d] = req[d]
    BY <1>4, DoneIsFinal DEF Inv
  <2>2. /\ k \in Keys /\ until \in Int /\ result[d].at <= now
        /\ now >= until \/ (items[k] # NoEntry /\ items[k].expires >= until)
    <3>1. req[d] \in Requests /\ result[d].at \in Nat /\ result[d].at <= now
      BY <2>1, <1>4 DEF Inv, TypeOK, Accounts, Account
    <3> QED
      BY <1>1, <2>1, <3>1 DEF Kept, Keys
  <2>3. CASE now >= until \/ items'[k] = items[k]
    BY <1>1, <2>2, <2>3
  <2>4. ASSUME NEW c \in Calls, NEW r \in Requests, C!Miss(CacheKey(r))
        PROVE  now >= until \/ items'[k] = items[k]
    <3>1. CASE k = CacheKey(r)
      <4>1. ~(items[k] # NoEntry /\ now < items[k].expires)
        BY <2>4, <3>1 DEF C!Miss, C!Fresh
      <4>2. items[k] # NoEntry => items[k].expires \in Int
        BY <1>1, <2>2 DEF C!Entry
      <4> QED
        BY <1>1, <2>2, <4>1, <4>2
    <3>2. CASE k # CacheKey(r)
      BY <1>1, <2>2, <2>4, <3>2 DEF C!Miss
    <3> QED
      BY <3>1, <3>2
  <2>5. ASSUME NEW c \in Calls, Store(c), items'[k] # items[k]
        PROVE  items'[k] # NoEntry /\ items'[k].expires >= until
    <3>1. items' = [items EXCEPT ![CacheKey(req[c])] =
                      [value |-> out[c], expires |-> now + CacheTTL]]
      BY <2>5 DEF Store, C!Set
    <3>2. items'[k] = [value |-> out[c], expires |-> now + CacheTTL]
      BY <1>1, <2>2, <2>5, <3>1
    <3>3. result[d].at \in Nat
      BY DEF Inv, TypeOK
    <3>4. items'[k] # NoEntry
      BY <1>1, <3>2, EntryAssumption DEF C!Entry, Inv, TypeOK
    <3> QED
      BY <1>1, <2>1, <2>2, <3>2, <3>3, <3>4
  <2> QED
    BY <2>3, <2>4, <2>5, WhoWritesTheCache
<1> QED
  BY <1>2, <1>3, <1>4

\* Once justified, a hit stays so, and a new one is by what Brought says.
LEMMA HitsStayJustified ==
    ASSUME Inv, Brought, HitJustified, [OpenNext]_vars
    PROVE  HitJustified'
<1> SUFFICES ASSUME NEW c \in Calls, result'[c].from = "cache"
             PROVE  /\ attempt'[c] = 0
                    /\ \E d \in Calls :
                        /\ result'[d].from = "wire"
                        /\ result'[d].body = result'[c].body
                        /\ CacheKey(req'[d]) = CacheKey(req'[c])
                        /\ result'[d].at <= result'[c].at
                        /\ result'[c].at < result'[d].at + CacheTTL
  BY DEF HitJustified, CacheKey
<1>1. ASSUME NEW d \in Calls, result[d].from = "wire"
      PROVE  result'[d] = result[d] /\ req'[d] = req[d]
  BY <1>1, DoneIsFinal DEF Inv, Accounts, Account, Pending
<1>2. CASE phase[c] = "done"
  <2>1. result'[c] = result[c] /\ req'[c] = req[c]
    BY <1>2, DoneIsFinal DEF Inv
  <2>2. PICK d \in Calls : /\ result[d].from = "wire"
                           /\ result[d].body = result[c].body
                           /\ CacheKey(req[d]) = CacheKey(req[c])
                           /\ result[d].at <= result[c].at
                           /\ result[c].at < result[d].at + CacheTTL
    BY <2>1 DEF HitJustified
  <2>3. attempt'[c] = 0
    <3>1. attempt[c] = 0
      BY <2>1 DEF HitJustified
    <3>2. UNCHANGED attempt \/ \E e \in Calls : e # c /\ (Step(e) \/ Environment(e))
      <4>1. ~Step(c)
        BY <1>2 DEF Step, Reserve, Send, Answer, Store
      <4> QED
        BY <4>1 DEF OpenNext, Environment, StartHit, StartMiss, Redirect, Cancel, Pass, vars
    <3> QED
      BY <3>1, <3>2, OthersStandStill DEF Inv
  <2> QED
    BY <1>1, <2>1, <2>2, <2>3
<1>3. ASSUME NEW r \in Requests, StartHit(c, r)
      PROVE  /\ attempt'[c] = 0
             /\ \E d \in Calls :
                 /\ result'[d].from = "wire"
                 /\ result'[d].body = result'[c].body
                 /\ CacheKey(req'[d]) = CacheKey(req'[c])
                 /\ result'[d].at <= result'[c].at
                 /\ result'[c].at < result'[d].at + CacheTTL
  <2>1. PICK v \in Bodies : C!Hit(CacheKey(r), v) /\ Finish(c, Body(v, "cache"))
    BY <1>3 DEF StartHit
  <2>2. /\ items[CacheKey(r)] # NoEntry /\ now < items[CacheKey(r)].expires
        /\ v = items[CacheKey(r)].value /\ CacheKey(r) \in Keys
    BY <2>1 DEF C!Hit, C!Fresh, Keys
  <2>3. /\ result'[c] = Body(v, "cache") /\ req'[c] = r /\ attempt'[c] = 0
    BY <1>3, <2>1 DEF StartHit, Finish, Inv, TypeOK, Accounts, Account
  <2>4. PICK d \in Calls : /\ result[d].from = "wire" /\ result[d].body = v
                           /\ CacheKey(req[d]) = CacheKey(r)
                           /\ items[CacheKey(r)].expires = result[d].at + CacheTTL
    BY <2>2 DEF Brought
  <2>5. result[d].at <= now
    BY <2>4 DEF Inv, Accounts, Account
  <2> QED
    BY <1>1, <2>2, <2>3, <2>4, <2>5 DEF Body
<1> QED
  BY <1>2, <1>3, ClockAndWire

-----------------------------------------------------------------------------
(* The theorems.                                                           *)

\* The client whose clock stands still while nothing waits for it is one whose
\* clock may advance at any moment: what follows holds of it too.
THEOREM ClosedIsOpen == Spec => OpenSpec
<1>1. [Next]_vars => [OpenNext]_vars
  BY DEF Next, OpenNext, Tick
<1> QED
  BY <1>1, PTL DEF Spec, OpenSpec

LEMMA InvHolds == ASSUME Attempts \in Nat \ {0} PROVE OpenSpec => [](Inv /\ Brought /\ Kept)
<1>1. Init => Inv /\ Brought /\ Kept
  <2> SUFFICES ASSUME Init PROVE Inv /\ Brought /\ Kept
    OBVIOUS
  <2>1. L!LimiterTypeOK /\ C!TypeOK
    BY DEF Init, L!LimiterInit, L!LimiterTypeOK, C!Init, C!TypeOK
  <2>2. Empty \in Bodies
    BY DEF Bodies
  <2>3. TypeOK
    BY <2>1, <2>2, ClientAssumption DEF Init, TypeOK, Pending
  <2>4. Accounts
    BY DEF Init, Accounts, Account, Pending, Underway
  <2>5. Brought /\ Kept
    BY DEF Init, C!Init, Brought, Kept, Pending
  <2> QED
    BY <2>3, <2>4, <2>5 DEF Inv
<1>2. Inv /\ Brought /\ Kept /\ [OpenNext]_vars => (Inv /\ Brought /\ Kept)'
  BY InvIsKept, BroughtIsKept, KeptIsKept
<1> QED
  BY <1>1, <1>2, PTL DEF OpenSpec

\* Every variable keeps its type.
THEOREM TypeCorrect == ASSUME Attempts \in Nat \ {0} PROVE OpenSpec => []TypeOK
<1>1. Inv => TypeOK
  BY DEF Inv
<1> QED
  BY <1>1, InvHolds, PTL

\* "Calls fn up to opt.Attempts times ... any other error stops immediately"
\* (retry.go:33-35), for any number of attempts but none.
THEOREM RetryIsDisciplined == ASSUME Attempts \in Nat \ {0} PROVE OpenSpec => []RetryDiscipline
<1>1. Inv => RetryDiscipline
  <2> SUFFICES ASSUME Inv, NEW c \in Calls
               PROVE  /\ attempt[c] <= Attempts
                      /\ result[c].kind = "transient" =>
                            attempt[c] = Attempts /\ heard[c] = "transient"
                      /\ result[c].kind = "fatal" => heard[c] = "fatal"
                      /\ phase[c] # "done" => heard[c] # "fatal"
                      /\ result[c].from = "wire" => heard[c] = "ok"
    BY DEF RetryDiscipline
  <2> QED
    BY DEF Inv, TypeOK, Accounts, Account, Underway
<1> QED
  BY <1>1, InvHolds, PTL

\* Whatever the path, a body is what a server answered, with success, to a request
\* with the caller's method, url and body (client.go:119, :158-169).
THEOREM BodiesMatch == ASSUME Attempts \in Nat \ {0} PROVE OpenSpec => []ServedBodyMatches
<1>1. Inv => ServedBodyMatches
  BY DEF Inv, Accounts, Account, RightBody, ServedBodyMatches
<1> QED
  BY <1>1, InvHolds, PTL

\* "A hit skips the network entirely" (client.go:4) and is fresh: brought by a
\* call of the same key less than CacheTTL ago.
THEOREM HitsAreJustified == ASSUME Attempts \in Nat \ {0} PROVE OpenSpec => []HitJustified
<1>1. Init => HitJustified
  BY DEF Init, HitJustified, Pending
<1>2. Inv /\ Brought /\ HitJustified /\ [OpenNext]_vars => HitJustified'
  BY HitsStayJustified
<1> QED
  BY <1>1, <1>2, InvHolds, PTL DEF OpenSpec

\* Nobody goes to the network while an answer to the same request is younger than
\* CacheTTL, whoever brought it and whatever came after.
THEOREM CacheIsNotWasted == ASSUME Attempts \in Nat \ {0} PROVE OpenSpec => CacheNotWasted
<1>1. Inv /\ Kept /\ [OpenNext]_vars =>
      [\A c, d \in Calls :
          /\ phase[c] = "idle" /\ phase'[c] \notin {"idle", "done"}
          /\ result[d].from = "wire"
          /\ \A f \in {"method", "url", "body"} : req[d][f] = req'[c][f]
          => now >= result[d].at + CacheTTL]_vars
  <2> SUFFICES ASSUME Inv, Kept, [OpenNext]_vars, NEW c \in Calls, NEW d \in Calls,
                      phase[c] = "idle", phase'[c] \notin {"idle", "done"},
                      result[d].from = "wire",
                      \A f \in {"method", "url", "body"} : req[d][f] = req'[c][f]
               PROVE  now >= result[d].at + CacheTTL
    OBVIOUS
  <2>1. CacheKey(req[d]) = CacheKey(req'[c])
    BY DEF CacheKey
  <2>2. PICK r \in Requests : StartMiss(c, r)
    <3>1. DOMAIN phase = Calls
      BY DEF Inv, TypeOK
    <3>2. Step(c) \/ Environment(c)
      <4>1. ASSUME NEW e \in Calls, e # c, Step(e) \/ Environment(e) PROVE FALSE
        BY <4>1, OthersStandStill DEF Inv
      <4> QED
        BY <4>1 DEF OpenNext, Pass, vars
    <3>3. ~Step(c) /\ ~Cancel(c) /\ \A h : ~Redirect(c, h)
      BY DEF Step, Reserve, Send, Answer, Store, Cancel, Redirect
    <3>4. \A r : ~StartHit(c, r)
      BY <3>1 DEF StartHit, Finish
    <3> QED
      BY <3>2, <3>3, <3>4 DEF Environment
  <2>3. req'[c] = r
    BY <2>2 DEF StartMiss, Inv, TypeOK
  <2>4. CacheKey(r) \in Keys /\ CacheKey(req[d]) = CacheKey(r)
    BY <2>1, <2>3 DEF Keys
  <2>5. ~(items[CacheKey(r)] # NoEntry /\ now < items[CacheKey(r)].expires)
    BY <2>2 DEF StartMiss, C!Miss, C!Fresh
  <2>6. /\ now \in Nat /\ result[d].at + CacheTTL \in Int
        /\ items[CacheKey(r)] # NoEntry => items[CacheKey(r)].expires \in Int
    BY <2>4, ClientAssumption DEF Inv, TypeOK, L!LimiterTypeOK, C!TypeOK, C!Entry
  <2> QED
    BY <2>4, <2>5, <2>6 DEF Kept
<1> QED
  BY <1>1, InvHolds, PTL DEF OpenSpec, CacheNotWasted

\* A cancelled call never puts another request on the wire (client.go:137).
THEOREM CancelStops == ASSUME Attempts \in Nat \ {0} PROVE OpenSpec => CancelStopsRequests
<1>1. Inv /\ [OpenNext]_vars =>
      [\A c \in cancelled :
          phase'[c] = "inflight" => phase[c] = "inflight" /\ hops'[c] = hops[c]]_vars
  <2> SUFFICES ASSUME Inv, [OpenNext]_vars, NEW c \in cancelled, phase'[c] = "inflight"
               PROVE  phase[c] = "inflight" /\ hops'[c] = hops[c]
    OBVIOUS
  <2>1. c \in Calls /\ DOMAIN phase = Calls /\ DOMAIN hops = Calls
    BY DEF Inv, TypeOK
  <2>2. CASE Pass \/ UNCHANGED vars
    BY <2>2 DEF Pass, vars
  <2>3. ASSUME NEW e \in Calls, e # c, Step(e) \/ Environment(e)
        PROVE  phase[c] = "inflight" /\ hops'[c] = hops[c]
    <3>1. phase'[c] = phase[c]
      BY <2>1, <2>3, OthersStandStill DEF Inv
    <3>2. hops'[c] = hops[c]
      BY <2>1, <2>3
         DEF Step, Environment, Reserve, Send, Answer, Store, StartHit, StartMiss, Redirect,
             Cancel
    <3> QED
      BY <3>1, <3>2
  <2>4. ASSUME NEW o, Hear(c, o) PROVE phase'[c] # "inflight"
    BY <2>1, <2>4 DEF Hear, Finish
  <2>5. ~Answer(c) /\ ~Send(c) /\ ~Reserve(c) /\ ~Store(c) /\ ~Cancel(c)
        /\ (\A h : ~Redirect(c, h)) /\ \A r : ~StartHit(c, r) /\ ~StartMiss(c, r)
    BY <2>1, <2>4 DEF Answer, Send, Reserve, Store, Cancel, Redirect, StartHit, StartMiss, Finish
  <2> QED
    BY <2>1, <2>2, <2>3, <2>5 DEF OpenNext, Step, Environment
<1> QED
  BY <1>1, InvHolds, PTL DEF OpenSpec, CancelStopsRequests

\* Seen through its limiter alone the client is a limiter: retries, hits,
\* cancellation and redirects never reserve, wait or wake but as Acquire does.
THEOREM ClientIsPaced == ASSUME Attempts \in Nat \ {0} PROVE OpenSpec => PacerSpec
<1>1. Init => L!LimiterInit
  BY DEF Init
<1>2. Inv /\ [OpenNext]_vars => [L!LimiterNext]_L!limiterVars
  <2> SUFFICES ASSUME Inv, [OpenNext]_vars PROVE [L!LimiterNext]_L!limiterVars
    OBVIOUS
  <2>1. CASE Pass
    BY <2>1 DEF Pass, L!LimiterNext
  <2>2. ASSUME NEW c \in Calls, Reserve(c) PROVE L!LimiterNext
    <3>1. Host(c) \in Hosts
      BY <2>2 DEF Reserve, Inv, Accounts, Account, Host, Hosts
    <3> QED
      BY <2>2, <3>1 DEF Reserve, L!LimiterNext
  <2>3. ASSUME NEW c \in Calls, Send(c) PROVE L!LimiterNext
    BY <2>3 DEF Send, L!LimiterNext
  <2>4. ASSUME NEW c \in Calls, Answer(c) \/ Store(c) \/ Environment(c)
        PROVE  UNCHANGED L!limiterVars
    BY <2>4 DEF Answer, Store, Environment, StartHit, StartMiss, Redirect, Cancel, pacing,
                L!limiterVars
  <2>5. CASE UNCHANGED vars
    BY <2>5 DEF vars, pacing, L!limiterVars
  <2> QED
    BY <2>1, <2>2, <2>3, <2>4, <2>5 DEF OpenNext, Step
<1> QED
  BY <1>1, <1>2, InvHolds, PTL DEF OpenSpec, PacerSpec, L!LimiterSpec

-----------------------------------------------------------------------------
(* The waits between attempts.                                             *)

\* The shift of the backoff loses no bits.
NoOverflow == \A n \in 0 .. Attempts - 1 : n < WordBits /\ Shifted(n) = Base * 2^n

\* Without an overflow a retry waits at least as long as was promised
\* (retry.go:54-65): a cap and a jitter never shorten it.
LEMMA WaitsAreLongEnough ==
    ASSUME NoOverflow, NEW n \in 0 .. Attempts - 1, NEW hint \in Hints \cup {NoHint},
           NEW d \in Backoffs(n, hint)
    PROVE  d \in Int /\ (IF hint # NoHint THEN hint ELSE Capped(Base * 2^n)) <= d
<1>1. n \in Nat /\ Shifted(n) = Base * 2^n
  BY DEF NoOverflow
<1>2. Backoffs(n, hint) \subseteq Int /\ Capped(Base * 2^n) \in Int /\ (hint # NoHint => hint \in Int)
  BY <1>1, WaitsAreIntegers
<1>3. CASE hint # NoHint
  BY <1>2, <1>3 DEF Backoffs
<1>4. CASE hint = NoHint
  <2>1. PICK j \in {0} \cup 0 .. (RetryJitter - 1) : d = Capped(Base * 2^n) + j
    BY <1>1, <1>4 DEF Backoffs
  <2>2. j \in Nat
    BY RetryAssumption
  <2> QED
    BY <1>2, <1>4, <2>1, <2>2
<1> QED
  BY <1>3, <1>4

LEMMA DueIsKept ==
    ASSUME Attempts \in Nat \ {0}, NoOverflow, Inv, Due, [OpenNext]_vars
    PROVE  Due'
<1> SUFFICES ASSUME NEW c \in Calls
             PROVE  /\ phase'[c] = "idle" => owed'[c] = 0
                    /\ phase'[c] = "acquire" => owed'[c] <= wake'[c]
                    /\ phase'[c] = "pacing" => owed'[c] <= now'
  BY DEF Due
<1> DEFINE good == /\ phase'[c] = "idle" => owed'[c] = 0
                   /\ phase'[c] = "acquire" => owed'[c] <= wake'[c]
                   /\ phase'[c] = "pacing" => owed'[c] <= now'
<1>1. /\ DOMAIN phase = Calls /\ wake \in [Calls -> Int] /\ owed \in [Calls -> Int]
      /\ now \in Nat
      /\ now' = now \/ now' = now + 1
  BY ClockAndWire DEF Inv, TypeOK, L!LimiterTypeOK
<1>2. /\ phase[c] = "idle" => owed[c] = 0
      /\ phase[c] = "acquire" => owed[c] <= wake[c]
      /\ phase[c] = "pacing" => owed[c] <= now
  BY DEF Due
<1>3. CASE phase'[c] = phase[c] /\ owed'[c] = owed[c] /\ wake'[c] = wake[c]
  BY <1>1, <1>2, <1>3
<1>0. \A e \in Calls : phase[e] \in {"pacing", "inflight"} => Host(e) \in Hosts
  BY DEF Inv, Accounts, Account, Underway, Host, Hosts
<1>4. ASSUME NEW e \in Calls, phase[e] \in {"pacing", "inflight"},
             NEW h \in Hosts, NEW o \in Answers(h) \cup {NetworkError}, Hear(e, o)
      PROVE  good
  <2>1. CASE e # c
    BY <1>1, <1>3, <1>4, <2>1 DEF Hear, Finish
  <2>2. CASE e = c /\ phase'[c] # "acquire"
    BY <1>1, <1>4, <2>2 DEF Hear, Finish
  <2>3. CASE e = c /\ phase'[c] = "acquire"
    <3>1. PICK d \in Backoffs(attempt[c], o.hint) :
            /\ wake' = [wake EXCEPT ![c] = now + d]
            /\ owed' = [owed EXCEPT ![c] = now + PromisedWait(c, o)]
      BY <1>1, <1>4, <2>3 DEF Hear, Finish
    <3>2. attempt[c] \in 0 .. Attempts - 1 /\ req[c] \in Requests
      BY <1>4, <2>3 DEF Inv, TypeOK, Accounts, Account, Underway
    <3>3. o.hint \in Hints \cup {NoHint}
      BY OutcomesHaveTypes
    <3>4. d \in Int /\ PromisedWait(c, o) <= d /\ PromisedWait(c, o) \in Int
      <4>1. d \in Int /\ (IF o.hint # NoHint THEN o.hint ELSE Capped(Base * 2^attempt[c])) <= d
        BY <3>2, <3>3, WaitsAreLongEnough
      <4>2. attempt[c] \in Nat
        BY <3>2
      <4>3. Capped(Base * 2^attempt[c]) \in Int /\ (o.hint # NoHint => o.hint \in Int)
        BY <3>3, <4>2, WaitsAreIntegers
      <4> QED
        BY <4>1, <4>3 DEF PromisedWait
    <3>5. wake'[c] = now + d /\ owed'[c] = now + PromisedWait(c, o)
      BY <1>1, <3>1
    <3> QED
      BY <1>1, <2>3, <3>4, <3>5
  <2> QED
    BY <2>1, <2>2, <2>3
<1>5. ASSUME NEW e \in Calls, Send(e) PROVE good
  <2>1. CASE e \in cancelled
    BY <1>0, <1>4, <1>5, <2>1 DEF Send
  <2>2. CASE e \notin cancelled
    BY <1>1, <1>3, <1>5, <2>2 DEF Send
  <2> QED
    BY <2>1, <2>2
<1>6. ASSUME NEW e \in Calls, Answer(e) PROVE good
  BY <1>0, <1>4, <1>6 DEF Answer, Answerers
<1>7. ASSUME NEW e \in Calls, Reserve(e) PROVE good
  BY <1>1, <1>2, <1>3, <1>7 DEF Reserve, L!Reserve, heardVars
<1>8. ASSUME NEW e \in Calls, NEW r, StartMiss(e, r) PROVE good
  BY <1>1, <1>2, <1>3, <1>8 DEF StartMiss, heardVars
<1>9. ASSUME NEW e \in Calls,
             Store(e) \/ Cancel(e) \/ (\E r \in Requests : StartHit(e, r))
                      \/ (\E h \in Hosts : Redirect(e, h))
      PROVE  good
  BY <1>1, <1>3, <1>9 DEF Store, Cancel, StartHit, Redirect, Finish, heardVars
<1>10. CASE Pass \/ UNCHANGED vars
  BY <1>3, <1>10 DEF Pass, vars, heardVars
<1> QED
  BY <1>5, <1>6, <1>7, <1>8, <1>9, <1>10 DEF OpenNext, Step, Environment

\* "Transient 202/429/5xx are retried, honoring Retry-After" (client.go:6): as long
\* as the shift of the backoff does not overflow, no retry reaches the wire before
\* the wait the server asked for, or else the capped backoff, is over.
THEOREM BackoffIsHonored ==
    ASSUME Attempts \in Nat \ {0}, NoOverflow PROVE OpenSpec => BackoffHonored
<1>1. Init => Due
  BY DEF Init, Due
<1>2. Inv /\ Due /\ [OpenNext]_vars => Due'
  BY DueIsKept
<1>3. Inv /\ Due => [\A c \in Calls :
          phase[c] = "pacing" /\ phase'[c] = "inflight" => now >= owed[c]]_vars
  BY DEF Due, Inv, TypeOK, L!LimiterTypeOK
<1> QED
  BY <1>1, <1>2, <1>3, InvHolds, PTL DEF OpenSpec, BackoffHonored

-----------------------------------------------------------------------------
(* The rate.                                                               *)

\* More intervals take no less time.
LEMMA Monotone == \A k \in Nat : \A a, b \in Int : a <= b => k * a <= k * b
OBVIOUS

\* Only Reserve and Send touch the limiter, and only Send and Redirect the wire.
LEMMA WhoPaces ==
    ASSUME Inv, [OpenNext]_vars
    PROVE  \/ \E c \in Calls : Reserve(c) \/ Send(c)
           \/ UNCHANGED <<sleepers, nextAllowed>> /\ \A h \in Hosts : Own(h)' = Own(h)
<1>1. ASSUME NEW c \in Calls, NEW g \in Hosts, Redirect(c, g), NEW h \in Hosts
      PROVE  Own(h)' = Own(h)
  <2>1. wire \in [Hosts -> Nat] /\ hopped \in [Hosts -> Nat]
    BY DEF Inv, TypeOK
  <2>2. CASE g = h
    <3>1. wire'[h] = wire[h] + 1 /\ hopped'[h] = hopped[h] + 1
      BY <1>1, <2>1, <2>2 DEF Redirect
    <3> QED
      BY <2>1, <3>1 DEF Own
  <2>3. CASE g # h
    BY <1>1, <2>1, <2>3 DEF Redirect, Own
  <2> QED
    BY <2>2, <2>3
<1> QED
  BY <1>1
     DEF OpenNext, Step, Environment, Pass, L!Advance, vars, pacing, wireVars, Answer, Store,
         StartHit, StartMiss, Redirect, Cancel, Own

LEMMA WhoseIsKept == ASSUME Inv, Whose, [OpenNext]_vars PROVE Whose'
<1>0. \A s, z \in sleepers' : s.caller = z.caller => s = z
  <2>1. CASE sleepers' \subseteq sleepers
    BY <2>1 DEF Whose
  <2>2. ASSUME NEW c \in Calls, Reserve(c)
        PROVE  \A s, z \in sleepers' : s.caller = z.caller => s = z
    BY <2>2 DEF Reserve, L!Reserve, L!Sleeping, Whose
  <2>3. ASSUME NEW c \in Calls, Send(c) PROVE sleepers' \subseteq sleepers
    BY <2>3 DEF Send, L!Return
  <2> QED
    BY <2>1, <2>2, <2>3, WhoPaces
<1> SUFFICES ASSUME NEW s \in sleepers'
             PROVE  phase'[s.caller] = "pacing" /\ s.host = Host(s.caller)'
  BY <1>0 DEF Whose
<1>1. /\ sleepers \subseteq [caller: Calls, host: Hosts, due: Nat]
      /\ phase \in [Calls -> {"idle", "acquire", "pacing", "inflight", "store", "done"}]
      /\ DOMAIN req = Calls
  BY DEF Inv, TypeOK, L!LimiterTypeOK, L!Wait
<1>2. ASSUME s \in sleepers,
             phase'[s.caller] = phase[s.caller] /\ req'[s.caller] = req[s.caller]
      PROVE  phase'[s.caller] = "pacing" /\ s.host = Host(s.caller)'
  BY <1>2 DEF Whose, Host
<1>3. CASE Pass \/ UNCHANGED vars
  BY <1>2, <1>3 DEF Pass, L!Advance, vars, pacing
<1>4. ASSUME NEW c \in Calls, Step(c) \/ Environment(c), s \in sleepers, s.caller # c
      PROVE  phase'[s.caller] = "pacing" /\ s.host = Host(s.caller)'
  BY <1>1, <1>2, <1>4, OthersStandStill DEF Inv
<1>5. ASSUME NEW c \in Calls, Step(c) \/ Environment(c), s \in sleepers, s.caller = c, ~Send(c)
      PROVE  phase'[s.caller] = "pacing" /\ s.host = Host(s.caller)'
  <2>1. phase[c] = "pacing"
    BY <1>5 DEF Whose
  <2> QED
    BY <1>2, <1>5, <2>1
       DEF Step, Environment, Reserve, Answer, Store, StartHit, StartMiss, Redirect, Cancel
<1>6. ASSUME NEW c \in Calls, Send(c), s.caller = c
      PROVE  FALSE
  <2>1. PICK z \in sleepers : z.caller = c /\ sleepers' = sleepers \ {z}
    BY <1>6 DEF Send, L!Return
  <2> QED
    BY <1>6, <2>1 DEF Whose
<1>7. ASSUME NEW c \in Calls, Reserve(c), s \notin sleepers
      PROVE  phase'[s.caller] = "pacing" /\ s.host = Host(s.caller)'
  BY <1>1, <1>7 DEF Reserve, L!Reserve, Host
<1>8. ASSUME NEW c \in Calls, (Step(c) /\ ~Reserve(c)) \/ Environment(c)
      PROVE  s \in sleepers
  BY <1>8 DEF Step, Environment, Send, L!Return, Answer, Store, StartHit, StartMiss, Redirect,
              Cancel, pacing
<1>9. ASSUME NEW c \in Calls, Step(c) \/ Environment(c)
      PROVE  phase'[s.caller] = "pacing" /\ s.host = Host(s.caller)'
  <2>1. CASE s \notin sleepers
    BY <1>7, <1>8, <1>9, <2>1 DEF Step
  <2>2. CASE s \in sleepers
    BY <1>4, <1>5, <1>6, <1>9, <2>2
  <2> QED
    BY <2>1, <2>2
<1> QED
  BY <1>3, <1>9 DEF OpenNext

\* A reservation books the next slot, an interval past all that were booked, and
\* a send turns a booking that is due into a request or, cancelled, into nothing.
LEMMA RateIsKept == ASSUME Inv, Whose, Rate, [OpenNext]_vars PROVE Rate'
<1> USE DEF Rate
<1>1. /\ sleepers \subseteq [caller: Calls, host: Hosts, due: Nat] /\ now \in Nat
      /\ nextAllowed \in [Hosts -> Nat] /\ wire \in [Hosts -> Nat] /\ hopped \in [Hosts -> Nat]
      /\ MinInterval \in Nat
  BY ClientAssumption DEF Inv, TypeOK, L!LimiterTypeOK, L!Wait
<1>2. \A h, x : IsFiniteSet(Booked(h, x)) /\ IsFiniteSet(Waiting(h))
  BY FS_Subset DEF Booked, Waiting
<1>3. \A h, x : /\ Cardinality(Booked(h, x)) \in Nat /\ Cardinality(Waiting(h)) \in Nat
                /\ Cardinality(Booked(h, x)) <= Cardinality(Waiting(h))
  <2>1. \A h, x : Booked(h, x) \subseteq Waiting(h)
    BY DEF Booked, Waiting
  <2> QED
    BY <1>2, <2>1, FS_CardinalityType, FS_Subset
<1>4. CASE UNCHANGED <<sleepers, nextAllowed>> /\ \A h \in Hosts : Own(h)' = Own(h)
  <2>1. now' \in Nat /\ now' >= now
    BY <1>1, ClockAndWire
  <2>2. \A h, x : Booked(h, x)' = Booked(h, x) /\ Waiting(h)' = Waiting(h)
    BY <1>4 DEF Booked, Waiting
  <2> QED
    BY <1>1, <1>4, <2>1, <2>2
<1>5. ASSUME NEW c \in Calls, Reserve(c) PROVE Rate'
  <2> DEFINE g == Host(c)
             z == [caller |-> c, host |-> g, due |-> L!Earliest(g)]
  <2>1. /\ g \in Hosts /\ now' = now /\ sleepers' = sleepers \cup {z} /\ z \notin sleepers
        /\ UNCHANGED <<wire, hopped>>
    BY <1>5 DEF Reserve, L!Reserve, L!Sleeping, Inv, Accounts, Account, Host, Hosts, wireVars
  <2>2. /\ L!Earliest(g) \in Nat /\ L!Earliest(g) >= nextAllowed[g]
    BY <1>1, <2>1 DEF L!Earliest
  <2>3. PICK j \in Nat : nextAllowed' = [nextAllowed EXCEPT ![g] = L!Earliest(g) + MinInterval + j]
    <3>1. L!Reserve(c, g)
      BY <1>5 DEF Reserve
    <3>2. PICK j \in L!Jitters :
            nextAllowed' = [nextAllowed EXCEPT ![g] = L!Earliest(g) + MinInterval + j]
      BY <3>1 DEF L!Reserve
    <3>3. j \in Nat
      BY ClientAssumption DEF L!Jitters
    <3> QED
      BY <3>2, <3>3
  <2>4. IsFiniteSet(sleepers')
    BY <2>1, FS_AddElement
  <2> HIDE DEF g, z
  <2>5. ASSUME NEW h \in Hosts
        PROVE  /\ Own(h)' \in Nat
               /\ \A x \in Nat : x >= now' =>
                    LET n == Own(h)' + Cardinality(Booked(h, x)')
                    IN  n > 0 => MinInterval * (n - 1) <= x
               /\ MinInterval * (Own(h)' + Cardinality(Waiting(h)')) <= nextAllowed'[h]
    <3>1. Own(h)' = Own(h) /\ Own(h) \in Nat
      BY <2>1 DEF Own
    <3>2. CASE h # g
      <4>1. Waiting(h)' = Waiting(h) /\ \A x : Booked(h, x)' = Booked(h, x)
        BY <2>1, <3>2 DEF Waiting, Booked, z
      <4>2. nextAllowed'[h] = nextAllowed[h]
        BY <1>1, <2>3, <3>2
      <4> QED
        BY <2>1, <3>1, <4>1, <4>2
    <3>3. CASE h = g
      <4>1. Cardinality(Waiting(h)') = Cardinality(Waiting(h)) + 1
        <5>1. Waiting(h)' = Waiting(h) \cup {z} /\ z \notin Waiting(h)
          BY <2>1, <3>3 DEF Waiting, z
        <5> QED
          BY <1>2, <5>1, FS_AddElement
      <4>2. nextAllowed'[h] = L!Earliest(g) + MinInterval + j
        BY <1>1, <2>1, <2>3, <3>3
      <4>3. MinInterval * (Own(h) + Cardinality(Waiting(h))) <= L!Earliest(g)
        BY <1>1, <1>3, <2>2, <3>1, <3>3
      <4>4. MinInterval * (Own(h) + (Cardinality(Waiting(h)) + 1)) =
            MinInterval * (Own(h) + Cardinality(Waiting(h))) + MinInterval
        BY <1>1, <1>3, <3>1
      <4>5. MinInterval * (Own(h) + Cardinality(Waiting(h))) \in Int
        BY <1>1, <1>3, <3>1
      <4>6. MinInterval * (Own(h)' + Cardinality(Waiting(h)')) <= nextAllowed'[h]
        BY <1>1, <2>2, <2>3, <3>1, <4>1, <4>2, <4>3, <4>4, <4>5
      <4>7. ASSUME NEW x \in Nat, x >= now'
            PROVE  LET n == Own(h)' + Cardinality(Booked(h, x)')
                   IN  n > 0 => MinInterval * (n - 1) <= x
        <5>1. CASE L!Earliest(g) <= x
          <6>1. Booked(h, x)' = Booked(h, x) \cup {z} /\ z \notin Booked(h, x)
            BY <2>1, <3>3, <5>1 DEF Booked, z
          <6>2. Cardinality(Booked(h, x)') = Cardinality(Booked(h, x)) + 1
            BY <1>2, <6>1, FS_AddElement
          <6>3. MinInterval * (Own(h) + Cardinality(Booked(h, x))) <=
                MinInterval * (Own(h) + Cardinality(Waiting(h)))
            <7>1. Own(h) + Cardinality(Booked(h, x)) <= Own(h) + Cardinality(Waiting(h))
              BY <1>3, <3>1
            <7> QED
              BY <1>1, <1>3, <3>1, <7>1, Monotone
          <6>4. MinInterval * (Own(h) + Cardinality(Booked(h, x))) \in Int
            BY <1>1, <1>3, <3>1
          <6>5. MinInterval * (Own(h) + Cardinality(Booked(h, x))) <= x
            BY <2>2, <4>3, <4>5, <5>1, <6>3, <6>4
          <6> DEFINE n == Own(h)' + Cardinality(Booked(h, x)')
                 m == Own(h) + Cardinality(Booked(h, x))
          <6>6. n - 1 \in Int /\ m \in Int /\ n - 1 <= m
            BY <1>3, <3>1, <6>2
          <6> HIDE DEF n, m
          <6>7. MinInterval * (n - 1) <= MinInterval * m
            BY <1>1, <6>6, Monotone
          <6>8. MinInterval * (n - 1) \in Int /\ MinInterval * m \in Int
            BY <1>1, <6>6
          <6>9. MinInterval * (n - 1) <= x
            BY <6>5, <6>7, <6>8 DEF m
          <6> QED
            BY <6>9 DEF n
        <5>2. CASE ~(L!Earliest(g) <= x)
          <6>1. Booked(h, x)' = Booked(h, x)
            BY <2>1, <5>2 DEF Booked, z
          <6> QED
            BY <2>1, <3>1, <4>7, <6>1
        <5> QED
          BY <5>1, <5>2
      <4> QED
        BY <3>1, <4>6, <4>7
    <3> QED
      BY <3>2, <3>3
  <2> QED
    BY <2>4, <2>5
<1>6. ASSUME NEW c \in Calls, Send(c) PROVE Rate'
  <2>1. PICK z \in sleepers : /\ z.caller = c /\ now >= z.due /\ sleepers' = sleepers \ {z}
                              /\ now' = now /\ nextAllowed' = nextAllowed
    BY <1>6 DEF Send, L!Return, L!Awake
  <2>2. /\ z.host = Host(c) /\ hopped' = hopped
        /\ wire' = wire \/ wire' = [wire EXCEPT ![Host(c)] = @ + 1]
    BY <1>6, <2>1 DEF Send, Whose
  <2>3. IsFiniteSet(sleepers')
    BY <2>1, FS_Subset
  <2>4. ASSUME NEW h \in Hosts
        PROVE  /\ Own(h)' \in Nat
               /\ \A x \in Nat : x >= now' =>
                    LET n == Own(h)' + Cardinality(Booked(h, x)')
                    IN  n > 0 => MinInterval * (n - 1) <= x
               /\ MinInterval * (Own(h)' + Cardinality(Waiting(h)')) <= nextAllowed'[h]
    <3>1. CASE h # z.host
      <4>1. Own(h)' = Own(h) /\ Waiting(h)' = Waiting(h) /\ \A x : Booked(h, x)' = Booked(h, x)
        BY <1>1, <2>1, <2>2, <3>1 DEF Own, Waiting, Booked
      <4> QED
        BY <2>1, <4>1
    <3>2. CASE h = z.host
      <4>1. Own(h)' \in {Own(h), Own(h) + 1} /\ Own(h) \in Nat
        BY <1>1, <2>2, <3>2 DEF Own
      <4>2. Cardinality(Waiting(h)') = Cardinality(Waiting(h)) - 1
        <5>1. Waiting(h)' = Waiting(h) \ {z} /\ z \in Waiting(h)
          BY <2>1, <3>2 DEF Waiting
        <5> QED
          BY <1>2, <5>1, FS_RemoveElement
      <4>3. ASSUME NEW x \in Nat, x >= now
            PROVE  Cardinality(Booked(h, x)') = Cardinality(Booked(h, x)) - 1
        <5>1. Booked(h, x)' = Booked(h, x) \ {z} /\ z \in Booked(h, x)
          BY <1>1, <2>1, <3>2, <4>3 DEF Booked
        <5> QED
          BY <1>2, <5>1, FS_RemoveElement
      <4>4. MinInterval * (Own(h)' + Cardinality(Waiting(h)')) <= nextAllowed'[h]
        <5>1. /\ Own(h)' + Cardinality(Waiting(h)') \in Int
              /\ Own(h)' + Cardinality(Waiting(h)') <= Own(h) + Cardinality(Waiting(h))
          BY <1>3, <4>1, <4>2
        <5>2. MinInterval * (Own(h)' + Cardinality(Waiting(h)')) <=
              MinInterval * (Own(h) + Cardinality(Waiting(h)))
          <6>1. Own(h) + Cardinality(Waiting(h)) \in Int
            BY <1>3, <4>1
          <6> QED
            BY <1>1, <5>1, <6>1, Monotone
        <5>3. /\ MinInterval * (Own(h)' + Cardinality(Waiting(h)')) \in Int
              /\ MinInterval * (Own(h) + Cardinality(Waiting(h))) \in Int
          BY <1>1, <1>3, <4>1, <5>1
        <5> QED
          BY <1>1, <2>1, <5>2, <5>3
      <4>5. ASSUME NEW x \in Nat, x >= now'
            PROVE  LET n == Own(h)' + Cardinality(Booked(h, x)')
                   IN  n > 0 => MinInterval * (n - 1) <= x
        <5> DEFINE n == Own(h)' + Cardinality(Booked(h, x)')
                   m == Own(h) + Cardinality(Booked(h, x))
        <5>1. n \in Int /\ m \in Nat /\ n <= m
          BY <1>3, <2>1, <4>1, <4>3, <4>5
        <5>2. m > 0 => MinInterval * (m - 1) <= x
          BY <2>1, <4>5
        <5> HIDE DEF n, m
        <5>3. n > 0 => MinInterval * (n - 1) <= x
          <6> SUFFICES ASSUME n > 0 PROVE MinInterval * (n - 1) <= x
            OBVIOUS
          <6>1. n - 1 <= m - 1 /\ n - 1 \in Int /\ m - 1 \in Int /\ m > 0
            BY <5>1
          <6>2. MinInterval * (n - 1) <= MinInterval * (m - 1)
            BY <1>1, <6>1, Monotone
          <6>3. MinInterval * (n - 1) \in Int /\ MinInterval * (m - 1) \in Int
            BY <1>1, <6>1
          <6> QED
            BY <5>2, <6>1, <6>2, <6>3
        <5> QED
          BY <5>3 DEF n
      <4> QED
        BY <1>3, <4>1, <4>4, <4>5
    <3> QED
      BY <3>1, <3>2
  <2> QED
    BY <2>3, <2>4
<1> QED
  BY <1>4, <1>5, <1>6, WhoPaces

\* Pacing survives the composition (client.go:131): of the requests the calls send
\* on their own account a host sees no more than one plus the intervals that have
\* passed, for any mix of hits, retries, Retry-After waits and cancellations.
THEOREM RequestsArePaced == ASSUME Attempts \in Nat \ {0} PROVE OpenSpec => []RequestsPaced
<1>1. Inv /\ Init => Whose /\ Rate
  <2> SUFFICES ASSUME Init PROVE Whose /\ Rate
    OBVIOUS
  <2>1. sleepers = {} /\ now = 0 /\ \A h \in Hosts : nextAllowed[h] = 0 /\ Own(h) = 0
    BY DEF Init, L!LimiterInit, Own
  <2>2. \A h, x : Booked(h, x) = {} /\ Waiting(h) = {}
    BY <2>1 DEF Booked, Waiting
  <2>3. IsFiniteSet({}) /\ Cardinality({}) = 0
    BY FS_EmptySet
  <2>4. \A h, x : Cardinality(Booked(h, x)) = 0 /\ Cardinality(Waiting(h)) = 0
    BY <2>2, <2>3
  <2>5. MinInterval * (0 + 0) = 0
    BY ClientAssumption
  <2>6. Whose
    BY <2>1 DEF Whose
  <2>7. Rate
    BY <2>1, <2>3, <2>4, <2>5 DEF Rate
  <2> QED
    BY <2>6, <2>7
<1>2. Inv /\ Whose /\ Rate /\ [OpenNext]_vars => Whose' /\ Rate'
  BY WhoseIsKept, RateIsKept
<1>3. Inv /\ Rate => RequestsPaced
  <2> SUFFICES ASSUME Inv, Rate, NEW h \in Hosts, Own(h) > 0
               PROVE  MinInterval * (Own(h) - 1) <= now
    BY DEF RequestsPaced, Own
  <2>1. now \in Nat /\ MinInterval \in Nat /\ Own(h) \in Nat
    BY ClientAssumption DEF Rate, Inv, TypeOK, L!LimiterTypeOK
  <2>2. Cardinality(Booked(h, now)) \in Nat
    BY FS_Subset, FS_CardinalityType DEF Rate, Booked
  <2> DEFINE n == Own(h) + Cardinality(Booked(h, now))
  <2>3. n \in Nat /\ n > 0 /\ Own(h) - 1 <= n - 1 /\ MinInterval * (n - 1) <= now
    BY <2>1, <2>2 DEF Rate
  <2> HIDE DEF n
  <2>4. MinInterval * (Own(h) - 1) <= MinInterval * (n - 1)
    BY <2>1, <2>3, Monotone
  <2>5. MinInterval * (Own(h) - 1) \in Int /\ MinInterval * (n - 1) \in Int
    BY <2>1, <2>3
  <2> QED
    BY <2>1, <2>3, <2>4, <2>5
<1> QED
  BY <1>1, <1>2, <1>3, InvHolds, PTL DEF OpenSpec
=============================================================================
