------------------------- MODULE SearchStackProofs -------------------------
(***************************************************************************)
(* The composition, for any number of searches, engines, attempts and      *)
(* hosts and any timing: over the HTTP client, its cache, limiter and      *)
(* retries, the engine composite is still the one RoundRobin describes;    *)
(* under the composite, the client is still the one HttpClient describes;  *)
(* so that what is proved of either holds of the two together, and what    *)
(* passes between them opens a breaker for a rate limit only.              *)
(***************************************************************************)
EXTENDS SearchStack, FiniteSetTheorems, TLAPS

\* What is proved of the composite on its own.
P == INSTANCE FailoverProofs WITH MaxSearches <- Cardinality(Searches)

\* The client's steps never touch the composite's state, and, but for its own
\* Tick, which the stack does not take, not the clock either.
LEMMA ExchangesStandApart ==
    ASSUME NEW s \in Searches, Ask(s) \/ Exchange(s) \/ Cancel(s)
    PROVE  UNCHANGED <<now, searching>>
<1>1. CASE Ask(s)
  BY <1>1 DEF Ask
<1>2. CASE Cancel(s)
  BY <1>2 DEF Cancel
<1>3. CASE Exchange(s)
  <2>1. UNCHANGED now
    <3>1. CASE H!Reserve(Call(s))
      BY <3>1 DEF H!Reserve, H!L!Reserve
    <3>2. CASE H!Send(Call(s))
      BY <3>2 DEF H!Send, H!L!Return
    <3>3. CASE H!Answer(Call(s))
      BY <3>3 DEF H!Answer
    <3>4. CASE H!Store(Call(s))
      BY <3>4 DEF H!Store
    <3> QED
      BY <1>3, <3>1, <3>2, <3>3, <3>4 DEF Exchange, H!Step
  <2> QED
    BY <1>3, <2>1 DEF Exchange
<1> QED
  BY <1>1, <1>2, <1>3

\* What an adapter hands up is an answer of an engine (roundrobin.go:48).
LEMMA HearingIsAnAnswer ==
    ASSUME NEW s \in Searches, Hear(s)
    PROVE  RR!Answer(s)
<1>1. ASSUME NEW err \in Errors, RR!AnswerFatal(s, err) \/ RR!AnswerTransient(s, err)
      PROVE  RR!Answer(s)
  BY <1>1 DEF RR!Answer
<1>2. OtherError \in Errors /\ \A r : ErrorOf(r) \in Errors
  BY DEF Errors, ErrorOf
<1> QED
  BY <1>1, <1>2 DEF Hear, RR!Answer

\* Every step of the stack, whatever the client is doing, is a step of the
\* composite or leaves it alone.
THEOREM StackIsComposite == Spec => Composite
<1>1. Init => RR!Init
  BY DEF Init
<1>2. [Next]_vars => [RR!OpenNext]_RR!vars
  <2> SUFFICES ASSUME [Next]_vars PROVE [RR!OpenNext]_RR!vars
    OBVIOUS
  <2>1. ASSUME UNCHANGED <<now, searching>> PROVE UNCHANGED RR!vars
    BY <2>1 DEF searching, RR!vars, RR!shared, RR!local, RR!history
  <2>2. CASE Tick
    BY <2>2 DEF Tick, RR!OpenNext
  <2>3. ASSUME NEW s \in Searches, Begin(s) PROVE RR!OpenNext
    BY <2>3 DEF Begin, RR!OpenNext
  <2>4. ASSUME NEW s \in Searches, Decide(s) PROVE RR!OpenNext
    BY <2>4 DEF Decide, RR!OpenNext, RR!Walk
  <2>5. ASSUME NEW s \in Searches, Hear(s) PROVE RR!OpenNext
    BY <2>5, HearingIsAnAnswer DEF RR!OpenNext, RR!Walk
  <2>6. ASSUME NEW s \in Searches, Ask(s) \/ Exchange(s) \/ Cancel(s)
        PROVE  UNCHANGED RR!vars
    BY <2>1, <2>6, ExchangesStandApart
  <2>7. CASE UNCHANGED vars
    BY <2>1, <2>7 DEF vars
  <2> QED
    BY <2>2, <2>3, <2>4, <2>5, <2>6, <2>7 DEF Next, Step
<1> QED
  BY <1>1, <1>2, PTL DEF Spec, Composite, RR!OpenSpec

-----------------------------------------------------------------------------
(* What the composite promises, the stack keeps.                           *)

\* P is the composite that RR is.
LEMMA SameComposite == RR!OpenSpec => P!OpenSpec
<1>1. RR!Init => P!Init
  BY DEF RR!Init, P!Init, RR!Engines, P!Engines, RR!Untried, P!Untried, RR!Nothing, P!Nothing
<1>2. UNCHANGED RR!vars => UNCHANGED P!vars
  BY DEF RR!vars, P!vars, RR!shared, P!shared, RR!local, P!local, RR!history, P!history
<1>3. RR!Advance => P!Advance
  BY DEF RR!Advance, P!Advance, RR!local, P!local, RR!history, P!history
<1>4. ASSUME NEW s \in Searches, RR!Begin(s) PROVE P!Begin(s)
  BY <1>4 DEF RR!Begin, P!Begin, RR!NextCursor, P!NextCursor, RR!Untried, P!Untried,
              RR!Engines, P!Engines
<1>5. ASSUME NEW s \in Searches, NEW r, RR!Finish(s, r) PROVE P!Finish(s, r)
  BY <1>5 DEF RR!Finish, P!Finish
<1>6. ASSUME NEW s \in Searches, NEW r, NEW err, RR!Continue(s, r, err)
      PROVE  P!Continue(s, r, err)
  BY <1>5, <1>6 DEF RR!Continue, P!Continue, RR!MoreToTry, P!MoreToTry, RR!Verdict, P!Verdict,
                    RR!Nothing, P!Nothing
<1>7. ASSUME NEW s \in Searches, NEW fate, RR!Meets(s, fate) PROVE P!Meets(s, fate)
  BY <1>7 DEF RR!Meets, P!Meets, RR!At, P!At
<1>8. ASSUME NEW s \in Searches, RR!Walk(s) PROVE P!Walk(s)
  <2> USE DEF RR!shared, P!shared, RR!Forget, P!Forget
  <2>1. CASE RR!Skip(s)
    BY <1>6, <1>7, <2>1
       DEF RR!Skip, P!Skip, P!Walk, RR!IsCooled, P!IsCooled, RR!At, P!At
  <2>2. CASE RR!Admit(s)
    BY <2>2 DEF RR!Admit, P!Admit, P!Walk, RR!IsCooled, P!IsCooled, RR!At, P!At
  <2>3. CASE RR!AnswerFound(s)
    BY <1>5, <1>7, <2>3
       DEF RR!AnswerFound, P!AnswerFound, RR!Found, P!Found, P!Walk, P!Answer
  <2>4. CASE RR!AnswerEmpty(s)
    BY <1>6, <1>7, <2>4 DEF RR!AnswerEmpty, P!AnswerEmpty, P!Walk, P!Answer
  <2>5. ASSUME NEW err \in Errors, RR!AnswerFatal(s, err) PROVE P!Walk(s)
    BY <1>6, <1>7, <2>5
       DEF RR!AnswerFatal, P!AnswerFatal, RR!IsTransient, P!IsTransient, P!Walk, P!Answer
  <2>6. ASSUME NEW err \in Errors, RR!AnswerTransient(s, err) PROVE P!Walk(s)
    <3>1. P!AnswerTransient(s, err)
      BY <1>7, <2>6
         DEF RR!AnswerTransient, P!AnswerTransient, RR!IsTransient, P!IsTransient
    <3> QED
      BY <3>1 DEF P!Walk, P!Answer
  <2>7. CASE RR!Cool(s)
    BY <1>6, <2>7
       DEF RR!Cool, P!Cool, RR!CooledFrom, P!CooledFrom, RR!At, P!At, P!Walk
  <2> QED
    BY <1>8, <2>1, <2>2, <2>3, <2>4, <2>5, <2>6, <2>7 DEF RR!Walk, RR!Answer
<1>9. [RR!OpenNext]_RR!vars => [P!OpenNext]_P!vars
  BY <1>2, <1>3, <1>4, <1>8 DEF RR!OpenNext, P!OpenNext
<1> QED
  BY <1>1, <1>9, PTL DEF RR!OpenSpec, P!OpenSpec

\* Whatever the servers, the retries, the pacing, the cache and cancellation do:
\* a search over the real client spreads the load, leaves no engine out, reports
\* an error only when nobody answered, and calls no engine during its cooldown.
THEOREM StackKeepsPromises ==
    Spec => [](/\ RR!RotationFair
               /\ RR!BreakerRespected
               /\ RR!FailoverComplete
               /\ RR!ErrorOnlyIfNobodyAnswered)
<1>1. /\ N \in Nat \ {0} /\ Cooldown \in Nat /\ NoError \notin Errors
      /\ Cardinality(Searches) \in Nat
  BY StackAssumption, FS_CardinalityType DEF StackAssumption
<1>2. P!OpenSpec => []P!RotationFair
  BY <1>1, P!RotationIsFair
<1>3. P!OpenSpec => []P!BreakerRespected
  BY <1>1, P!BreakerIsRespected
<1>4. P!OpenSpec => []P!FailoverComplete
  BY <1>1, P!FailoverIsComplete
<1>5. P!OpenSpec => []P!ErrorOnlyIfNobodyAnswered
  BY <1>1, P!ErrorMeansNoAnswer
<1>6. P!RotationFair => RR!RotationFair
  BY DEF P!RotationFair, RR!RotationFair, P!Engines, RR!Engines
<1>7. P!BreakerRespected => RR!BreakerRespected
  BY DEF P!BreakerRespected, RR!BreakerRespected, P!IsCooled, RR!IsCooled, P!At, RR!At
<1>8. P!FailoverComplete => RR!FailoverComplete
  BY DEF P!FailoverComplete, RR!FailoverComplete, P!Finished, RR!Finished, P!Untried,
         RR!Untried, P!Met, RR!Met, P!Engines, RR!Engines
<1>9. P!ErrorOnlyIfNobodyAnswered => RR!ErrorOnlyIfNobodyAnswered
  BY DEF P!ErrorOnlyIfNobodyAnswered, RR!ErrorOnlyIfNobodyAnswered, P!Finished, RR!Finished,
         P!Untried, RR!Untried, P!Met, RR!Met, P!Engines, RR!Engines,
         P!IsTransient, RR!IsTransient
<1> QED
  BY <1>2, <1>3, <1>4, <1>5, <1>6, <1>7, <1>8, <1>9, SameComposite, StackIsComposite, PTL
     DEF Composite

-----------------------------------------------------------------------------
(* The client in the stack.                                                *)

\* What is proved of the client on its own.
Q == INSTANCE HttpClientProofs WITH phase <- call, result <- reply, cancelled <- Cancelled,
                                  MaxHops <- 0

\* Q is the client that H is.
LEMMA SameClient == H!OpenSpec => Q!OpenSpec
<1>1. H!Init => Q!Init
  BY DEF H!Init, Q!Init, H!L!LimiterInit, Q!L!LimiterInit, H!C!Init, Q!C!Init, H!Hosts, Q!Hosts,
         H!Keys, Q!Keys, H!CacheKey, Q!CacheKey, H!Empty, Q!Empty, H!Pending, Q!Pending
<1>2. UNCHANGED H!vars => UNCHANGED Q!vars
  BY DEF H!vars, Q!vars, H!pacing, Q!pacing, H!heardVars, Q!heardVars, H!wireVars, Q!wireVars
<1>3. H!Pass => Q!Pass
  BY DEF H!Pass, Q!Pass, H!L!Advance, Q!L!Advance, H!heardVars, Q!heardVars, H!wireVars, Q!wireVars
<1>4. ASSUME NEW c \in Calls, H!Reserve(c) PROVE Q!Reserve(c)
  BY <1>4 DEF H!Reserve, Q!Reserve, H!L!Reserve, Q!L!Reserve, H!L!Sleeping, Q!L!Sleeping,
              H!L!Jitters, Q!L!Jitters, H!L!Earliest, Q!L!Earliest, H!Host, Q!Host,
              H!heardVars, Q!heardVars, H!wireVars, Q!wireVars
<1>5. ASSUME NEW c \in Calls, NEW o, H!Hear(c, o) PROVE Q!Hear(c, o)
  BY <1>5 DEF H!Hear, Q!Hear, H!Finish, Q!Finish, H!Error, Q!Error, H!Empty, Q!Empty,
              H!LastAttempt, Q!LastAttempt, H!Backoffs, Q!Backoffs, H!Capped, Q!Capped,
              H!Shifted, Q!Shifted, H!Wrap, Q!Wrap, H!PromisedWait, Q!PromisedWait
<1>6. H!NetworkError = Q!NetworkError /\ \A h : H!Answers(h) = Q!Answers(h)
  BY DEF H!NetworkError, Q!NetworkError, H!Answers, Q!Answers, H!Outcome, Q!Outcome,
         H!KindOf, Q!KindOf, H!RetryableStatuses, Q!RetryableStatuses
<1>7. ASSUME NEW c \in Calls, H!Send(c) PROVE Q!Send(c)
  BY <1>5, <1>6, <1>7 DEF H!Send, Q!Send, H!L!Return, Q!L!Return, H!L!Awake, Q!L!Awake,
                          H!Host, Q!Host
<1>8. ASSUME NEW c \in Calls, H!Answer(c) PROVE Q!Answer(c)
  <2>1. PICK h \in H!Answerers(c) : \E o \in H!Answers(h) \cup {H!NetworkError} : H!Hear(c, o)
    BY <1>8 DEF H!Answer
  <2>2. h \in Q!Answerers(c) /\ \E o \in Q!Answers(h) \cup {Q!NetworkError} : Q!Hear(c, o)
    BY <1>5, <1>6, <2>1 DEF H!Answerers, Q!Answerers, H!Host, Q!Host, H!Hosts, Q!Hosts
  <2> QED
    BY <1>8, <2>2 DEF H!Answer, Q!Answer, H!pacing, Q!pacing, H!wireVars, Q!wireVars
<1>9. ASSUME NEW c \in Calls, H!Store(c) PROVE Q!Store(c)
  BY <1>9 DEF H!Store, Q!Store, H!C!Set, Q!C!Set, H!CacheKey, Q!CacheKey, H!Finish, Q!Finish,
              H!Body, Q!Body, H!Empty, Q!Empty, H!pacing, Q!pacing, H!heardVars, Q!heardVars,
              H!wireVars, Q!wireVars
<1>10. ASSUME NEW c \in Calls, NEW r \in Requests, H!StartHit(c, r) PROVE Q!StartHit(c, r)
  BY <1>10 DEF H!StartHit, Q!StartHit, H!C!Hit, Q!C!Hit, H!C!Fresh, Q!C!Fresh, H!CacheKey,
               Q!CacheKey, H!Bodies, Q!Bodies, H!Hosts, Q!Hosts, H!Finish, Q!Finish, H!Body, Q!Body, H!Empty, Q!Empty,
               H!pacing, Q!pacing, H!heardVars, Q!heardVars, H!wireVars, Q!wireVars
<1>11. ASSUME NEW c \in Calls, NEW r \in Requests, H!StartMiss(c, r) PROVE Q!StartMiss(c, r)
  BY <1>11 DEF H!StartMiss, Q!StartMiss, H!C!Miss, Q!C!Miss, H!C!Fresh, Q!C!Fresh, H!CacheKey,
               Q!CacheKey, H!pacing, Q!pacing, H!heardVars, Q!heardVars, H!wireVars, Q!wireVars
<1>12. ASSUME NEW c \in Calls, H!Cancel(c) PROVE Q!Cancel(c)
  BY <1>12 DEF H!Cancel, Q!Cancel, H!pacing, Q!pacing, H!heardVars, Q!heardVars,
               H!wireVars, Q!wireVars
<1>13. ASSUME NEW c \in Calls, NEW h, H!Redirect(c, h) PROVE Q!Redirect(c, h)
  BY <1>13 DEF H!Redirect, Q!Redirect, H!pacing, Q!pacing, H!heardVars, Q!heardVars
<1>14. ASSUME NEW c \in Calls, H!Step(c) \/ H!Environment(c)
       PROVE  Q!Step(c) \/ Q!Environment(c)
  BY <1>4, <1>7, <1>8, <1>9, <1>10, <1>11, <1>12, <1>13, <1>14
     DEF H!Step, Q!Step, H!Environment, Q!Environment, H!Hosts, Q!Hosts
<1>15. [H!OpenNext]_H!vars => [Q!OpenNext]_Q!vars
  BY <1>2, <1>3, <1>14 DEF H!OpenNext, Q!OpenNext
<1> QED
  BY <1>1, <1>15, PTL DEF H!OpenSpec, Q!OpenSpec

\* A call of the client runs only while its search is calling that engine.
Running(c) == call[c] \notin {"idle", "done"}
Driven ==
    /\ DOMAIN call = Calls /\ DOMAIN reply = Calls
    /\ \A c \in Calls : Running(c) => phase[c[1]] = "calling" /\ c = Call(c[1])

\* A search is at an engine, and its call there is a call of the client.
LEMMA CallIsACall ==
    ASSUME RR!TypeOK, NEW s \in Searches
    PROVE  /\ RR!At(s) \in Engines /\ RequestOf[RR!At(s)] \in Requests
           /\ Call(s) \in Calls /\ Call(s)[1] = s
<1>1. start[s] \in Int /\ pos[s] \in Int /\ N \in Nat \ {0}
  BY StackAssumption DEF RR!TypeOK, RR!Engines
<1>2. (start[s] + pos[s]) % N \in 0 .. N - 1
  BY <1>1
<1>3. RR!At(s) \in Engines
  BY <1>2 DEF RR!At, Engines
<1> QED
  BY <1>3 DEF Requests, Call, Calls

\* The stack moves one call of the client at a time, that of a search which is
\* calling an engine.
LEMMA OneCallMoves ==
    ASSUME RR!TypeOK, Driven, NEW s \in Searches, Ask(s) \/ Exchange(s)
    PROVE  /\ Call(s) \in Calls
           /\ phase[s] = "calling"
           /\ DOMAIN call' = Calls /\ DOMAIN reply' = Calls
           /\ \A d \in Calls \ {Call(s)} : call'[d] = call[d] /\ reply'[d] = reply[d]
<1> DEFINE c == Call(s)
           moved == /\ DOMAIN call' = Calls /\ DOMAIN reply' = Calls
                    /\ \A d \in Calls \ {c} : call'[d] = call[d] /\ reply'[d] = reply[d]
<1>1. c \in Calls /\ c[1] = s
  BY CallIsACall
<1> HIDE DEF c
<1>2. ASSUME NEW o, H!Hear(c, o) PROVE moved
  BY <1>2 DEF Driven, H!Hear, H!Finish
<1>3. CASE Ask(s)
  <2>1. ASSUME NEW r, H!StartHit(c, r) PROVE moved
    BY <2>1 DEF H!StartHit, H!Finish, Driven
  <2>2. ASSUME NEW r, H!StartMiss(c, r) PROVE moved
    BY <2>2 DEF H!StartMiss, Driven
  <2> QED
    BY <1>1, <1>3, <2>1, <2>2 DEF Ask, c
<1>4. CASE Exchange(s)
  <2>1. H!Step(c)
    BY <1>4 DEF Exchange, c
  <2>2. Running(c)
    BY <2>1 DEF H!Step, H!Reserve, H!Send, H!Answer, H!Store, Running
  <2>3. moved
    BY <1>2, <2>1 DEF H!Step, H!Reserve, H!Send, H!Answer, H!Store, H!Finish, Driven
  <2> QED
    BY <1>1, <2>2, <2>3 DEF Driven, c
<1> QED
  BY <1>3, <1>4

\* A search moves on its own, and only when no call of it is running.
LEMMA OneSearchMoves ==
    ASSUME RR!TypeOK, NEW s \in Searches, Begin(s) \/ Decide(s) \/ Hear(s)
    PROVE  /\ UNCHANGED <<call, reply>>
           /\ phase[s] # "calling" \/ call[Call(s)] = "done"
           /\ \A t \in Searches \ {s} :
                  phase'[t] = phase[t] /\ start'[t] = start[t] /\ pos'[t] = pos[t]
<1> DEFINE others == \A t \in Searches \ {s} :
                        phase'[t] = phase[t] /\ start'[t] = start[t] /\ pos'[t] = pos[t]
<1>1. UNCHANGED <<call, reply>>
  BY DEF Begin, Decide, Hear, exchanging
<1>2. phase[s] # "calling" \/ call[Call(s)] = "done"
  BY DEF Begin, RR!Begin, Decide, RR!Skip, RR!Admit, RR!Cool, Hear
<1>3. /\ DOMAIN phase = Searches /\ DOMAIN start = Searches /\ DOMAIN pos = Searches
  BY DEF RR!TypeOK
<1>4. ASSUME NEW r, NEW e, RR!Continue(s, r, e) PROVE others
  BY <1>3, <1>4 DEF RR!Continue, RR!Finish
<1>5. ASSUME Begin(s) PROVE others
  BY <1>3, <1>5 DEF Begin, RR!Begin
<1>6. ASSUME Decide(s) PROVE others
  BY <1>3, <1>4, <1>6 DEF Decide, RR!Skip, RR!Admit, RR!Cool
<1>7. ASSUME Hear(s) PROVE others
  <2>1. RR!Answer(s)
    BY <1>7, HearingIsAnAnswer
  <2> QED
    BY <1>3, <1>4, <2>1
       DEF RR!Answer, RR!AnswerFound, RR!AnswerEmpty, RR!AnswerFatal, RR!AnswerTransient,
           RR!Finish
<1> QED
  BY <1>1, <1>2, <1>5, <1>6, <1>7

LEMMA DrivenIsKept ==
    ASSUME RR!TypeOK, Driven, [Next]_vars
    PROVE  Driven'
<1> SUFFICES /\ DOMAIN call' = Calls /\ DOMAIN reply' = Calls
             /\ \A c \in Calls : Running(c)' => phase'[c[1]] = "calling" /\ c = Call(c[1])'
  BY DEF Driven
<1>1. CASE UNCHANGED <<phase, start, pos, call, reply>>
  BY <1>1 DEF Driven, Running, Call, RR!At
<1>2. CASE Tick \/ UNCHANGED vars
  BY <1>1, <1>2 DEF Tick, RR!Advance, RR!local, exchanging, vars, searching
<1>3. ASSUME NEW s \in Searches, Cancel(s)
      PROVE  UNCHANGED <<phase, start, pos, call, reply>>
  BY <1>3 DEF Cancel, searching, exchanging
<1>4. ASSUME NEW s \in Searches, UNCHANGED <<call, reply>>,
             \A c \in Calls : c[1] = s => ~Running(c),
             \A t \in Searches \ {s} :
                phase'[t] = phase[t] /\ start'[t] = start[t] /\ pos'[t] = pos[t]
      PROVE  /\ DOMAIN call' = Calls /\ DOMAIN reply' = Calls
             /\ \A c \in Calls : Running(c)' => phase'[c[1]] = "calling" /\ c = Call(c[1])'
  BY <1>4 DEF Driven, Running, Call, RR!At, Calls
<1>5. ASSUME NEW s \in Searches, phase[s] # "calling" \/ call[Call(s)] = "done"
      PROVE  \A c \in Calls : c[1] = s => ~Running(c)
  BY <1>5 DEF Driven, Running
<1>7. ASSUME NEW s \in Searches, Begin(s) \/ Decide(s) \/ Hear(s)
      PROVE  /\ DOMAIN call' = Calls /\ DOMAIN reply' = Calls
             /\ \A c \in Calls : Running(c)' => phase'[c[1]] = "calling" /\ c = Call(c[1])'
  BY <1>4, <1>5, <1>7, OneSearchMoves
<1>8. ASSUME NEW s \in Searches, Ask(s) \/ Exchange(s)
      PROVE  /\ DOMAIN call' = Calls /\ DOMAIN reply' = Calls
             /\ \A c \in Calls : Running(c)' => phase'[c[1]] = "calling" /\ c = Call(c[1])'
  <2>1. UNCHANGED <<phase, start, pos>>
    BY <1>8, ExchangesStandApart DEF searching
  <2>2. Call(s)[1] = s /\ \A t : Call(t)' = Call(t)
    BY <2>1, CallIsACall DEF Call, RR!At
  <2> QED
    BY <1>8, <2>1, <2>2, OneCallMoves DEF Driven, Running
<1> QED
  BY <1>1, <1>2, <1>3, <1>7, <1>8 DEF Next, Step

\* The searches' ctx are what cancels the calls: one of them at most, or none.
LEMMA CancelIsCancel ==
    ASSUME RR!TypeOK, Driven, NEW s \in Searches, Cancel(s)
    PROVE  H!Cancel(Call(s)) \/ UNCHANGED H!vars
<1>1. /\ s \notin ctxDone /\ ctxDone' = ctxDone \cup {s}
      /\ UNCHANGED <<now, nextAllowed, sleepers, items, call, req, attempt, wake, out, reply,
                     hops, heard, owed, wire, hopped>>
  BY DEF Cancel, exchanging
<1>2. Call(s) \in Calls /\ Call(s)[1] = s
  BY CallIsACall
<1>3. CASE Running(Call(s))
  <2>1. Call(s) \notin Cancelled /\ Cancelled' = Cancelled \cup {Call(s)}
    BY <1>1, <1>2, <1>3 DEF Cancelled, Driven, Running
  <2> QED
    BY <1>1, <1>3, <2>1 DEF H!Cancel, H!pacing, H!heardVars, H!wireVars, Running
<1>4. CASE ~Running(Call(s))
  <2>1. Cancelled' = Cancelled
    BY <1>1, <1>4 DEF Cancelled, Driven, Running
  <2> QED
    BY <1>1, <2>1 DEF H!vars, H!pacing, H!heardVars, H!wireVars
<1> QED
  BY <1>3, <1>4

\* What is true of the walk and of the calls it has under way.
LEMMA DrivenHolds == Spec => [](RR!TypeOK /\ Driven)
<1>1. Spec => []RR!TypeOK
  <2>1. /\ N \in Nat \ {0} /\ Cooldown \in Nat /\ NoError \notin Errors
        /\ Cardinality(Searches) \in Nat
    BY StackAssumption, FS_CardinalityType
  <2>2. P!OpenSpec => []P!TypeOK
    BY <2>1, P!TypeCorrect
  <2>3. P!TypeOK => RR!TypeOK
    BY DEF P!TypeOK, RR!TypeOK, P!Engines, RR!Engines, P!Fates, RR!Fates
  <2> QED
    BY <2>2, <2>3, SameComposite, StackIsComposite, PTL DEF Composite
<1>2. Init => Driven
  BY DEF Init, H!Init, Driven, Running
<1>3. RR!TypeOK /\ Driven /\ [Next]_vars => Driven'
  BY DrivenIsKept
<1> QED
  BY <1>1, <1>2, <1>3, PTL DEF Spec

\* The stack uses the client as it is meant to be used: whatever the searches are
\* doing, every step of the stack is a step of the client or leaves it alone.
THEOREM StackIsClient == Spec => H!OpenSpec
<1>1. Init => H!Init
  BY DEF Init
<1>2. RR!TypeOK /\ Driven /\ [Next]_vars => [H!OpenNext]_H!vars
  <2> SUFFICES ASSUME RR!TypeOK, Driven, [Next]_vars PROVE [H!OpenNext]_H!vars
    OBVIOUS
  <2>1. ASSUME UNCHANGED <<now, exchanging, ctxDone>> PROVE UNCHANGED H!vars
    BY <2>1 DEF exchanging, H!vars, H!pacing, H!heardVars, H!wireVars, Cancelled
  <2>2. CASE Tick
    <3>1. Cancelled' = Cancelled
      BY <2>2 DEF Tick, exchanging, Cancelled
    <3> QED
      BY <2>2, <3>1 DEF Tick, RR!Advance, exchanging, H!OpenNext, H!Pass, H!L!Advance,
                        H!heardVars, H!wireVars
  <2>3. ASSUME NEW s \in Searches, Begin(s) \/ Decide(s) \/ Hear(s) PROVE UNCHANGED H!vars
    <3>1. UNCHANGED now
      <4>1. CASE Hear(s)
        <5>1. RR!Answer(s)
          BY <4>1, HearingIsAnAnswer
        <5> QED
          BY <5>1 DEF RR!Answer, RR!AnswerFound, RR!AnswerEmpty, RR!AnswerFatal,
                      RR!AnswerTransient, RR!shared
      <4> QED
        BY <2>3, <4>1 DEF Begin, RR!Begin, Decide, RR!Skip, RR!Admit, RR!Cool, RR!shared
    <3> QED
      BY <2>1, <2>3, <3>1 DEF Begin, Decide, Hear
  <2>4. ASSUME NEW s \in Searches, Ask(s) PROVE H!OpenNext
    <3>1. Call(s) \in Calls /\ RequestOf[RR!At(s)] \in Requests
      BY CallIsACall
    <3> QED
      BY <2>4, <3>1 DEF Ask, H!OpenNext, H!Environment
  <2>5. ASSUME NEW s \in Searches, Exchange(s) PROVE H!OpenNext
    BY <2>5, OneCallMoves DEF Exchange, H!OpenNext
  <2>6. ASSUME NEW s \in Searches, Cancel(s) PROVE [H!OpenNext]_H!vars
    <3>1. Call(s) \in Calls
      BY CallIsACall
    <3> QED
      BY <2>6, <3>1, CancelIsCancel DEF H!OpenNext, H!Environment
  <2>7. CASE UNCHANGED vars
    BY <2>1, <2>7 DEF vars
  <2> QED
    BY <2>2, <2>3, <2>4, <2>5, <2>6, <2>7 DEF Next, Step
<1> QED
  BY <1>1, <1>2, DrivenHolds, PTL DEF Spec, H!OpenSpec

\* Whatever the searches do, every call of theirs is cached, paced, retried and
\* cancelled as the client promises.
THEOREM StackKeepsClientPromises ==
    ASSUME Attempts \in Nat \ {0}
    PROVE  Spec => /\ [](/\ H!TypeOK
                         /\ H!RetryDiscipline
                         /\ H!ServedBodyMatches
                         /\ H!HitJustified
                         /\ H!RequestsPaced)
                   /\ H!CacheNotWasted
                   /\ H!CancelStopsRequests
                   /\ (Q!NoOverflow => H!BackoffHonored)
<1>1. Q!EntryAssumption /\ Q!ClientAssumption /\ Q!RetryAssumption
  <2>1. Q!C!Entry = H!C!Entry
    BY DEF Q!C!Entry, H!C!Entry, Q!Bodies, H!Bodies, Q!Hosts, H!Hosts, Q!Empty, H!Empty
  <2>2. \A h \in Q!Hosts : StatusesOf[h] \subseteq Nat
    BY ExchangeAssumption DEF Q!Hosts
  <2> QED
    BY <2>1, <2>2, ExchangeAssumption
<1>2. Q!OpenSpec => [](/\ Q!TypeOK /\ Q!RetryDiscipline /\ Q!ServedBodyMatches
                       /\ Q!HitJustified /\ Q!RequestsPaced)
  <2>1. Q!OpenSpec => []Q!TypeOK
    BY <1>1, Q!TypeCorrect
  <2>2. Q!OpenSpec => []Q!RetryDiscipline
    BY <1>1, Q!RetryIsDisciplined
  <2>3. Q!OpenSpec => []Q!ServedBodyMatches
    BY <1>1, Q!BodiesMatch
  <2>4. Q!OpenSpec => []Q!HitJustified
    BY <1>1, Q!HitsAreJustified
  <2>5. Q!OpenSpec => []Q!RequestsPaced
    BY <1>1, Q!RequestsArePaced
  <2> QED
    BY <2>1, <2>2, <2>3, <2>4, <2>5, PTL
<1>3. Q!OpenSpec => Q!CacheNotWasted
  BY <1>1, Q!CacheIsNotWasted
<1>4. Q!OpenSpec => Q!CancelStopsRequests
  BY <1>1, Q!CancelStops
<1>5. Q!NoOverflow => (Q!OpenSpec => Q!BackoffHonored)
  BY <1>1, Q!BackoffIsHonored
\* Q says of the client what H says.
<1>6. Q!TypeOK => H!TypeOK
  BY DEF Q!TypeOK, H!TypeOK, Q!L!LimiterTypeOK, H!L!LimiterTypeOK, Q!L!Wait, H!L!Wait,
         Q!C!TypeOK, H!C!TypeOK, Q!C!Entry, H!C!Entry, Q!Keys, H!Keys, Q!CacheKey, H!CacheKey,
         Q!Bodies, H!Bodies, Q!Empty, H!Empty, Q!Hosts, H!Hosts
<1>7. Q!RetryDiscipline => H!RetryDiscipline
  BY DEF Q!RetryDiscipline, H!RetryDiscipline
<1>8. Q!ServedBodyMatches => H!ServedBodyMatches
  BY DEF Q!ServedBodyMatches, H!ServedBodyMatches, Q!Empty, H!Empty, Q!RetryableStatuses,
         H!RetryableStatuses
<1>9. Q!HitJustified => H!HitJustified
  BY DEF Q!HitJustified, H!HitJustified, Q!CacheKey, H!CacheKey
<1>10. Q!RequestsPaced => H!RequestsPaced
  BY DEF Q!RequestsPaced, H!RequestsPaced, Q!Hosts, H!Hosts
<1>11. (UNCHANGED Q!vars) <=> (UNCHANGED H!vars)
  BY DEF H!vars, Q!vars, H!pacing, Q!pacing, H!heardVars, Q!heardVars, H!wireVars, Q!wireVars
<1>12. Q!CacheNotWasted => H!CacheNotWasted
  BY <1>11, PTL DEF Q!CacheNotWasted, H!CacheNotWasted
<1>13. Q!CancelStopsRequests => H!CancelStopsRequests
  BY <1>11, PTL DEF Q!CancelStopsRequests, H!CancelStopsRequests
<1>14. Q!BackoffHonored => H!BackoffHonored
  BY <1>11, PTL DEF Q!BackoffHonored, H!BackoffHonored
<1> QED
  BY <1>2, <1>3, <1>4, <1>5, <1>6, <1>7, <1>8, <1>9, <1>10, <1>12, <1>13, <1>14,
     StackIsClient, SameClient, PTL

-----------------------------------------------------------------------------
(* What the composite and the client promise together.                     *)

\* A search whose engine has rate-limited it, and whose cool() comes next, is one
\* whose call used up its attempts.
Limited ==
    \A s \in Searches : phase[s] = "cooling" => reply[Call(s)].kind = "transient"

LEMMA LimitedIsKept ==
    ASSUME RR!TypeOK, Driven, Limited, [Next]_vars
    PROVE  Limited'
<1> SUFFICES ASSUME NEW s \in Searches, phase'[s] = "cooling"
             PROVE  reply'[Call(s)'].kind = "transient"
  BY DEF Limited, Call, RR!At
<1>0. Call(s) \in Calls /\ Call(s)[1] = s
  BY CallIsACall
<1>1. ASSUME phase'[s] = phase[s], start'[s] = start[s], pos'[s] = pos[s],
             reply'[Call(s)] = reply[Call(s)]
      PROVE  reply'[Call(s)'].kind = "transient"
  BY <1>1 DEF Limited, Call, RR!At
<1>2. CASE Tick \/ UNCHANGED vars
  BY <1>1, <1>2 DEF Tick, RR!Advance, RR!local, exchanging, vars, searching
<1>3. ASSUME NEW t \in Searches, Cancel(t) PROVE reply'[Call(s)'].kind = "transient"
  BY <1>1, <1>3 DEF Cancel, searching, exchanging
<1>4. ASSUME NEW t \in Searches, Ask(t) \/ Exchange(t)
      PROVE  reply'[Call(s)'].kind = "transient"
  <2>1. UNCHANGED <<phase, start, pos>>
    BY <1>4, ExchangesStandApart DEF searching
  <2>2. t # s
    BY <1>4, <2>1, OneCallMoves
  <2>3. Call(t) # Call(s)
    BY <1>0, <2>2, CallIsACall
  <2> QED
    BY <1>0, <1>1, <1>4, <2>1, <2>3, OneCallMoves
<1>5. ASSUME NEW t \in Searches, t # s, Begin(t) \/ Decide(t) \/ Hear(t)
      PROVE  reply'[Call(s)'].kind = "transient"
  BY <1>1, <1>5, OneSearchMoves
<1>6. DOMAIN phase = Searches
  BY DEF RR!TypeOK
<1>7. ASSUME NEW r, NEW e, RR!Continue(s, r, e) \/ RR!Finish(s, r) PROVE FALSE
  BY <1>6, <1>7 DEF RR!Continue, RR!Finish
<1>8. ~Begin(s) /\ ~Decide(s)
  BY <1>6, <1>7 DEF Begin, RR!Begin, Decide, RR!Skip, RR!Admit, RR!Cool
<1>9. CASE Hear(s)
  <2>1. PICK err \in Errors : /\ RR!AnswerTransient(s, err)
                              /\ err = OtherError \/ err = ErrorOf(reply[Call(s)])
    <3>1. OtherError \in Errors /\ ErrorOf(reply[Call(s)]) \in Errors
      BY DEF Errors, ErrorOf
    <3>2. ~RR!AnswerFound(s) /\ ~RR!AnswerEmpty(s) /\ \A err : ~RR!AnswerFatal(s, err)
      BY <1>7 DEF RR!AnswerFound, RR!AnswerEmpty, RR!AnswerFatal
    <3> QED
      BY <1>9, <3>1, <3>2 DEF Hear
  <2>2. err = RateLimited
    BY <2>1 DEF RR!AnswerTransient, RR!IsTransient, OtherError, ErrorOf
  <2>3. reply[Call(s)].kind = "transient"
    BY <2>1, <2>2 DEF ErrorOf, OtherError, RateLimited
  <2>4. UNCHANGED <<start, pos, reply>>
    BY <1>9, <2>1 DEF RR!AnswerTransient, Hear, exchanging
  <2> QED
    BY <2>3, <2>4 DEF Call, RR!At
<1> QED
  BY <1>2, <1>3, <1>4, <1>5, <1>8, <1>9 DEF Next, Step

\* A breaker opens only on a call that has used every attempt and heard a rate
\* limit to the last; a cancelled ctx, a refusal, a dead connection or a body that
\* does not parse never takes an engine out (roundrobin.go:50, retry.go:43-50).
THEOREM OnlyRateLimitsOpenBreakers ==
    ASSUME Attempts \in Nat \ {0} PROVE Spec => OnlyRateLimitsCool
<1>1. Init => Limited
  BY DEF Init, RR!Init, Limited
<1>2. RR!TypeOK /\ Driven /\ Limited /\ [Next]_vars => Limited'
  BY LimitedIsKept
<1>3. Spec => []H!RetryDiscipline
  BY StackKeepsClientPromises, PTL
<1>4. RR!TypeOK /\ Limited /\ H!RetryDiscipline /\ [Next]_vars =>
      [\A e \in Engines : cooledUntil'[e] # cooledUntil[e] =>
          \E s \in Searches :
              /\ phase[s] = "cooling" /\ RR!At(s) = e
              /\ heard[<<s, e>>] = "transient"
              /\ attempt[<<s, e>>] = Attempts]_vars
  <2> SUFFICES ASSUME RR!TypeOK, Limited, H!RetryDiscipline, [Next]_vars,
                      NEW e \in Engines, cooledUntil'[e] # cooledUntil[e]
               PROVE  \E s \in Searches :
                          /\ phase[s] = "cooling" /\ RR!At(s) = e
                          /\ heard[<<s, e>>] = "transient"
                          /\ attempt[<<s, e>>] = Attempts
    OBVIOUS
  <2>1. PICK s \in Searches : RR!Cool(s)
    <3>1. cooledUntil' # cooledUntil
      OBVIOUS
    <3>2. ~Tick /\ ~UNCHANGED vars
      BY <3>1 DEF Tick, RR!Advance, vars, searching
    <3>3. ASSUME NEW s \in Searches, Begin(s) \/ Ask(s) \/ Exchange(s) \/ Cancel(s) PROVE FALSE
      BY <3>1, <3>3, ExchangesStandApart DEF Begin, RR!Begin, searching
    <3>4. ASSUME NEW s \in Searches, Hear(s) PROVE FALSE
      <4>1. RR!Answer(s)
        BY <3>4, HearingIsAnAnswer
      <4> QED
        BY <3>1, <4>1 DEF RR!Answer, RR!AnswerFound, RR!AnswerEmpty, RR!AnswerFatal,
                          RR!AnswerTransient, RR!shared
    <3>5. ASSUME NEW s \in Searches, RR!Skip(s) \/ RR!Admit(s) PROVE FALSE
      BY <3>1, <3>5 DEF RR!Skip, RR!Admit, RR!shared
    <3> QED
      BY <3>2, <3>3, <3>4, <3>5 DEF Next, Step, Decide
  <2>2. phase[s] = "cooling" /\ RR!At(s) = e
    BY <2>1 DEF RR!Cool, RR!TypeOK
  <2>3. reply[Call(s)].kind = "transient" /\ Call(s) \in Calls
    BY <2>2, CallIsACall DEF Limited
  <2>4. heard[Call(s)] = "transient" /\ attempt[Call(s)] = Attempts
    BY <2>3 DEF H!RetryDiscipline
  <2> QED
    BY <2>2, <2>4 DEF Call
<1> QED
  BY <1>1, <1>2, <1>3, <1>4, DrivenHolds, PTL DEF Spec, OnlyRateLimitsCool

\* No request, be it a first one, a retry or one that waited for its slot, reaches
\* an engine's host during a cooldown but from a search that was let through
\* before the cooldown began (roundrobin.go:14-15).
THEOREM CooledEngineIsLeftAlone == Spec => CooledEngineLeftAlone
<1>1. Spec => []RR!BreakerRespected
  BY StackKeepsPromises, PTL
<1>2. RR!TypeOK /\ Driven /\ RR!BreakerRespected /\ [Next]_vars =>
      [\A s \in Searches :
          LET until == cooledUntil[RR!At(s)]
          IN  call[Call(s)] # "inflight" /\ call'[Call(s)] = "inflight" /\ now < until =>
                  since[s] + Cooldown <= until]_vars
  <2> SUFFICES ASSUME RR!TypeOK, Driven, RR!BreakerRespected, [Next]_vars, NEW s \in Searches,
                      call'[Call(s)] # call[Call(s)], now < cooledUntil[RR!At(s)]
               PROVE  since[s] + Cooldown <= cooledUntil[RR!At(s)]
    OBVIOUS
  <2>1. phase[s] = "calling"
    <3>1. Call(s) \in Calls /\ Call(s)[1] = s
      BY CallIsACall
    <3>2. PICK t \in Searches : Ask(t) \/ Exchange(t)
      <4>1. ~UNCHANGED call
        OBVIOUS
      <4>2. ASSUME NEW t \in Searches, Begin(t) \/ Decide(t) \/ Hear(t) \/ Cancel(t) PROVE FALSE
        BY <4>1, <4>2 DEF Begin, Decide, Hear, Cancel, exchanging
      <4> QED
        BY <4>1, <4>2 DEF Next, Step, Tick, vars, exchanging
    <3>3. phase[t] = "calling" /\ Call(s) = Call(t)
      BY <3>1, <3>2, OneCallMoves
    <3> QED
      BY <3>1, <3>3, CallIsACall
  <2> QED
    BY <2>1 DEF RR!BreakerRespected, RR!IsCooled
<1> QED
  BY <1>1, <1>2, DrivenHolds, PTL DEF Spec, CooledEngineLeftAlone
=============================================================================
