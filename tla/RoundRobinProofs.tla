-------------------------- MODULE RoundRobinProofs --------------------------
(***************************************************************************)
(* The engine composite for any number of engines and of concurrent        *)
(* searches, any cooldown and any errors: its type invariant, the fairness *)
(* of the rotation, and the two promises of the circuit breaker.           *)
(*                                                                         *)
(* The theorems are about OpenSpec, whose clock may advance at any moment, *)
(* so that they hold of any system the composite is a part of; Spec is one *)
(* of its cases.                                                           *)
(***************************************************************************)
EXTENDS RoundRobin, TLAPS

-----------------------------------------------------------------------------
\* The composite whose clock stands still with no breaker open is one whose
\* clock may advance at any moment: what follows holds of it too.
THEOREM ClosedIsOpen == Spec => OpenSpec
<1>1. [Next]_vars => [OpenNext]_vars
  BY DEF Next, OpenNext, Tick
<1> QED
  BY <1>1, PTL DEF Spec, OpenSpec

-----------------------------------------------------------------------------
(* What is inductive.                                                      *)

\* Every engine behind the cursor has begun one rotation more than every engine
\* from the cursor on.
Rotating ==
    \E b \in Nat : \A e \in Engines : begun[e] = IF e < cursor THEN b + 1 ELSE b

\* What a search remembers of the clock is in the past.
SincePast == \A s \in Searches : since[s] <= now

\* A call under way was let through after the engine's last cooldown, or at
\* least a whole cooldown before the current one ends.
LetThrough ==
    \A s \in Searches : phase[s] = "calling" =>
        \/ cooledUntil[At(s)] <= since[s]
        \/ since[s] + Cooldown <= cooledUntil[At(s)]

\* A rate limit acted upon lies in the past, and its cooldown within the breaker's.
Covered ==
    \A e \in Engines : limitedAt[e] <= now /\ limitedAt[e] + Cooldown <= cooledUntil[e]

-----------------------------------------------------------------------------
(* The rotation's arithmetic.                                              *)

\* A position in the rotation is an engine (roundrobin.go:75-80).
LEMMA ModIsEngine == \A a \in Nat : a % N \in Engines
BY EnginesAssumption DEF Engines

\* The cursor moves on by one, and from the last engine to the first.
LEMMA NextWraps ==
    \A a \in Engines : (a + 1) % N = IF a = N - 1 THEN 0 ELSE a + 1
BY EnginesAssumption DEF Engines

\* The engine a search is at is an engine.
LEMMA AtIsEngine == TypeOK => \A s \in Searches : At(s) \in Engines
<1> SUFFICES ASSUME TypeOK, NEW s \in Searches PROVE At(s) \in Engines
  OBVIOUS
<1>1. start[s] \in Nat /\ pos[s] \in Nat
  BY EnginesAssumption DEF TypeOK, Engines
<1> QED
  BY <1>1, ModIsEngine DEF At

-----------------------------------------------------------------------------
(* Types.                                                                  *)

\* Leaving an engine keeps the locals of every search well typed, for whatever
\* the search has learned.
LEMMA ContinueKeepsTypes ==
    ASSUME TypeOK, NEW s \in Searches, NEW r \in BOOLEAN, NEW e \in Errors \cup {NoError},
           Continue(s, r, e)
    PROVE  /\ phase' \in [Searches -> {"idle", "check", "calling", "cooling"}]
           /\ start' \in [Searches -> Engines]
           /\ pos' \in [Searches -> Engines]
           /\ anyResponded' \in [Searches -> BOOLEAN]
           /\ lastErr' \in [Searches -> Errors \cup {NoError}]
           /\ result' \in [Searches -> [found: BOOLEAN, err: Errors \cup {NoError}]]
<1> USE EnginesAssumption DEF TypeOK
<1>1. CASE MoreToTry(s) /\ pos' = [pos EXCEPT ![s] = @ + 1]
           /\ phase' = [phase EXCEPT ![s] = "check"]
           /\ anyResponded' = [anyResponded EXCEPT ![s] = r]
           /\ lastErr' = [lastErr EXCEPT ![s] = e]
           /\ UNCHANGED <<start, result>>
  <2>1. pos[s] + 1 \in Engines
    <3>1. pos[s] \in 0 .. N - 1 /\ pos[s] + 1 < N
      BY <1>1 DEF MoreToTry, Engines
    <3> HIDE DEF TypeOK
    <3> QED
      BY <3>1 DEF Engines
  <2> QED
    BY <1>1, <2>1
<1>2. CASE Finish(s, Verdict(r, e))
  <2>1. Verdict(r, e) \in [found: BOOLEAN, err: Errors \cup {NoError}]
    BY DEF Verdict, Nothing
  <2>2. 0 \in Engines
    BY DEF Engines
  <2> QED
    BY <1>2, <2>1, <2>2 DEF Finish
<1> QED
  BY <1>1, <1>2 DEF Continue

\* Every variable keeps its type; in particular the cursor is always an engine
\* and the walk never runs past the rotation (roundrobin.go:41-81).
THEOREM TypeCorrect == OpenSpec => []TypeOK
<1>1. Init => TypeOK
  <2>1. 0 \in Engines
    BY EnginesAssumption DEF Engines
  <2> QED
    BY <2>1, CooldownAssumption
       DEF Init, TypeOK, Untried, Fates, Nothing
<1>2. TypeOK /\ [OpenNext]_vars => TypeOK'
  <2> SUFFICES ASSUME TypeOK, [OpenNext]_vars PROVE TypeOK'
    OBVIOUS
  <2>0. \A s \in Searches : At(s) \in Engines
    BY AtIsEngine
  <2>1. ASSUME NEW s \in Searches, Begin(s)
        PROVE  TypeOK'
    <3>1. cursor \in Engines /\ NextCursor \in Engines
      <4>1. cursor \in Engines
        BY DEF TypeOK
      <4>2. cursor + 1 \in Nat
        BY <4>1, EnginesAssumption DEF Engines
      <4> QED
        BY <4>1, <4>2, ModIsEngine DEF NextCursor
    <3>2. begun' \in [Engines -> Nat]
      BY <2>1, <3>1 DEF Begin, TypeOK
    <3>3. Untried \in [Engines -> Fates]
      BY DEF Untried, Fates
    <3> QED
      BY <2>1, <3>1, <3>2, <3>3 DEF Begin, TypeOK
  <2>2. ASSUME NEW s \in Searches, NEW f \in Fates, Meets(s, f)
        PROVE  tried' \in [Searches -> [Engines -> Fates]]
    BY <2>0, <2>2 DEF Meets, TypeOK
  <2>3. ASSUME NEW s \in Searches, Forget(s)
        PROVE  since' \in [Searches -> Nat]
    BY <2>3 DEF Forget, TypeOK
  <2> DEFINE fates == {"skipped", "transient", "fatal", "empty", "found"}
  <2>4. fates \subseteq Fates
    BY DEF Fates
  <2>5. ASSUME NEW s \in Searches, Skip(s)
        PROVE  TypeOK'
    <3>1. anyResponded[s] \in BOOLEAN /\ lastErr[s] \in Errors \cup {NoError}
      BY DEF TypeOK
    <3> QED
      BY <2>2, <2>4, <2>5, <3>1, ContinueKeepsTypes DEF Skip, shared, TypeOK
  <2>6. ASSUME NEW s \in Searches, Admit(s)
        PROVE  TypeOK'
    BY <2>6 DEF Admit, shared, TypeOK
  <2>7. ASSUME NEW s \in Searches, AnswerFound(s)
        PROVE  TypeOK'
    <3>1. Found \in [found: BOOLEAN, err: Errors \cup {NoError}] /\ 0 \in Engines
      BY EnginesAssumption DEF Found, Engines
    <3> QED
      BY <2>2, <2>3, <2>4, <2>7, <3>1 DEF AnswerFound, Finish, shared, TypeOK
  <2>8. ASSUME NEW s \in Searches, AnswerEmpty(s)
        PROVE  TypeOK'
    <3>1. lastErr[s] \in Errors \cup {NoError}
      BY DEF TypeOK
    <3> QED
      BY <2>2, <2>3, <2>4, <2>8, <3>1, ContinueKeepsTypes DEF AnswerEmpty, shared, TypeOK
  <2>9. ASSUME NEW s \in Searches, NEW err \in Errors, AnswerFatal(s, err)
        PROVE  TypeOK'
    <3>1. anyResponded[s] \in BOOLEAN
      BY DEF TypeOK
    <3> QED
      BY <2>2, <2>3, <2>4, <2>9, <3>1, ContinueKeepsTypes DEF AnswerFatal, shared, TypeOK
  <2>10. ASSUME NEW s \in Searches, NEW err \in Errors, AnswerTransient(s, err)
         PROVE  TypeOK'
    BY <2>2, <2>4, <2>10 DEF AnswerTransient, shared, TypeOK
  <2>11. ASSUME NEW s \in Searches, Cool(s)
         PROVE  TypeOK'
    <3>1. anyResponded[s] \in BOOLEAN /\ lastErr[s] \in Errors \cup {NoError}
      BY DEF TypeOK
    <3>2. /\ cooledUntil' \in [Engines -> Nat]
          /\ limitedAt' \in [Engines -> Int]
      BY <2>0, <2>11, CooldownAssumption DEF Cool, CooledFrom, TypeOK
    <3> QED
      BY <2>3, <2>11, <3>1, <3>2, ContinueKeepsTypes DEF Cool, TypeOK
  <2>12. CASE Advance
    BY <2>12 DEF Advance, local, history, TypeOK
  <2>13. CASE UNCHANGED vars
    BY <2>13 DEF vars, shared, local, history, TypeOK
  <2> QED
    BY <2>1, <2>5, <2>6, <2>7, <2>8, <2>9, <2>10, <2>11, <2>12, <2>13
       DEF OpenNext, Walk, Answer
<1> QED
  BY <1>1, <1>2, PTL DEF OpenSpec

-----------------------------------------------------------------------------
(* The rotation.                                                           *)

\* Every step but Begin leaves the rotation alone.
LEMMA OnlyBeginRotates ==
    ASSUME [OpenNext]_vars, \A s \in Searches : ~Begin(s)
    PROVE  UNCHANGED <<cursor, begun>>
BY DEF OpenNext, Walk, Answer, Advance, Skip, Admit, AnswerFound, AnswerEmpty,
       AnswerFatal, AnswerTransient, Cool, vars, shared, local, history

\* "Rotates the starting engine per query" (roundrobin.go:13), for any number of
\* engines and of searches in flight: no engine has been first for two queries
\* more than another.
THEOREM RotationIsFair == OpenSpec => []RotationFair
<1>1. Init => Rotating
  <2> SUFFICES ASSUME Init PROVE Rotating
    OBVIOUS
  <2>1. \A e \in Engines : begun[e] = IF e < cursor THEN 0 + 1 ELSE 0
    BY EnginesAssumption DEF Init, Engines
  <2> QED
    BY <2>1 DEF Rotating
<1>2. TypeOK /\ Rotating /\ [OpenNext]_vars => Rotating'
  <2> SUFFICES ASSUME TypeOK, Rotating, [OpenNext]_vars PROVE Rotating'
    OBVIOUS
  <2>1. CASE \A s \in Searches : ~Begin(s)
    BY <2>1, OnlyBeginRotates DEF Rotating
  <2>2. ASSUME NEW s \in Searches, Begin(s) PROVE Rotating'
    <3>1. PICK b \in Nat : \A e \in Engines : begun[e] = IF e < cursor THEN b + 1 ELSE b
      BY DEF Rotating
    <3>2. cursor \in Engines /\ begun \in [Engines -> Nat]
      BY DEF TypeOK
    <3>3. /\ cursor' = IF cursor = N - 1 THEN 0 ELSE cursor + 1
          /\ begun' = [begun EXCEPT ![cursor] = @ + 1]
      BY <2>2, <3>2, NextWraps DEF Begin, NextCursor
    <3>4. CASE cursor = N - 1
      <4>1. \A e \in Engines : begun'[e] = IF e < cursor' THEN (b + 1) + 1 ELSE b + 1
        BY <3>1, <3>2, <3>3, <3>4, EnginesAssumption DEF Engines
      <4> QED
        BY <4>1 DEF Rotating
    <3>5. CASE cursor # N - 1
      <4>1. \A e \in Engines : begun'[e] = IF e < cursor' THEN b + 1 ELSE b
        BY <3>1, <3>2, <3>3, <3>5, EnginesAssumption DEF Engines
      <4> QED
        BY <4>1 DEF Rotating
    <3> QED
      BY <3>4, <3>5
  <2> QED
    BY <2>1, <2>2
<1>3. Rotating => RotationFair
  <2> SUFFICES ASSUME Rotating, NEW e \in Engines, NEW f \in Engines
               PROVE  begun[e] <= begun[f] + 1
    BY DEF RotationFair
  <2>1. PICK b \in Nat : \A g \in Engines : begun[g] = IF g < cursor THEN b + 1 ELSE b
    BY DEF Rotating
  <2>2. begun[e] \in {b, b + 1} /\ begun[f] \in {b, b + 1}
    BY <2>1
  <2> QED
    BY <2>2
<1> QED
  BY <1>1, <1>2, <1>3, TypeCorrect, PTL DEF OpenSpec

-----------------------------------------------------------------------------
(* The breaker.                                                            *)

\* What a search remembers of the clock is in the past: it is written as the
\* clock's value, and the clock never runs backwards.
LEMMA PastStaysPast == TypeOK /\ SincePast /\ [OpenNext]_vars => SincePast'
<1> SUFFICES ASSUME TypeOK, SincePast, [OpenNext]_vars, NEW t \in Searches
             PROVE  since'[t] <= now'
  BY DEF SincePast
<1>1. now \in Nat /\ since \in [Searches -> Nat] /\ since[t] <= now
  BY DEF TypeOK, SincePast
<1>2. CASE UNCHANGED since /\ (now' = now \/ now' = now + 1)
  BY <1>1, <1>2
<1>3. ASSUME NEW s \in Searches, UNCHANGED now, since' = [since EXCEPT ![s] = now] \/ Forget(s)
      PROVE  since'[t] <= now'
  BY <1>1, <1>3 DEF Forget
<1> QED
  BY <1>2, <1>3
     DEF OpenNext, Walk, Answer, Advance, Begin, Skip, Admit, AnswerFound, AnswerEmpty,
         AnswerFatal, AnswerTransient, Cool, vars, shared, local, history

\* Only a search's own steps move it, and only Cool writes a breaker.
LEMMA CallUnderWay ==
    ASSUME TypeOK, [OpenNext]_vars, NEW t \in Searches, phase'[t] = "calling"
    PROVE  \/ Admit(t)
           \/ phase[t] = "calling" /\ since'[t] = since[t] /\ At(t)' = At(t)
<1>1. /\ phase \in [Searches -> {"idle", "check", "calling", "cooling"}]
      /\ start \in [Searches -> Engines] /\ pos \in [Searches -> Engines]
      /\ since \in [Searches -> Nat]
  BY DEF TypeOK
<1>2. CASE UNCHANGED local /\ UNCHANGED since
  BY <1>2 DEF local, At
<1>3. ASSUME NEW s \in Searches, Begin(s)
      PROVE  phase[t] = "calling" /\ since'[t] = since[t] /\ At(t)' = At(t)
  BY <1>1, <1>3 DEF Begin, At
<1>4. ASSUME NEW s \in Searches, NEW r, NEW e, Continue(s, r, e),
             UNCHANGED since \/ Forget(s)
      PROVE  phase[t] = "calling" /\ since'[t] = since[t] /\ At(t)' = At(t)
  BY <1>1, <1>4 DEF Continue, Finish, Forget, At
<1>5. ASSUME NEW s \in Searches, AnswerFound(s)
      PROVE  phase[t] = "calling" /\ since'[t] = since[t] /\ At(t)' = At(t)
  BY <1>1, <1>5 DEF AnswerFound, Finish, Forget, At
<1>6. ASSUME NEW s \in Searches, NEW err \in Errors, AnswerTransient(s, err)
      PROVE  phase[t] = "calling" /\ since'[t] = since[t] /\ At(t)' = At(t)
  BY <1>1, <1>6 DEF AnswerTransient, At
<1>7. ASSUME NEW s \in Searches, Admit(s), s # t
      PROVE  phase[t] = "calling" /\ since'[t] = since[t] /\ At(t)' = At(t)
  BY <1>1, <1>7 DEF Admit, At
<1>8. ASSUME NEW s \in Searches, Skip(s) \/ AnswerEmpty(s) \/ Cool(s)
                                  \/ \E err \in Errors : AnswerFatal(s, err)
      PROVE  phase[t] = "calling" /\ since'[t] = since[t] /\ At(t)' = At(t)
  BY <1>4, <1>8 DEF Skip, AnswerEmpty, Cool, AnswerFatal
<1>9. CASE Advance \/ UNCHANGED vars
  BY <1>2, <1>9 DEF Advance, vars, history
<1> QED
  BY <1>3, <1>5, <1>6, <1>7, <1>8, <1>9 DEF OpenNext, Walk, Answer

\* A breaker only ever opens for a whole cooldown from now.
LEMMA OnlyCoolOpens ==
    ASSUME TypeOK, [OpenNext]_vars, NEW e \in Engines
    PROVE  cooledUntil'[e] = cooledUntil[e] \/ cooledUntil'[e] = now + Cooldown
<1>1. cooledUntil \in [Engines -> Nat]
  BY DEF TypeOK
<1>2. ASSUME NEW s \in Searches, Cool(s)
      PROVE  cooledUntil'[e] = cooledUntil[e] \/ cooledUntil'[e] = now + Cooldown
  BY <1>1, <1>2 DEF Cool, CooledFrom
<1> QED
  BY <1>1, <1>2
     DEF OpenNext, Walk, Answer, Advance, Begin, Skip, Admit, AnswerFound, AnswerEmpty,
         AnswerFatal, AnswerTransient, vars, shared

\* "Skipping it until the cooldown elapses" (roundrobin.go:14-15), the check and
\* the call being in different critical sections: a call at an engine whose
\* breaker is open was let through before that breaker opened.
THEOREM BreakerIsRespected == OpenSpec => []BreakerRespected
<1>1. Init => SincePast /\ LetThrough
  BY DEF Init, SincePast, LetThrough
<1>2. TypeOK /\ SincePast /\ LetThrough /\ [OpenNext]_vars => LetThrough'
  <2> SUFFICES ASSUME TypeOK, SincePast, LetThrough, [OpenNext]_vars,
                      NEW t \in Searches, phase'[t] = "calling"
               PROVE  \/ cooledUntil'[At(t)'] <= since'[t]
                      \/ since'[t] + Cooldown <= cooledUntil'[At(t)']
    BY DEF LetThrough
  <2>1. /\ At(t) \in Engines
        /\ now \in Nat /\ cooledUntil[At(t)] \in Nat /\ since[t] \in Nat /\ since[t] <= now
    BY AtIsEngine DEF TypeOK, SincePast
  <2>2. CASE Admit(t)
    <3>1. /\ since'[t] = now /\ At(t)' = At(t)
          /\ cooledUntil' = cooledUntil /\ ~(now < cooledUntil[At(t)])
      BY <2>2 DEF Admit, IsCooled, At, shared, TypeOK
    <3> QED
      BY <2>1, <3>1
  <2>3. CASE phase[t] = "calling" /\ since'[t] = since[t] /\ At(t)' = At(t)
    <3>1. cooledUntil'[At(t)] \in {cooledUntil[At(t)], now + Cooldown}
      BY <2>1, OnlyCoolOpens
    <3>2. \/ cooledUntil[At(t)] <= since[t]
          \/ since[t] + Cooldown <= cooledUntil[At(t)]
      BY <2>3 DEF LetThrough
    <3> QED
      BY <2>1, <2>3, <3>1, <3>2, CooldownAssumption
  <2> QED
    BY <2>2, <2>3, CallUnderWay
<1>3. TypeOK /\ SincePast /\ LetThrough => BreakerRespected
  <2> SUFFICES ASSUME TypeOK, SincePast, LetThrough, NEW s \in Searches,
                      phase[s] = "calling", IsCooled(At(s))
               PROVE  since[s] + Cooldown <= cooledUntil[At(s)]
    BY DEF BreakerRespected
  <2>1. /\ At(s) \in Engines
        /\ now \in Nat /\ cooledUntil[At(s)] \in Nat /\ since[s] \in Nat /\ since[s] <= now
    BY AtIsEngine DEF TypeOK, SincePast
  <2> QED
    BY <2>1 DEF LetThrough, IsCooled
<1> QED
  BY <1>1, <1>2, <1>3, PastStaysPast, TypeCorrect, PTL DEF OpenSpec

\* "A per-engine circuit breaker cools any engine that rate-limits ... until the
\* cooldown elapses" (roundrobin.go:14-15), across any number of searches: once
\* one of them has acted on a rate limit, none is let through before a whole
\* cooldown has passed since that limit was heard.
THEOREM BreakerAlwaysHolds == OpenSpec => BreakerHolds
<1>1. TypeOK /\ Init => SincePast /\ Covered
  <2> SUFFICES ASSUME TypeOK, Init PROVE SincePast /\ Covered
    OBVIOUS
  <2>1. now = 0 /\ \A e \in Engines : limitedAt[e] = -Cooldown /\ cooledUntil[e] = 0
    BY DEF Init
  <2>2. \A s \in Searches : since[s] = 0
    BY DEF Init
  <2> QED
    BY <2>1, <2>2, CooldownAssumption DEF SincePast, Covered
<1>2. TypeOK /\ SincePast /\ Covered /\ [OpenNext]_vars => Covered'
  <2> SUFFICES ASSUME TypeOK, SincePast, Covered, [OpenNext]_vars, NEW e \in Engines
               PROVE  limitedAt'[e] <= now' /\ limitedAt'[e] + Cooldown <= cooledUntil'[e]
    BY DEF Covered
  <2>1. /\ now \in Nat /\ limitedAt \in [Engines -> Int] /\ cooledUntil \in [Engines -> Nat]
        /\ limitedAt[e] <= now /\ limitedAt[e] + Cooldown <= cooledUntil[e]
    BY DEF TypeOK, Covered
  <2>2. CASE UNCHANGED <<limitedAt, cooledUntil>> /\ (now' = now \/ now' = now + 1)
    BY <2>1, <2>2, CooldownAssumption
  <2>3. ASSUME NEW s \in Searches, Cool(s)
        PROVE  limitedAt'[e] <= now' /\ limitedAt'[e] + Cooldown <= cooledUntil'[e]
    <3>1. since[s] \in Nat /\ since[s] <= now
      BY DEF TypeOK, SincePast
    <3>2. /\ cooledUntil' = [cooledUntil EXCEPT ![At(s)] = now + Cooldown]
          /\ limitedAt' = [limitedAt EXCEPT ![At(s)] = IF @ < since[s] THEN since[s] ELSE @]
          /\ now' = now
      BY <2>3 DEF Cool, CooledFrom
    <3>3. CASE e = At(s)
      <4>1. /\ cooledUntil'[e] = now + Cooldown
            /\ limitedAt'[e] \in {limitedAt[e], since[s]}
        BY <2>1, <3>2, <3>3
      <4> QED
        BY <2>1, <3>1, <3>2, <4>1, CooldownAssumption
    <3>4. CASE e # At(s)
      BY <2>1, <3>2, <3>4
    <3> QED
      BY <3>3, <3>4
  <2> QED
    BY <2>2, <2>3
       DEF OpenNext, Walk, Answer, Advance, Begin, Skip, Admit, AnswerFound, AnswerEmpty,
           AnswerFatal, AnswerTransient, vars, shared, local, history
<1>3. TypeOK /\ Covered /\ [OpenNext]_vars =>
      [\A s \in Searches :
          phase[s] = "check" /\ phase'[s] = "calling" => now >= limitedAt[At(s)] + Cooldown]_vars
  <2> SUFFICES ASSUME TypeOK, Covered, [OpenNext]_vars, NEW s \in Searches,
                      phase[s] = "check", phase'[s] = "calling"
               PROVE  now >= limitedAt[At(s)] + Cooldown
    OBVIOUS
  <2>1. Admit(s)
    BY CallUnderWay
  <2>2. At(s) \in Engines
    BY AtIsEngine
  <2>3. now \in Nat /\ limitedAt[At(s)] \in Int /\ cooledUntil[At(s)] \in Nat
    BY <2>2 DEF TypeOK
  <2>4. ~(now < cooledUntil[At(s)]) /\ limitedAt[At(s)] + Cooldown <= cooledUntil[At(s)]
    BY <2>1, <2>2 DEF Admit, IsCooled, Covered
  <2> QED
    BY <2>3, <2>4, CooldownAssumption
<1> QED
  BY <1>1, <1>2, <1>3, PastStaysPast, TypeCorrect, PTL DEF OpenSpec, BreakerHolds
=============================================================================
