--------------------------- MODULE FailoverProofs ---------------------------
(***************************************************************************)
(* What a search of the engine composite comes back with, for any number of *)
(* engines and of concurrent searches: a failover that leaves no engine out *)
(* and an error only when nobody answered.                                 *)
(***************************************************************************)
EXTENDS RoundRobinProofs

-----------------------------------------------------------------------------
(* What is inductive.                                                      *)

\* How many engines come before e in the rotation of search s.
Turn(s, e) == IF start[s] <= e THEN e - start[s] ELSE e - start[s] + N

\* What a walk that met an error must have met.
FateOf(err) == IF IsTransient(err) THEN "transient" ELSE "fatal"

Passed == {"skipped", "transient", "fatal", "empty"}

\* A search under way has met every engine before the one it is at, without
\* results, none after it, and remembers the answers and an error rightly.
Walking(s) ==
    phase[s] # "idle" =>
        /\ \A e \in Engines :
            /\ Turn(s, e) < pos[s] => tried[s][e] \in Passed
            /\ Turn(s, e) > pos[s] => tried[s][e] = "untried"
            /\ Turn(s, e) = pos[s] =>
                tried[s][e] = IF phase[s] = "cooling" THEN "transient" ELSE "untried"
        /\ anyResponded[s] <=> Met(s, "empty") # {}
        /\ lastErr[s] # NoError => Met(s, FateOf(lastErr[s])) # {}

\* A goroutine between two queries has clean locals, and an honest result if it
\* has served a query.
Resting(s) ==
    phase[s] = "idle" =>
        /\ start[s] = 0 /\ pos[s] = 0 /\ ~anyResponded[s] /\ lastErr[s] = NoError
        /\ tried[s] # Untried =>
            /\ result[s].found <=> Met(s, "found") # {}
            /\ ~result[s].found => Met(s, "untried") = {}
            /\ result[s].err # NoError =>
                /\ Met(s, "empty") \cup Met(s, "found") = {}
                /\ Met(s, FateOf(result[s].err)) # {}

Walks == \A s \in Searches : Walking(s) /\ Resting(s)

-----------------------------------------------------------------------------
(* The rotation's places.                                                  *)

\* A place in the rotation is an engine, the first ones after the start
\* (roundrobin.go:75-80).
LEMMA SumWraps ==
    \A a, b \in Engines : (a + b) % N = IF a + b < N THEN a + b ELSE a + b - N
BY EnginesAssumption DEF Engines

\* Every engine has one place in the rotation, and the walk is at the engine of
\* its place.
LEMMA Places ==
    ASSUME TypeOK, NEW s \in Searches, NEW e \in Engines
    PROVE  /\ Turn(s, e) \in Engines
           /\ pos[s] \in Engines
           /\ Turn(s, e) = pos[s] <=> e = At(s)
<1>1. start[s] \in Engines /\ pos[s] \in Engines
  BY DEF TypeOK
<1>2. At(s) = IF start[s] + pos[s] < N THEN start[s] + pos[s] ELSE start[s] + pos[s] - N
  BY <1>1, SumWraps DEF At
<1> QED
  BY <1>1, <1>2, EnginesAssumption DEF Turn, Engines

-----------------------------------------------------------------------------
(* The steps.                                                              *)

\* A search that leaves the engine it is at, having met a fate there that is not
\* an answer with results, keeps its account: the walk goes on, or all engines
\* have been met.
LEMMA LeavingKeepsTheAccount ==
    ASSUME TypeOK, NEW s \in Searches, phase[s] # "idle", Walking(s), TypeOK',
           NEW fate \in Passed, NEW r, NEW err \in Errors \cup {NoError},
           Continue(s, r, err), tried'[s] = [tried[s] EXCEPT ![At(s)] = fate],
           r <=> (anyResponded[s] \/ fate = "empty"), r \in BOOLEAN,
           err # NoError => err = lastErr[s] \/ fate = FateOf(err),
           phase[s] = "cooling" => fate = "transient"
    PROVE  Walking(s)' /\ Resting(s)'
<1>1. At(s) \in Engines /\ tried[s] \in [Engines -> Fates] /\ pos[s] \in Engines
  BY AtIsEngine DEF TypeOK
<1>2. \A e \in Engines : tried'[s][e] = IF e = At(s) THEN fate ELSE tried[s][e]
  BY <1>1
<1>3. tried[s][At(s)] \in {"transient", "untried"}
  BY <1>1, Places DEF Walking
<1>4. r <=> Met(s, "empty")' # {}
  <2>1. anyResponded[s] => Met(s, "empty")' # {}
    BY <1>2, <1>3 DEF Walking, Met
  <2>2. fate = "empty" => At(s) \in Met(s, "empty")'
    BY <1>1, <1>2 DEF Met
  <2>3. ~anyResponded[s] /\ fate # "empty" => Met(s, "empty")' = {}
    BY <1>2 DEF Walking, Met
  <2> QED
    BY <2>1, <2>2, <2>3
<1>5. err # NoError => Met(s, FateOf(err))' # {}
  <2> SUFFICES ASSUME err # NoError PROVE Met(s, FateOf(err))' # {}
    OBVIOUS
  <2>1. CASE fate = FateOf(err)
    BY <1>1, <1>2, <2>1 DEF Met, FateOf, IsTransient
  <2>2. CASE err = lastErr[s] /\ fate # FateOf(err)
    <3>1. PICK e \in Engines : tried[s][e] = FateOf(err)
      BY <2>2 DEF Walking, Met
    <3>2. CASE e # At(s)
      BY <1>2, <3>1, <3>2 DEF Met, FateOf, IsTransient
    <3>3. CASE e = At(s)
      <4>1. phase[s] = "cooling"
        BY <1>1, <3>1, <3>3, Places DEF Walking, FateOf
      <4> QED
        BY <2>2, <3>1, <3>3, <4>1, <1>1, Places DEF Walking
    <3> QED
      BY <3>2, <3>3
  <2> QED
    BY <2>1, <2>2
<1>6. CASE MoreToTry(s) /\ pos' = [pos EXCEPT ![s] = @ + 1]
           /\ phase' = [phase EXCEPT ![s] = "check"]
           /\ anyResponded' = [anyResponded EXCEPT ![s] = r]
           /\ lastErr' = [lastErr EXCEPT ![s] = err]
           /\ UNCHANGED <<start, result>>
  <2>1. /\ phase'[s] = "check" /\ pos'[s] = pos[s] + 1 /\ start'[s] = start[s]
        /\ anyResponded'[s] = r /\ lastErr'[s] = err
    BY <1>6 DEF TypeOK
  <2>2. ASSUME NEW e \in Engines
        PROVE  /\ Turn(s, e)' < pos'[s] => tried'[s][e] \in Passed
               /\ Turn(s, e)' > pos'[s] => tried'[s][e] = "untried"
               /\ Turn(s, e)' = pos'[s] => tried'[s][e] = "untried"
    <3>1. Turn(s, e)' = Turn(s, e)
      BY <2>1 DEF Turn
    <3>2. Turn(s, e) \in Int /\ pos[s] \in Int /\ (Turn(s, e) = pos[s] <=> e = At(s))
      BY Places, EnginesAssumption DEF Engines
    <3>3. CASE e = At(s)
      BY <1>2, <2>1, <3>1, <3>2, <3>3
    <3>4. CASE e # At(s)
      <4>1. /\ Turn(s, e) < pos[s] => tried[s][e] \in Passed
            /\ Turn(s, e) > pos[s] => tried[s][e] = "untried"
        BY DEF Walking
      <4>2. tried'[s][e] = tried[s][e]
        BY <1>2, <3>4
      <4> QED
        BY <2>1, <3>1, <3>2, <3>4, <4>1, <4>2
    <3> QED
      BY <3>3, <3>4
  <2>3. Walking(s)'
    BY <1>4, <1>5, <2>1, <2>2 DEF Walking, FateOf, IsTransient
  <2> QED
    BY <2>1, <2>3 DEF Resting
<1>7. CASE ~MoreToTry(s) /\ Finish(s, Verdict(r, err))
  <2>1. /\ phase'[s] = "idle" /\ start'[s] = 0 /\ pos'[s] = 0
        /\ ~anyResponded'[s] /\ lastErr'[s] = NoError /\ result'[s] = Verdict(r, err)
    BY <1>7 DEF Finish, TypeOK
  <2>2. \A e \in Engines : tried'[s][e] \in Passed
    <3> SUFFICES ASSUME NEW e \in Engines PROVE tried'[s][e] \in Passed
      OBVIOUS
    <3>1. /\ Turn(s, e) \in 0 .. N - 1 /\ pos[s] \in 0 .. N - 1 /\ ~(pos[s] + 1 < N)
          /\ Turn(s, e) = pos[s] <=> e = At(s)
      BY <1>7, Places DEF Engines, MoreToTry
    <3>2. Turn(s, e) < pos[s] \/ e = At(s)
      BY <3>1, EnginesAssumption
    <3> QED
      BY <1>2, <3>2 DEF Walking
  <2>3. Met(s, "found")' = {} /\ Met(s, "untried")' = {}
    BY <2>2 DEF Met, Passed
  <2>4. result'[s].found = FALSE /\ result'[s].err = IF r THEN NoError ELSE err
    BY <2>1 DEF Verdict, Nothing
  <2>5. /\ result'[s].found <=> Met(s, "found")' # {}
        /\ ~result'[s].found => Met(s, "untried")' = {}
    BY <2>3, <2>4
  <2>6. result'[s].err # NoError =>
            /\ Met(s, "empty")' \cup Met(s, "found")' = {}
            /\ Met(s, FateOf(err))' # {} /\ result'[s].err = err
    BY <1>4, <1>5, <2>3, <2>4
  <2>7. Resting(s)'
    BY <2>1, <2>5, <2>6 DEF Resting, FateOf, IsTransient
  <2> QED
    BY <2>1, <2>7 DEF Walking
<1> QED
  BY <1>6, <1>7 DEF Continue

\* A step of one search leaves the account of another alone.
LEMMA OthersKeepTheirs ==
    ASSUME TypeOK, Walks, NEW s \in Searches, Begin(s) \/ Walk(s),
           NEW t \in Searches, t # s
    PROVE  Walking(t)' /\ Resting(t)'
<1>1. /\ phase \in [Searches -> {"idle", "check", "calling", "cooling"}]
      /\ start \in [Searches -> Engines] /\ pos \in [Searches -> Engines]
      /\ anyResponded \in [Searches -> BOOLEAN]
      /\ lastErr \in [Searches -> Errors \cup {NoError}]
      /\ result \in [Searches -> [found: BOOLEAN, err: Errors \cup {NoError}]]
      /\ tried \in [Searches -> [Engines -> Fates]]
  BY DEF TypeOK
<1> DEFINE same == /\ phase'[t] = phase[t] /\ start'[t] = start[t] /\ pos'[t] = pos[t]
                   /\ anyResponded'[t] = anyResponded[t] /\ lastErr'[t] = lastErr[t]
                   /\ result'[t] = result[t] /\ tried'[t] = tried[t]
<1>2. same
  <2>1. ASSUME NEW r, NEW err, Continue(s, r, err),
               tried' = tried \/ \E fate \in Fates : Meets(s, fate)
        PROVE  same
    BY <1>1, <2>1 DEF Continue, Finish, Meets
  <2>2. CASE Begin(s)
    BY <1>1, <2>2 DEF Begin
  <2>3. CASE Admit(s)
    BY <1>1, <2>3 DEF Admit
  <2>4. CASE AnswerFound(s)
    BY <1>1, <2>4 DEF AnswerFound, Finish, Meets
  <2>5. ASSUME NEW err \in Errors, AnswerTransient(s, err) PROVE same
    BY <1>1, <2>5 DEF AnswerTransient, Meets
  <2>6. CASE Skip(s)
    BY <2>1, <2>6 DEF Skip, Fates
  <2>7. CASE AnswerEmpty(s)
    BY <2>1, <2>7 DEF AnswerEmpty, Fates
  <2>8. ASSUME NEW err \in Errors, AnswerFatal(s, err) PROVE same
    BY <2>1, <2>8 DEF AnswerFatal, Fates
  <2>9. CASE Cool(s)
    BY <2>1, <2>9 DEF Cool
  <2> QED
    BY <2>2, <2>3, <2>4, <2>5, <2>6, <2>7, <2>8, <2>9 DEF Walk, Answer
<1>3. Walking(t) /\ Resting(t)
  BY DEF Walks
<1> QED
  BY <1>2, <1>3 DEF Walking, Resting, Turn, Met, FateOf, IsTransient

\* A search's own step keeps its account, whatever it met at the engine it is at.
LEMMA OwnStepKeepsIt ==
    ASSUME TypeOK, TypeOK', Walks, NEW s \in Searches, Begin(s) \/ Walk(s)
    PROVE  Walking(s)' /\ Resting(s)'
<1> USE DEF Passed
<1>1. Walking(s) /\ Resting(s)
  BY DEF Walks
<1>2. /\ At(s) \in Engines /\ tried \in [Searches -> [Engines -> Fates]]
      /\ lastErr[s] \in Errors \cup {NoError} /\ anyResponded[s] \in BOOLEAN
      /\ phase \in [Searches -> {"idle", "check", "calling", "cooling"}]
  BY AtIsEngine DEF TypeOK
<1>3. ASSUME NEW fate, Meets(s, fate)
      PROVE  tried'[s] = [tried[s] EXCEPT ![At(s)] = fate]
  BY <1>2, <1>3 DEF Meets
<1>4. CASE Begin(s)
  <2>1. /\ phase'[s] = "check" /\ tried'[s] = Untried
        /\ pos'[s] = 0 /\ ~anyResponded'[s] /\ lastErr'[s] = NoError
    BY <1>1, <1>2, <1>4 DEF Begin, Resting
  <2>2. Met(s, "empty")' = {}
    BY <2>1 DEF Met, Untried
  <2>3. ASSUME NEW e \in Engines PROVE ~(Turn(s, e)' < 0) /\ tried'[s][e] = "untried"
    <3>1. start'[s] \in 0 .. N - 1 /\ e \in 0 .. N - 1
      BY DEF TypeOK, Engines
    <3> QED
      BY <2>1, <3>1, EnginesAssumption DEF Turn, Untried
  <2> QED
    BY <2>1, <2>2, <2>3 DEF Walking, Resting
<1>5. CASE Admit(s)
  BY <1>1, <1>2, <1>5 DEF Admit, Walking, Resting, Turn, Met, FateOf, IsTransient
<1>6. CASE AnswerFound(s)
  <2>1. /\ phase'[s] = "idle" /\ start'[s] = 0 /\ pos'[s] = 0
        /\ ~anyResponded'[s] /\ lastErr'[s] = NoError /\ result'[s] = Found
    BY <1>6 DEF AnswerFound, Finish, TypeOK
  <2>2. tried'[s][At(s)] = "found"
    BY <1>2, <1>6 DEF AnswerFound, Meets
  <2>3. Met(s, "found")' # {}
    BY <1>2, <2>2 DEF Met
  <2> QED
    BY <2>1, <2>3 DEF Walking, Resting, Found
<1>7. ASSUME NEW err \in Errors, AnswerTransient(s, err) PROVE Walking(s)' /\ Resting(s)'
  <2>1. /\ phase[s] = "calling" /\ phase'[s] = "cooling" /\ lastErr'[s] = err
        /\ start' = start /\ pos' = pos /\ anyResponded' = anyResponded
        /\ IsTransient(err)
    BY <1>2, <1>7 DEF AnswerTransient, TypeOK
  <2>2. \A e \in Engines : tried'[s][e] = IF e = At(s) THEN "transient" ELSE tried[s][e]
    BY <1>2, <1>7 DEF AnswerTransient, Meets
  <2>3. tried[s][At(s)] = "untried"
    BY <1>1, <1>2, <2>1, Places DEF Walking
  <2>4. Met(s, "empty")' = Met(s, "empty")
    BY <2>2, <2>3 DEF Met
  <2>5. Met(s, FateOf(err))' # {}
    BY <1>2, <2>1, <2>2 DEF Met, FateOf, IsTransient
  <2>6. ASSUME NEW e \in Engines
        PROVE  /\ Turn(s, e)' < pos'[s] => tried'[s][e] \in Passed
               /\ Turn(s, e)' > pos'[s] => tried'[s][e] = "untried"
               /\ Turn(s, e)' = pos'[s] => tried'[s][e] = "transient"
    <3>1. Turn(s, e)' = Turn(s, e) /\ (Turn(s, e) = pos[s] <=> e = At(s))
      BY <2>1, Places DEF Turn
    <3> QED
      BY <1>1, <2>1, <2>2, <3>1 DEF Walking
  <2> QED
    BY <1>1, <2>1, <2>4, <2>5, <2>6 DEF Walking, Resting, FateOf, IsTransient
<1>8. CASE Skip(s)
  BY <1>1, <1>2, <1>3, <1>8, LeavingKeepsTheAccount DEF Skip
<1>9. CASE AnswerEmpty(s)
  BY <1>1, <1>2, <1>3, <1>9, LeavingKeepsTheAccount DEF AnswerEmpty
<1>10. ASSUME NEW err \in Errors, AnswerFatal(s, err) PROVE Walking(s)' /\ Resting(s)'
  <2>1. FateOf(err) = "fatal"
    BY <1>10 DEF AnswerFatal, FateOf
  <2> QED
    BY <1>1, <1>2, <1>3, <1>10, <2>1, LeavingKeepsTheAccount DEF AnswerFatal
<1>11. CASE Cool(s)
  <2>1. phase[s] = "cooling" /\ tried' = tried /\ tried[s][At(s)] = "transient"
    BY <1>1, <1>2, <1>11, Places DEF Cool, Walking
  <2>2. tried'[s] = [tried[s] EXCEPT ![At(s)] = "transient"]
    BY <1>2, <2>1
  <2> QED
    BY <1>1, <1>2, <1>11, <2>1, <2>2, LeavingKeepsTheAccount DEF Cool
<1> QED
  BY <1>4, <1>5, <1>6, <1>7, <1>8, <1>9, <1>10, <1>11 DEF Walk, Answer

\* Every search keeps a true account of its walk.
LEMMA AccountsAreTrue == OpenSpec => []Walks
<1>1. Init => Walks
  BY DEF Init, Walks, Walking, Resting
<1>2. TypeOK /\ TypeOK' /\ Walks /\ [OpenNext]_vars => Walks'
  <2> SUFFICES ASSUME TypeOK, TypeOK', Walks, [OpenNext]_vars, NEW t \in Searches
               PROVE  Walking(t)' /\ Resting(t)'
    BY DEF Walks
  <2>1. ASSUME NEW s \in Searches, Begin(s) \/ Walk(s) PROVE Walking(t)' /\ Resting(t)'
    BY <2>1, OwnStepKeepsIt, OthersKeepTheirs
  <2>2. CASE Advance \/ UNCHANGED vars
    <3>1. UNCHANGED <<local, tried>>
      BY <2>2 DEF Advance, vars, history
    <3>2. Walking(t) /\ Resting(t)
      BY DEF Walks
    <3> QED
      BY <3>1, <3>2 DEF local, Walking, Resting, Turn, Met, FateOf, IsTransient
  <2> QED
    BY <2>1, <2>2 DEF OpenNext
<1> QED
  BY <1>1, <1>2, TypeCorrect, PTL DEF OpenSpec

-----------------------------------------------------------------------------
(* The promises.                                                           *)

\* A search that comes back without results has been refused by every engine
\* there is (roundrobin.go:44-60): it left none untried.
THEOREM FailoverIsComplete == OpenSpec => []FailoverComplete
<1>1. Walks => FailoverComplete
  BY DEF Walks, Resting, FailoverComplete, Finished
<1> QED
  BY <1>1, AccountsAreTrue, PTL

\* "A cooling engine's failure never surfaces" (roundrobin.go:15-16) while some
\* engine answers: an error means that none did, and that an engine failed so.
THEOREM ErrorMeansNoAnswer == OpenSpec => []ErrorOnlyIfNobodyAnswered
<1>1. Walks => ErrorOnlyIfNobodyAnswered
  BY DEF Walks, Resting, ErrorOnlyIfNobodyAnswered, Finished, FateOf
<1> QED
  BY <1>1, AccountsAreTrue, PTL
=============================================================================
