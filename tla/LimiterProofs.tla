--------------------------- MODULE LimiterProofs ---------------------------
(***************************************************************************)
(* What the limiter promises, for every set of callers and hosts and every *)
(* interval and jitter.                                                    *)
(*                                                                         *)
(* The argument.  nextAllowed[h] stays ahead of every slot handed out for  *)
(* h by an interval for each slot since (Spaced), which makes a new slot   *)
(* keep its distance.  A sleeper waits for the slot its turn names, and a  *)
(* spent turn's slot has come (Kept), so counting the spent turns counts   *)
(* slots.  And from any instant x on, nextAllowed[h] lies within a target  *)
(* per sleeper still waiting past x, plus one (Backlog): stated for every  *)
(* x, it survives the clock.                                               *)
(***************************************************************************)
EXTENDS LimiterGrants, FiniteSetTheorems, TLAPS

Target == MinInterval + JitterMax

WaitingPast(h, x) == {s \in sleepers : s.host = h /\ s.due > x}

Spaced ==
    \A h \in Hosts : \A i \in DOMAIN grants[h] :
        grants[h][i] + MinInterval * (Len(grants[h]) + 1 - i) <= nextAllowed[h]

OneWaitEach == \A s, t \in sleepers : s.caller = t.caller => s = t

Kept ==
    /\ \A s \in sleepers :
        /\ turn[s.caller] \in DOMAIN grants[s.host]
        /\ grants[s.host][turn[s.caller]] = s.due
    /\ \A h \in Hosts : \A t \in returned[h] :
        t \in DOMAIN grants[h] /\ grants[h][t] <= now

Backlog ==
    /\ IsFiniteSet(sleepers)
    /\ \A h \in Hosts : \A x \in Nat : x >= now =>
        nextAllowed[h] - x <= Target * (Cardinality(WaitingPast(h, x)) + 1)

-----------------------------------------------------------------------------
(* Arithmetic and counting.                                                *)

\* Multiplication by a constant distributes over one more.
LEMMA OneMore == \A m, a \in Int : m * (a + 1) = m * a + m
BY SMT

\* Multiplication by a natural number is monotone.
LEMMA Monotone == \A m \in Nat : \A a, b \in Int : a <= b => m * a <= m * b
BY SMT

\* The jitter is at most JitterMax (ratelimit.go:43).
LEMMA JitterBound == Jitters \subseteq 0 .. JitterMax
BY IntervalAssumption, SMT DEF Jitters

\* One more slot is appended after the others, which stay where they are.
LEMMA AppendKeeps ==
    ASSUME NEW q \in Seq(Nat), NEW v \in Nat
    PROVE  /\ Len(q) \in Nat /\ Len(Append(q, v)) = Len(q) + 1
           /\ Len(q) + 1 \in DOMAIN Append(q, v)
           /\ Append(q, v)[Len(q) + 1] = v
           /\ \A i \in DOMAIN q : i \in DOMAIN Append(q, v) /\ Append(q, v)[i] = q[i]
OBVIOUS

\* k numbers from i on reach i + k - 1.
LEMMA CountReaches ==
    ASSUME NEW S, NEW i \in Nat, NEW n \in Nat,
           S \subseteq i .. n, S # {}
    PROVE  /\ IsFiniteSet(S)
           /\ Cardinality(S) \in Nat \ {0}
           /\ \E t \in S : t >= i + Cardinality(S) - 1
<1>1. IsFiniteSet(S) /\ Cardinality(S) \in Nat
  <2>1. IsFiniteSet(i .. n)
    BY FS_Interval
  <2> QED
    BY <2>1, FS_Subset, FS_CardinalityType
<1>2. Cardinality(S) # 0
  BY <1>1, FS_EmptySet
<1>3. ASSUME \A t \in S : ~(t >= i + Cardinality(S) - 1)
      PROVE  FALSE
  <2> DEFINE k == Cardinality(S)
             top == i + k - 2
  <2>1. k \in Nat /\ k >= 1 /\ top \in Int
    BY <1>1, <1>2
  <2>2. S \subseteq i .. top
    BY <1>3, <2>1
  <2> HIDE DEF k, top
  <2>3. IsFiniteSet(i .. top) /\ Cardinality(i .. top) = IF i > top THEN 0 ELSE top - i + 1
    <3>1. i \in Int /\ top \in Int
      BY <2>1
    <3> QED
      BY ONLY <3>1, FS_Interval
  <2>4. Cardinality(S) <= Cardinality(i .. top)
    BY <2>2, <2>3, FS_Subset
  <2> QED
    BY <2>1, <2>3, <2>4 DEF k, top
<1> QED
  BY <1>1, <1>2, <1>3

-----------------------------------------------------------------------------
(* Types.                                                                  *)

\* The clock, the reservations and the history keep their types: in particular
\* no slot is ever dated before the epoch (ratelimit.go:40-55).
THEOREM TypeCorrect == Spec => []TypeOK
<1>1. Init => TypeOK
  BY DEF Init, LimiterInit, TypeOK, LimiterTypeOK, Wait
<1>2. TypeOK /\ [Next]_vars => TypeOK'
  <2> SUFFICES ASSUME TypeOK, [Next]_vars
               PROVE  TypeOK'
    OBVIOUS
  <2> USE DEF TypeOK, LimiterTypeOK
  <2>1. CASE Tick
    BY <2>1 DEF Tick, Advance, history
  <2>2. ASSUME NEW c \in Callers, NEW h \in Hosts, ReserveSlot(c, h)
        PROVE  TypeOK'
    <3>1. Earliest(h) \in Nat
      BY DEF Earliest
    <3>2. nextAllowed' \in [Hosts -> Nat]
      <4>1. PICK j \in Jitters :
              nextAllowed' = [nextAllowed EXCEPT ![h] = Earliest(h) + MinInterval + j]
        BY <2>2 DEF ReserveSlot, Reserve
      <4> QED
        BY <3>1, <4>1, JitterBound, IntervalAssumption
    <3>3. sleepers' \subseteq Wait
      BY <2>2, <3>1 DEF ReserveSlot, Reserve, Wait
    <3>4. grants' \in [Hosts -> Seq(Nat)]
      BY <2>2, <3>1 DEF ReserveSlot
    <3>5. turn' \in [Callers -> Nat]
      BY <2>2 DEF ReserveSlot
    <3> QED
      BY <2>2, <3>2, <3>3, <3>4, <3>5 DEF ReserveSlot, Reserve
  <2>3. ASSUME NEW c \in Callers, ReturnFrom(c)
        PROVE  TypeOK'
    BY <2>3 DEF ReturnFrom, Return, Wait
  <2>4. CASE UNCHANGED vars
    BY <2>4 DEF vars, limiterVars, history
  <2> QED
    BY <2>1, <2>2, <2>3, <2>4 DEF Next, Acquire
<1> QED
  BY <1>1, <1>2, PTL DEF Spec

-----------------------------------------------------------------------------
(* Spacing.                                                                *)

\* Slots stay spaced, and nextAllowed stays ahead of them, through every step.
LEMMA SpacingPreserved ==
    TypeOK /\ Spaced /\ SlotsSpaced /\ [Next]_vars => Spaced' /\ SlotsSpaced'
<1> SUFFICES ASSUME TypeOK, Spaced, SlotsSpaced, [Next]_vars
             PROVE  Spaced' /\ SlotsSpaced'
  OBVIOUS
<1> USE DEF TypeOK, LimiterTypeOK
<1>1. ASSUME UNCHANGED <<nextAllowed, grants>>
      PROVE  Spaced' /\ SlotsSpaced'
  BY <1>1 DEF Spaced, SlotsSpaced
<1>2. ASSUME NEW c \in Callers, NEW k \in Hosts, ReserveSlot(c, k)
      PROVE  Spaced' /\ SlotsSpaced'
  <2> DEFINE slot == Earliest(k)
             n == Len(grants[k])
  <2>1. PICK j \in Jitters :
          nextAllowed' = [nextAllowed EXCEPT ![k] = slot + MinInterval + j]
    BY <1>2 DEF ReserveSlot, Reserve
  <2>2. slot \in Nat /\ nextAllowed[k] <= slot
    BY DEF Earliest
  <2>3. nextAllowed'[k] \in Nat /\ slot + MinInterval <= nextAllowed'[k]
    BY <2>1, <2>2, JitterBound, IntervalAssumption
  <2>4. grants' = [grants EXCEPT ![k] = Append(grants[k], slot)]
    BY <1>2 DEF ReserveSlot
  <2>5. /\ Len(grants'[k]) = n + 1 /\ n \in Nat
        /\ DOMAIN grants'[k] = DOMAIN grants[k] \cup {n + 1}
        /\ DOMAIN grants[k] = 1 .. n
        /\ grants'[k][n + 1] = slot
        /\ \A i \in DOMAIN grants[k] : grants'[k][i] = grants[k][i] /\ grants[k][i] \in Nat
    BY <2>2, <2>4
  <2>6. \A h \in Hosts : h # k => grants'[h] = grants[h] /\ nextAllowed'[h] = nextAllowed[h]
    BY <2>1, <2>4
  <2> HIDE DEF slot, n
  <2>7. ASSUME NEW i \in DOMAIN grants[k]
        PROVE  /\ grants[k][i] + MinInterval * (n + 1 - i) <= slot
               /\ grants[k][i] + MinInterval * ((n + 1) + 1 - i) <= nextAllowed'[k]
    <3>1. grants[k][i] + MinInterval * (n + 1 - i) <= nextAllowed[k]
      BY DEF Spaced, n
    <3>2. i \in Int /\ grants[k][i] \in Nat /\ nextAllowed[k] \in Nat
      BY <2>5
    <3>3. MinInterval * ((n + 1 - i) + 1) = MinInterval * (n + 1 - i) + MinInterval
      BY <2>5, <3>2, OneMore, IntervalAssumption
    <3>4. (n + 1) + 1 - i = (n + 1 - i) + 1
      BY <2>5, <3>2
    <3> DEFINE gap == MinInterval * (n + 1 - i)
    <3>5. gap \in Int
      BY <2>5, <3>2, IntervalAssumption
    <3>6. MinInterval * ((n + 1) + 1 - i) = gap + MinInterval
      BY <3>3, <3>4
    <3>7. grants[k][i] + gap <= nextAllowed[k]
      BY <3>1
    <3> HIDE DEF gap
    <3>8. grants[k][i] + gap <= slot /\ grants[k][i] + (gap + MinInterval) <= nextAllowed'[k]
      <4>1. \A g, d, a, s, m, b \in Int :
              g + d <= a /\ a <= s /\ s + m <= b => g + d <= s /\ g + (d + m) <= b
        OBVIOUS
      <4>2. /\ grants[k][i] \in Int /\ gap \in Int /\ nextAllowed[k] \in Int
            /\ slot \in Int /\ MinInterval \in Int /\ nextAllowed'[k] \in Int
        BY <2>2, <2>3, <3>2, <3>5, IntervalAssumption
      <4>3. slot + MinInterval <= nextAllowed'[k] /\ nextAllowed[k] <= slot
        BY <2>2, <2>3
      <4> HIDE DEF TypeOK, LimiterTypeOK
      <4> QED
        BY <3>7, <4>1, <4>2, <4>3
    <3> QED
      BY <3>6, <3>8 DEF gap
  <2>8. Spaced'
    <3> SUFFICES ASSUME NEW h \in Hosts, NEW i \in DOMAIN grants'[h]
                 PROVE  grants'[h][i] + MinInterval * (Len(grants'[h]) + 1 - i) <= nextAllowed'[h]
      BY DEF Spaced
    <3>1. CASE h # k
      BY <2>6, <3>1 DEF Spaced
    <3>2. CASE h = k /\ i = n + 1
      <4> HIDE DEF TypeOK, LimiterTypeOK
      <4>0. n \in Nat /\ Len(grants'[k]) = n + 1 /\ grants'[k][n + 1] = slot
        BY <2>5
      <4>1. Len(grants'[h]) + 1 - i = 1 /\ grants'[h][i] = slot
        BY <3>2, <4>0
      <4>2. MinInterval * 1 = MinInterval
        BY IntervalAssumption
      <4> QED
        BY <2>3, <3>2, <4>1, <4>2
    <3>3. CASE h = k /\ i \in DOMAIN grants[k]
      BY <2>5, <2>7, <3>3
    <3> QED
      BY <2>5, <3>1, <3>2, <3>3
  <2>9. SlotsSpaced'
    <3> SUFFICES ASSUME NEW h \in Hosts, NEW i \in DOMAIN grants'[h], NEW j1 \in DOMAIN grants'[h],
                        i < j1
                 PROVE  grants'[h][i] + MinInterval * (j1 - i) <= grants'[h][j1]
      BY DEF SlotsSpaced
    <3>1. CASE h # k
      BY <2>6, <3>1 DEF SlotsSpaced
    <3>2. CASE h = k /\ j1 = n + 1
      <4>1. i \in DOMAIN grants[k]
        BY <2>5, <3>2
      <4> QED
        BY <2>5, <2>7, <3>2, <4>1
    <3>3. CASE h = k /\ j1 \in DOMAIN grants[k]
      <4>1. i \in DOMAIN grants[k]
        BY <2>5, <3>3
      <4>2. grants[k][i] + MinInterval * (j1 - i) <= grants[k][j1]
        BY <3>3, <4>1 DEF SlotsSpaced
      <4> QED
        BY <2>5, <3>3, <4>1, <4>2
    <3> QED
      BY <2>5, <3>1, <3>2, <3>3
  <2> QED
    BY <2>8, <2>9
<1>3. CASE Tick
  BY <1>1, <1>3 DEF Tick, Advance, history
<1>4. ASSUME NEW c \in Callers, ReturnFrom(c)
      PROVE  Spaced' /\ SlotsSpaced'
  BY <1>1, <1>4 DEF ReturnFrom, Return
<1>5. CASE UNCHANGED vars
  BY <1>1, <1>5 DEF vars, limiterVars, history
<1> QED
  BY <1>2, <1>3, <1>4, <1>5 DEF Next, Acquire

\* Slots handed out for one host are a minimum interval apart, for any number
\* of callers and hosts, any interval and any jitter (ratelimit.go:1-3).
THEOREM SlotsAreSpaced == Spec => []SlotsSpaced
<1>1. Init => Spaced /\ SlotsSpaced
  BY DEF Init, Spaced, SlotsSpaced
<1> QED
  BY <1>1, TypeCorrect, SpacingPreserved, PTL DEF Spec

-----------------------------------------------------------------------------
(* The rate.                                                               *)

\* A sleeper's turn names the slot it waits for, and a spent turn's slot has
\* come, through every step.
LEMMA KeptPreserved ==
    TypeOK /\ OneWaitEach /\ Kept /\ [Next]_vars => OneWaitEach' /\ Kept'
<1> SUFFICES ASSUME TypeOK, OneWaitEach, Kept, [Next]_vars
             PROVE  OneWaitEach' /\ Kept'
  OBVIOUS
<1> USE DEF TypeOK, LimiterTypeOK
<1>1. ASSUME NEW c \in Callers, NEW k \in Hosts, ReserveSlot(c, k)
      PROVE  OneWaitEach' /\ Kept'
  <2> DEFINE slot == Earliest(k)
             n == Len(grants[k])
             new == [caller |-> c, host |-> k, due |-> slot]
  <2>1. slot \in Nat
    BY DEF Earliest
  <2>2. /\ sleepers' = sleepers \cup {new}
        /\ \A s \in sleepers : s.caller # c
        /\ returned' = returned /\ now' = now
    BY <1>1 DEF ReserveSlot, Reserve, Sleeping
  <2>3. \A s \in sleepers : s \in Wait /\ s.caller \in Callers /\ s.host \in Hosts
    BY DEF Wait
  <2>4. turn' = [turn EXCEPT ![c] = n + 1]
    BY <1>1 DEF ReserveSlot
  <2>5. grants' = [grants EXCEPT ![k] = Append(grants[k], slot)]
    BY <1>1 DEF ReserveSlot
  <2>6. /\ n + 1 \in DOMAIN grants'[k] /\ grants'[k][n + 1] = slot
        /\ \A h \in Hosts : \A i \in DOMAIN grants[h] :
              i \in DOMAIN grants'[h] /\ grants'[h][i] = grants[h][i]
    <3>1. /\ n + 1 \in DOMAIN grants'[k] /\ grants'[k][n + 1] = slot
          /\ \A i \in DOMAIN grants[k] :
                i \in DOMAIN grants'[k] /\ grants'[k][i] = grants[k][i]
      <4>1. grants[k] \in Seq(Nat) /\ grants'[k] = Append(grants[k], slot)
        BY <2>5
      <4> HIDE DEF slot, TypeOK, LimiterTypeOK
      <4> QED
        BY <2>1, <4>1, AppendKeeps
    <3>2. \A h \in Hosts : h # k => grants'[h] = grants[h]
      BY <2>5
    <3> QED
      BY <3>1, <3>2
  <2>7. new.caller = c /\ new.host = k /\ new.due = slot
    OBVIOUS
  <2> HIDE DEF slot, n, new
  <2>8. OneWaitEach'
    BY <2>2, <2>7 DEF OneWaitEach
  <2>9. ASSUME NEW s \in sleepers'
        PROVE  /\ turn'[s.caller] \in DOMAIN grants'[s.host]
               /\ grants'[s.host][turn'[s.caller]] = s.due
    <3>1. CASE s = new
      BY <2>4, <2>6, <2>7, <3>1
    <3>2. CASE s \in sleepers
      <4>1. turn'[s.caller] = turn[s.caller]
        BY <2>2, <2>3, <2>4, <3>2
      <4> QED
        BY <2>3, <2>6, <3>2, <4>1 DEF Kept
    <3> QED
      BY <2>2, <3>1, <3>2
  <2>10. ASSUME NEW h \in Hosts, NEW t \in returned'[h]
         PROVE  t \in DOMAIN grants'[h] /\ grants'[h][t] <= now'
    BY <2>2, <2>6 DEF Kept
  <2> QED
    BY <2>8, <2>9, <2>10 DEF Kept
<1>2. ASSUME NEW c \in Callers, ReturnFrom(c)
      PROVE  OneWaitEach' /\ Kept'
  <2>1. PICK s \in sleepers :
          /\ s.caller = c
          /\ now >= s.due
          /\ sleepers' = sleepers \ {s}
          /\ returned' = [returned EXCEPT ![s.host] = @ \cup {turn[c]}]
          /\ now' = now
    BY <1>2 DEF ReturnFrom, Return, Awake
  <2>2. grants' = grants /\ turn' = [turn EXCEPT ![c] = 0]
    BY <1>2 DEF ReturnFrom
  <2>3. OneWaitEach'
    BY <2>1 DEF OneWaitEach
  <2>4. ASSUME NEW t \in sleepers'
        PROVE  /\ turn'[t.caller] \in DOMAIN grants'[t.host]
               /\ grants'[t.host][turn'[t.caller]] = t.due
    <3>1. t \in sleepers /\ t.caller # c /\ t.caller \in Callers
      BY <2>1 DEF OneWaitEach, Wait
    <3> QED
      BY <2>2, <3>1 DEF Kept
  <2>5. ASSUME NEW h \in Hosts, NEW t \in returned'[h]
        PROVE  t \in DOMAIN grants'[h] /\ grants'[h][t] <= now'
    <3>1. s.host \in Hosts /\ s.due \in Nat
      BY DEF Wait
    <3>2. CASE t \in returned[h]
      BY <2>1, <2>2, <3>2 DEF Kept
    <3>3. CASE t \notin returned[h]
      <4>1. h = s.host /\ t = turn[c]
        BY <2>1, <3>1, <3>3
      <4> QED
        BY <2>1, <2>2, <3>1, <4>1 DEF Kept
    <3> QED
      BY <3>2, <3>3
  <2> QED
    BY <2>3, <2>4, <2>5 DEF Kept
<1>3. CASE Tick
  <2>1. now' = now + 1 /\ UNCHANGED <<sleepers, grants, turn, returned>>
    BY <1>3 DEF Tick, Advance, history
  <2>2. \A h \in Hosts : \A t \in returned[h] : grants[h][t] \in Nat
    BY DEF Kept
  <2> QED
    BY <2>1, <2>2 DEF OneWaitEach, Kept
<1>4. CASE UNCHANGED vars
  BY <1>4 DEF vars, limiterVars, history, OneWaitEach, Kept
<1> QED
  BY <1>1, <1>2, <1>3, <1>4 DEF Next, Acquire

\* However the sleepers wake and bunch, from the slot of any turn on, the calls
\* that have returned number at most one plus the intervals since.
LEMMA KeptBoundsRate == TypeOK /\ SlotsSpaced /\ Kept => RateBound
<1> SUFFICES ASSUME TypeOK, SlotsSpaced, Kept,
                    NEW h \in Hosts, NEW i \in DOMAIN grants[h],
                    {t \in returned[h] : t >= i} # {}
             PROVE  grants[h][i] + MinInterval *
                      (Cardinality({t \in returned[h] : t >= i}) - 1) <= now
  BY DEF RateBound
<1> DEFINE spent == {t \in returned[h] : t >= i}
           n == Len(grants[h])
           count == Cardinality(spent)
<1>1. /\ n \in Nat /\ DOMAIN grants[h] = 1 .. n /\ i \in Nat /\ now \in Nat
      /\ \A t \in DOMAIN grants[h] : grants[h][t] \in Nat
  BY DEF TypeOK, LimiterTypeOK
<1>2. spent \subseteq i .. n
  BY <1>1 DEF Kept
<1>3. count \in Nat \ {0} /\ \E t \in spent : t >= i + count - 1
  BY <1>1, <1>2, CountReaches
<1>4. PICK t \in spent : t >= i + count - 1
  BY <1>3
<1>5. t \in DOMAIN grants[h] /\ grants[h][t] <= now /\ t \in Int /\ i <= t
  BY <1>1, <1>2 DEF Kept
<1> HIDE DEF count, n
<1>6. MinInterval * (count - 1) <= MinInterval * (t - i)
  <2>1. count - 1 \in Int /\ t - i \in Int /\ count - 1 <= t - i
    BY <1>1, <1>3, <1>4, <1>5
  <2> QED
    BY <2>1, Monotone, IntervalAssumption
<1>7. grants[h][i] + MinInterval * (t - i) <= grants[h][t]
  <2>1. CASE i < t
    BY <1>5, <2>1 DEF SlotsSpaced
  <2>2. CASE i = t
    <3>1. MinInterval * (t - i) = 0
      BY <1>1, <2>2, IntervalAssumption
    <3> QED
      BY <1>1, <2>2, <3>1
  <2> QED
    BY <1>1, <1>5, <2>1, <2>2
<1>8. grants[h][i] + MinInterval * (count - 1) <= now
  <2> DEFINE a == MinInterval * (count - 1)
             b == MinInterval * (t - i)
  <2>1. a \in Int /\ b \in Int
    BY <1>1, <1>3, <1>5, IntervalAssumption
  <2>2. \A g, x, y, s, u \in Int : x <= y /\ g + y <= s /\ s <= u => g + x <= u
    OBVIOUS
  <2>3. a <= b /\ grants[h][i] + b <= grants[h][t]
    BY <1>6, <1>7
  <2>4. grants[h][i] \in Int /\ grants[h][t] \in Int /\ now \in Int
    <3>1. grants[h][i] \in Nat
      BY <1>1
    <3>2. grants[h][t] \in Nat
      BY <1>1, <1>5
    <3> QED
      BY <1>1, <3>1, <3>2
  <2> HIDE DEF a, b
  <2>5. grants[h][i] + a <= now
    BY <1>5, <2>1, <2>2, <2>3, <2>4
  <2> QED
    BY <2>5 DEF a
<1> QED
  BY <1>8 DEF count

\* The rate a host sees is bounded over every window, for any number of callers
\* and hosts and any interval and jitter (ratelimit.go:44-54).
THEOREM RateIsBounded == Spec => []RateBound
<1>1. Init => OneWaitEach /\ Kept
  BY DEF Init, LimiterInit, OneWaitEach, Kept
<1>2. Spec => [](OneWaitEach /\ Kept)
  BY <1>1, TypeCorrect, KeptPreserved, PTL DEF Spec
<1> QED
  BY <1>2, TypeCorrect, SlotsAreSpaced, KeptBoundsRate, PTL

-----------------------------------------------------------------------------
(* The backlog.                                                            *)

\* Filtering the sleepers gives a finite set.
LEMMA WaitingFinite ==
    ASSUME IsFiniteSet(sleepers), NEW h, NEW x
    PROVE  IsFiniteSet(WaitingPast(h, x)) /\ Cardinality(WaitingPast(h, x)) \in Nat
<1>1. WaitingPast(h, x) \in SUBSET sleepers
  BY DEF WaitingPast
<1> QED
  BY <1>1, FS_Subset, FS_CardinalityType

\* One more target for one more sleeper, and never less than one target.
LEMMA TargetArithmetic ==
    ASSUME NEW k \in Nat
    PROVE  /\ Target \in Nat
           /\ Target * (k + 1) \in Nat
           /\ Target <= Target * (k + 1)
           /\ Target * ((k + 1) + 1) = Target * (k + 1) + Target
<1>1. Target \in Nat
  BY IntervalAssumption DEF Target
<1>2. Target * (k + 1) = Target * k + Target
  BY <1>1, OneMore
<1>3. Target * k \in Nat
  BY <1>1
<1>4. Target * ((k + 1) + 1) = Target * (k + 1) + Target
  BY <1>1, OneMore
<1> QED
  BY <1>1, <1>2, <1>3, <1>4

\* A reservation keeps the backlog of its host in proportion.
LEMMA ReserveKeepsBacklog ==
    ASSUME TypeOK, Backlog, NEW c \in Callers, NEW k \in Hosts, ReserveSlot(c, k)
    PROVE  Backlog'
<1> USE DEF TypeOK, LimiterTypeOK
<1> DEFINE slot == Earliest(k)
           new == [caller |-> c, host |-> k, due |-> slot]
<1>1. PICK j \in Jitters :
        nextAllowed' = [nextAllowed EXCEPT ![k] = slot + MinInterval + j]
  BY DEF ReserveSlot, Reserve
<1>2. /\ slot \in Nat
      /\ slot = nextAllowed[k] \/ slot = now
      /\ now <= slot
  BY DEF Earliest
<1>3. nextAllowed'[k] \in Nat /\ nextAllowed'[k] <= slot + Target
  <2>1. nextAllowed'[k] = slot + MinInterval + j
    BY <1>1
  <2>2. slot \in Nat /\ MinInterval \in Nat /\ JitterMax \in Nat /\ j \in Nat /\ j <= JitterMax
    BY <1>1, <1>2, JitterBound, IntervalAssumption
  <2> HIDE DEF slot
  <2> QED
    BY <2>1, <2>2 DEF Target
<1>4. sleepers' = sleepers \cup {new} /\ now' = now /\ \A s \in sleepers : s.caller # c
  BY DEF ReserveSlot, Reserve, Sleeping
<1>5. new.caller = c /\ new.host = k /\ new.due = slot /\ new \notin sleepers
  BY <1>4
<1>6. IsFiniteSet(sleepers) /\ IsFiniteSet(sleepers')
  BY <1>4, FS_AddElement DEF Backlog
<1>7. \A h \in Hosts : h # k => nextAllowed'[h] = nextAllowed[h]
  BY <1>1
<1> HIDE DEF slot, new
<1>8. ASSUME NEW h \in Hosts, NEW x \in Nat, x >= now'
      PROVE  nextAllowed'[h] - x <= Target * (Cardinality(WaitingPast(h, x))' + 1)
  <2>1. WaitingPast(h, x)' = IF h = k /\ slot > x THEN WaitingPast(h, x) \cup {new}
                                                 ELSE WaitingPast(h, x)
    BY <1>4, <1>5 DEF WaitingPast
  <2>2. IsFiniteSet(WaitingPast(h, x)) /\ Cardinality(WaitingPast(h, x)) \in Nat
    BY <1>6, WaitingFinite
  <2>3. nextAllowed[h] - x <= Target * (Cardinality(WaitingPast(h, x)) + 1)
    BY <1>4, <1>8 DEF Backlog
  <2>4. new \notin WaitingPast(h, x)
    BY <1>5 DEF WaitingPast
  <2> DEFINE m == Cardinality(WaitingPast(h, x))
  <2>5. m \in Nat /\ Target \in Nat /\ Target * (m + 1) \in Nat /\ Target <= Target * (m + 1)
        /\ Target * ((m + 1) + 1) = Target * (m + 1) + Target
    BY <2>2, TargetArithmetic
  <2> DEFINE bound == Target * (m + 1)
  <2>6. CASE h # k
    BY <1>7, <2>1, <2>3, <2>6
  <2>7. CASE h = k /\ slot > x
    <3>1. Cardinality(WaitingPast(h, x))' = m + 1
      BY <2>1, <2>2, <2>4, <2>7, FS_AddElement
    <3>2. slot = nextAllowed[k]
      BY <1>2, <1>4, <1>8, <2>7
    <3>3. nextAllowed'[h] - x <= bound + Target
      <4>1. slot - x <= bound /\ bound \in Nat
        BY <2>3, <2>5, <2>7, <3>2
      <4> HIDE DEF bound
      <4>2. \A n, u, g, y, w \in Int : n <= u + g /\ u - y <= w => n - y <= w + g
        OBVIOUS
      <4>3. /\ nextAllowed'[h] \in Int /\ slot \in Int /\ Target \in Int
            /\ x \in Int /\ bound \in Int
        BY <1>2, <1>3, <2>5, <2>7, <4>1
      <4>4. nextAllowed'[h] <= slot + Target
        BY <1>3, <2>7
      <4> QED
        BY <4>1, <4>2, <4>3, <4>4
    <3> QED
      BY <2>5, <3>1, <3>3
  <2>8. CASE h = k /\ ~(slot > x)
    <3>1. Cardinality(WaitingPast(h, x))' = m
      BY <2>1, <2>8
    <3>2. /\ nextAllowed'[h] \in Int /\ slot \in Int /\ Target \in Int
          /\ x \in Int /\ bound \in Int
      BY <1>2, <1>3, <2>5, <2>8
    <3>3. nextAllowed'[h] <= slot + Target /\ slot <= x /\ Target <= bound
      BY <1>2, <1>3, <2>5, <2>8
    <3>4. \A n, u, g, y, w \in Int : n <= u + g /\ u <= y /\ g <= w => n - y <= w
      OBVIOUS
    <3> HIDE DEF bound
    <3>5. nextAllowed'[h] - x <= bound
      BY <3>2, <3>3, <3>4
    <3> QED
      BY <3>1, <3>5 DEF bound
  <2> QED
    BY <2>6, <2>7, <2>8
<1> QED
  BY <1>6, <1>8 DEF Backlog

\* So does every other step: a sleeper that returns waits past no instant ahead
\* of the clock, and a later clock only asks about fewer instants.
LEMMA BacklogPreserved == TypeOK /\ Backlog /\ [Next]_vars => Backlog'
<1> SUFFICES ASSUME TypeOK, Backlog, [Next]_vars
             PROVE  Backlog'
  OBVIOUS
<1>1. ASSUME NEW c \in Callers, ReturnFrom(c)
      PROVE  Backlog'
  <2>1. PICK s \in sleepers :
          now >= s.due /\ sleepers' = sleepers \ {s} /\ now' = now /\ nextAllowed' = nextAllowed
    BY <1>1 DEF ReturnFrom, Return, Awake
  <2>2. IsFiniteSet(sleepers')
    BY <2>1, FS_RemoveElement DEF Backlog
  <2>3. s.due \in Nat /\ now \in Nat
    BY DEF TypeOK, LimiterTypeOK, Wait
  <2>4. \A h \in Hosts : \A x \in Nat : x >= now => WaitingPast(h, x)' = WaitingPast(h, x)
    BY <2>1, <2>3 DEF WaitingPast
  <2> QED
    BY <2>1, <2>2, <2>4 DEF Backlog
<1>2. CASE Tick
  <2>1. now' = now + 1 /\ sleepers' = sleepers /\ nextAllowed' = nextAllowed /\ now \in Nat
    BY <1>2 DEF Tick, Advance, TypeOK, LimiterTypeOK
  <2>2. \A h, x : WaitingPast(h, x)' = WaitingPast(h, x)
    BY <2>1 DEF WaitingPast
  <2>3. \A x \in Nat : x >= now' => x >= now
    BY <2>1
  <2> QED
    BY <2>1, <2>2, <2>3 DEF Backlog
<1>3. CASE UNCHANGED vars
  <2>1. now' = now /\ sleepers' = sleepers /\ nextAllowed' = nextAllowed
    BY <1>3 DEF vars, limiterVars
  <2> QED
    BY <2>1 DEF Backlog, WaitingPast
<1> QED
  BY <1>1, <1>2, <1>3, ReserveKeepsBacklog DEF Next, Acquire

\* A caller never queues behind more than the callers still ahead of it, for
\* any number of callers and hosts, any interval and jitter (ratelimit.go:44-48).
THEOREM BacklogIsReal == Spec => []NoPhantomBacklog
<1>1. Init => Backlog
  <2> SUFFICES ASSUME Init PROVE Backlog
    OBVIOUS
  <2>1. sleepers = {} /\ now = 0 /\ nextAllowed = [h \in Hosts |-> 0]
    BY DEF Init, LimiterInit
  <2>2. IsFiniteSet(sleepers)
    BY <2>1, FS_EmptySet
  <2>3. ASSUME NEW h \in Hosts, NEW x \in Nat
        PROVE  nextAllowed[h] - x <= Target * (Cardinality(WaitingPast(h, x)) + 1)
    <3>1. Cardinality(WaitingPast(h, x)) \in Nat
      BY <2>2, WaitingFinite
    <3>2. Target * (Cardinality(WaitingPast(h, x)) + 1) \in Nat
      BY <3>1, TargetArithmetic
    <3> QED
      BY <2>1, <3>2
  <2> QED
    BY <2>2, <2>3 DEF Backlog
<1>2. TypeOK /\ Backlog => NoPhantomBacklog
  <2> SUFFICES ASSUME TypeOK, Backlog, NEW h \in Hosts
               PROVE  nextAllowed[h] - now <= Target * (Cardinality(WaitingPast(h, now)) + 1)
    BY DEF NoPhantomBacklog, WaitingPast, Target
  <2>1. now \in Nat /\ now >= now
    BY DEF TypeOK, LimiterTypeOK
  <2> QED
    BY <2>1 DEF Backlog
<1> QED
  BY <1>1, <1>2, TypeCorrect, BacklogPreserved, PTL DEF Spec

-----------------------------------------------------------------------------
\* The history only records: without it, what remains is a limiter under an
\* open clock, which is what the HTTP client is shown to be (ratelimit.go:40-55).
THEOREM HistoryOnlyRecords == Spec => LimiterSpec
<1>1. Init => LimiterInit
  BY DEF Init
<1>2. [Next]_vars => [LimiterNext]_limiterVars
  BY DEF Next, vars, Tick, Acquire, ReserveSlot, ReturnFrom, LimiterNext, limiterVars
<1> QED
  BY <1>1, <1>2, PTL DEF Spec, LimiterSpec
=============================================================================
