--------------------------- MODULE FoldingProofs ---------------------------
(***************************************************************************)
(* What a left fold computes: for loops that make an output item by item.  *)
(*                                                                         *)
(* FoldLeft is a choice of a function over sets of places.  Such a         *)
(* function exists, so that the fold is what a loop over the sequence has  *)
(* made after its last item.  A proof about a loop instantiates this       *)
(* module with the loop's body and takes the loop's states from            *)
(* FoldIsALoop, or a loop that goes one item further from FoldGrows.       *)
(*                                                                         *)
(* Induction is over a set of numbers, as a number that is least among     *)
(* those missing in it.                                                    *)
(***************************************************************************)
EXTENDS SequencesExt, WellFoundedInduction, TLAPS

CONSTANTS
    Step(_, _),   \* what is folded: Step(out, item)
    Base,
    Outs,         \* where the results are
    Elems

\* The left fold of Step over a sequence.
Fold(seq) == FoldLeft(Step, Base, seq)

\* The natural numbers are well ordered, so that a set of them that holds 0 and
\* with a number the next holds every number.
LEMMA LeastNatural ==
    ASSUME NEW S \in SUBSET Nat, S # {}
    PROVE  \E m \in S : \A k \in S : m <= k
<1> DEFINE Less == {r \in Nat \X Nat : r[1] < r[2]}
<1>0. IsWellFoundedOn(Less, Nat)
  BY NatLessThanWellFounded DEF OpToRel
<1>1. PICK m \in S : \A k \in S : ~ (<<k, m>> \in Less)
  <2> HIDE DEF Less
  <2> QED
    BY <1>0, WFMin
<1>2. \A k \in S : ~ (k < m)
  BY <1>1
<1> QED
  BY <1>2

\* Induction, over a set of numbers instead of a predicate.
LEMMA InductionOnASet ==
    ASSUME NEW S, 0 \in S, \A n \in Nat : n \in S => n + 1 \in S
    PROVE  Nat \subseteq S
<1> DEFINE Missing == {n \in Nat : n \notin S}
<1> SUFFICES ASSUME Missing # {} PROVE FALSE
  OBVIOUS
<1>1. PICK m \in Missing : \A k \in Missing : m <= k
  <2>1. Missing \in SUBSET Nat
    OBVIOUS
  <2> HIDE DEF Missing
  <2> QED
    BY <2>1, LeastNatural
<1>2. m # 0 /\ m - 1 \in Nat
  BY <1>1
<1>3. m - 1 \in S
  BY <1>1, <1>2
<1>4. (m - 1) + 1 \in S
  BY <1>2, <1>3
<1> QED
  BY <1>1, <1>4

\* The greatest of the first n numbers is n;
LEMMA MaxOfRange ==
    ASSUME NEW n \in Nat, n # 0
    PROVE  Max(1 .. n) = n
<1>1. n \in 1 .. n /\ \A y \in 1 .. n : n >= y
  OBVIOUS
<1>2. \A x \in 1 .. n : (\A y \in 1 .. n : x >= y) => x = n
  OBVIOUS
<1> QED
  BY <1>1, <1>2 DEF Max

\* g is the fold over every subset of the first n places.
Folds(g, n, seq, base, step) ==
    g = [s \in SUBSET (1 .. n) |->
            IF s = {} THEN base ELSE step[<<g[s \ {Max(s)}], seq[Max(s)]>>]]

\* There is such a g.
Foldable(S, n, seq, base, step) ==
    \E g \in [SUBSET (1 .. n) -> S] : Folds(g, n, seq, base, step)

\* and any set of them that is not empty has a greatest.
LEMMA MaxIsThere ==
    ASSUME NEW n \in Nat, NEW s \in SUBSET (1 .. n), s # {}
    PROVE  Max(s) \in s /\ \A k \in s : k <= Max(s)
<1> DEFINE Far == {d \in Nat : \E k \in s : d = n - k}
<1>1. Far \in SUBSET Nat /\ Far # {}
  <2>1. PICK k \in s : TRUE
    OBVIOUS
  <2>2. n - k \in Far
    BY <2>1
  <2> QED
    BY <2>2
<1>2. PICK m \in Far : \A k \in Far : m <= k
  <2> HIDE DEF Far
  <2> QED
    BY <1>1, LeastNatural
<1>3. PICK x \in s : m = n - x
  BY <1>2
<1>4. \A k \in s : k <= x
  <2> TAKE k \in s
  <2>1. n - k \in Far
    OBVIOUS
  <2>2. n - x <= n - k
    BY <1>2, <1>3, <2>1
  <2> QED
    BY <2>2
<1> HIDE DEF Far
<1>5. \E y \in s : \A k \in s : y >= k
  BY <1>4
<1>6. Max(s) \in s /\ \A k \in s : Max(s) >= k
  BY <1>5 DEF Max
<1> QED
  BY <1>6

\* The set of the first numbers and its maximum.
LEMMA FirstNumbers ==
    ASSUME NEW n \in Nat, NEW k \in 1 .. n
    PROVE  /\ 1 .. k \in SUBSET (1 .. n) /\ 1 .. k # {}
           /\ Max(1 .. k) = k
           /\ (1 .. k) \ {k} = 1 .. (k - 1)
<1>1. Max(1 .. k) = k
  BY MaxOfRange
<1> QED
  BY <1>1

\* There always is: the definition of the fold is not an empty choice.
LEMMA FoldExists ==
    ASSUME NEW S, NEW T, NEW step \in [S \X T -> S], NEW base \in S,
           NEW m \in Nat, NEW seq \in [1 .. m -> T]
    PROVE  Foldable(S, m, seq, base, step)
<1> DEFINE Good == {n \in Nat : n <= m => Foldable(S, n, seq, base, step)}
<1>1. 0 \in Good
  <2> DEFINE g == [s \in SUBSET (1 .. 0) |-> base]
  <2>1. g \in [SUBSET (1 .. 0) -> S]
    OBVIOUS
  <2>2. \A s \in SUBSET (1 .. 0) : s = {}
    OBVIOUS
  <2>3. Folds(g, 0, seq, base, step)
    BY <2>2 DEF Folds
  <2> QED
    BY <2>1, <2>3 DEF Foldable
<1>2. ASSUME NEW n \in Nat, n \in Good PROVE n + 1 \in Good
  <2>0. n + 1 \in Nat /\ (n + 1 <= m => n <= m)
    OBVIOUS
  <2> SUFFICES ASSUME n + 1 <= m
               PROVE  Foldable(S, n + 1, seq, base, step)
    BY <2>0
  <2>1. PICK f \in [SUBSET (1 .. n) -> S] : Folds(f, n, seq, base, step)
    BY <1>2, <2>0 DEF Foldable
  <2> DEFINE g == [s \in SUBSET (1 .. n + 1) |->
                     IF n + 1 \in s THEN step[<<f[s \ {n + 1}], seq[n + 1]>>] ELSE f[s]]
  <2>2. \A s \in SUBSET (1 .. n + 1) : s \ {n + 1} \in SUBSET (1 .. n)
    OBVIOUS
  <2>3. \A s \in SUBSET (1 .. n + 1) : n + 1 \notin s => s \in SUBSET (1 .. n)
    OBVIOUS
  <2>4. seq[n + 1] \in T
    OBVIOUS
  <2>5. g \in [SUBSET (1 .. n + 1) -> S]
    BY <2>2, <2>3, <2>4
  <2>6. ASSUME NEW s \in SUBSET (1 .. n + 1), s # {}
        PROVE  g[s] = step[<<g[s \ {Max(s)}], seq[Max(s)]>>]
    <3>1. Max(s) \in s /\ \A k \in s : k <= Max(s)
      BY <2>0, <2>6, MaxIsThere
    <3>2. CASE n + 1 \in s
      <4>1. Max(s) = n + 1
        <5>1. Max(s) \in 1 .. n + 1 /\ n + 1 <= Max(s)
          BY <3>1, <3>2
        <5> QED
          BY <5>1
      <4>2. g[s \ {n + 1}] = f[s \ {n + 1}]
        BY <2>2
      <4> QED
        BY <3>2, <4>1, <4>2
    <3>3. CASE n + 1 \notin s
      <4>1. s \in SUBSET (1 .. n) /\ s \ {Max(s)} \in SUBSET (1 .. n + 1)
        BY <2>3, <3>3
      <4>2. g[s] = f[s] /\ g[s \ {Max(s)}] = f[s \ {Max(s)}]
        BY <3>3, <4>1
      <4>3. f[s] = step[<<f[s \ {Max(s)}], seq[Max(s)]>>]
        BY <2>1, <2>6, <4>1 DEF Folds
      <4> QED
        BY <4>2, <4>3
    <3> QED
      BY <3>2, <3>3
  <2>7. g[{}] = base
    <3>1. f[{}] = base /\ g[{}] = f[{}]
      BY <2>1 DEF Folds
    <3> QED
      BY <3>1
  <2>8. Folds(g, n + 1, seq, base, step)
    <3> HIDE DEF g
    <3>1. g = [s \in SUBSET (1 .. n + 1) |-> g[s]]
      BY <2>5
    <3> QED
      BY <2>6, <2>7, <3>1 DEF Folds
  <2> QED
    BY <2>5, <2>8 DEF Foldable
<1>3. Nat \subseteq Good
  <2> HIDE DEF Good
  <2> QED
    BY <1>1, <1>2, InductionOnASet
<1> QED
  BY <1>3

\* A left fold is what a loop over the sequence has made after its last item:
\* there is a first state of the loop, and each item makes the next state.
LEMMA FoldIsALoop ==
    ASSUME Base \in Outs,
           \A out \in Outs, item \in Elems : Step(out, item) \in Outs,
           NEW seq \in Seq(Elems)
    PROVE  \E f : /\ f[0] = Base
                  /\ \A k \in 1 .. Len(seq) : f[k] = Step(f[k - 1], seq[k])
                  /\ \A k \in 0 .. Len(seq) : f[k] \in Outs
                  /\ Fold(seq) = f[Len(seq)]
<1> DEFINE n == Len(seq)
           Is(g) == g = [s \in SUBSET DOMAIN seq |->
                           IF s = {} THEN Base ELSE Step(g[s \ {Max(s)}], seq[Max(s)])]
           It == CHOOSE g : Is(g)
           step == [x \in Outs \X Elems |-> Step(x[1], x[2])]
<1>0. DOMAIN seq = 1 .. n /\ n \in Nat /\ seq \in [1 .. n -> Elems]
  OBVIOUS
<1>1. Fold(seq) = It[DOMAIN seq]
  BY DEF Fold, FoldLeft, MapThenFoldSet
<1>2. \E g : Is(g)
  <2>1. step \in [Outs \X Elems -> Outs]
    OBVIOUS
  <2>2. \A out \in Outs, item \in Elems : step[<<out, item>>] = Step(out, item)
    OBVIOUS
  <2> HIDE DEF step, n
  <2>3. PICK g \in [SUBSET (1 .. n) -> Outs] : Folds(g, n, seq, Base, step)
    BY <1>0, <2>1, FoldExists DEF Foldable
  <2>4. ASSUME NEW s \in SUBSET (1 .. n), s # {}
        PROVE  g[s] = Step(g[s \ {Max(s)}], seq[Max(s)])
    <3>1. Max(s) \in 1 .. n
      BY <1>0, <2>4, MaxIsThere
    <3>2. g[s \ {Max(s)}] \in Outs /\ seq[Max(s)] \in Elems
      BY <1>0, <3>1
    <3>3. g[s] = step[<<g[s \ {Max(s)}], seq[Max(s)]>>]
      BY <2>3, <2>4 DEF Folds
    <3> QED
      BY <2>2, <3>2, <3>3
  <2>5. g[{}] = Base
    BY <2>3 DEF Folds
  <2>6. Is(g)
    BY <1>0, <2>4, <2>5
  <2> QED
    BY <2>6
<1>3. Is(It)
  BY <1>2
<1> DEFINE f == [k \in 0 .. n |-> It[1 .. k]]
<1>4. f[0] = Base
  <2>1. 1 .. 0 = {}
    OBVIOUS
  <2> HIDE DEF It
  <2> QED
    BY <1>0, <1>3, <2>1
<1>5. ASSUME NEW k \in 1 .. n PROVE f[k] = Step(f[k - 1], seq[k])
  <2> HIDE DEF It, n
  <2>1. /\ 1 .. k \in SUBSET (1 .. n) /\ 1 .. k # {}
        /\ Max(1 .. k) = k
        /\ (1 .. k) \ {k} = 1 .. (k - 1)
    BY <1>0, FirstNumbers
  <2>2. It[1 .. k] = Step(It[(1 .. k) \ {k}], seq[k])
    BY <1>0, <1>3, <2>1
  <2>3. k \in 0 .. n /\ k - 1 \in 0 .. n
    BY <1>0
  <2> QED
    BY <2>1, <2>2, <2>3
<1>6. Fold(seq) = f[n]
  BY <1>0, <1>1
<1> HIDE DEF f, n
<1>7. \A k \in 0 .. n : f[k] \in Outs
  <2> DEFINE Good == {k \in Nat : k <= n => f[k] \in Outs}
  <2>1. 0 \in Good
    BY <1>4
  <2>2. ASSUME NEW k \in Nat, k \in Good PROVE k + 1 \in Good
    <3> SUFFICES ASSUME k + 1 <= n PROVE f[k + 1] \in Outs
      OBVIOUS
    <3>1. k + 1 \in 1 .. n /\ (k + 1) - 1 = k /\ k <= n
      BY <1>0
    <3>2. f[k + 1] = Step(f[k], seq[k + 1])
      BY <1>5, <3>1
    <3> QED
      BY <1>0, <2>2, <3>1, <3>2
  <2>3. Nat \subseteq Good
    <3> HIDE DEF Good
    <3> QED
      BY <2>1, <2>2, InductionOnASet
  <2> QED
    BY <1>0, <2>3
<1> QED
  BY <1>4, <1>5, <1>6, <1>7 DEF n

\* Nothing to fold leaves the base; and one item more is one step more.
LEMMA FoldGrows ==
    ASSUME Base \in Outs,
           \A out \in Outs, item \in Elems : Step(out, item) \in Outs
    PROVE  /\ Fold(<<>>) = Base
           /\ \A seq \in Seq(Elems) :
                /\ Fold(seq) \in Outs
                /\ \A x \in Elems : Fold(Append(seq, x)) = Step(Fold(seq), x)
<1>1. Fold(<<>>) = Base
  <2>1. <<>> \in Seq(Elems) /\ Len(<<>>) = 0
    OBVIOUS
  <2> QED
    BY <2>1, FoldIsALoop
<1>2. ASSUME NEW seq \in Seq(Elems) PROVE Fold(seq) \in Outs
  <2>1. Len(seq) \in 0 .. Len(seq)
    OBVIOUS
  <2> QED
    BY <2>1, FoldIsALoop
<1>3. ASSUME NEW seq \in Seq(Elems), NEW x \in Elems
      PROVE  Fold(Append(seq, x)) = Step(Fold(seq), x)
  <2> DEFINE n == Len(seq)
             more == Append(seq, x)
  <2>1. /\ more \in Seq(Elems) /\ Len(more) = n + 1 /\ n \in Nat /\ more[n + 1] = x
        /\ \A k \in 1 .. n : more[k] = seq[k]
    OBVIOUS
  <2>2. PICK f : /\ f[0] = Base
                 /\ \A k \in 1 .. n : f[k] = Step(f[k - 1], seq[k])
                 /\ Fold(seq) = f[n]
    BY FoldIsALoop
  <2> HIDE DEF more, n
  <2>3. PICK g : /\ g[0] = Base
                 /\ \A k \in 1 .. n + 1 : g[k] = Step(g[k - 1], more[k])
                 /\ Fold(more) = g[n + 1]
    BY <2>1, FoldIsALoop
  <2> DEFINE Same == {k \in Nat : k <= n => f[k] = g[k]}
  <2>4. 0 \in Same
    BY <2>2, <2>3
  <2>5. ASSUME NEW k \in Nat, k \in Same PROVE k + 1 \in Same
    <3> SUFFICES ASSUME k + 1 <= n PROVE f[k + 1] = g[k + 1]
      OBVIOUS
    <3>1. k + 1 \in 1 .. n /\ k + 1 \in 1 .. n + 1 /\ (k + 1) - 1 = k /\ k <= n
      BY <2>1
    <3> QED
      BY <2>1, <2>2, <2>3, <2>5, <3>1
  <2>6. Nat \subseteq Same
    <3> HIDE DEF Same
    <3> QED
      BY <2>4, <2>5, InductionOnASet
  <2>7. f[n] = g[n]
    BY <2>1, <2>6
  <2>8. n + 1 \in 1 .. n + 1 /\ (n + 1) - 1 = n
    BY <2>1
  <2> QED
    BY <2>1, <2>2, <2>3, <2>7, <2>8 DEF more
<1> QED
  BY <1>1, <1>2, <1>3
=============================================================================
