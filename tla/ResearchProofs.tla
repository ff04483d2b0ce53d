--------------------------- MODULE ResearchProofs ---------------------------
(***************************************************************************)
(* Proofs about the research pipeline, for any number of callers, any cap, *)
(* any results, any pages and any ranking of their passages: the accounts  *)
(* of its semaphore, whichever way its calls end; the barrier behind its   *)
(* fetches, past which no page is lost; what a page becomes in its         *)
(* passages; and where the citations and the coverage of an answer come    *)
(* from.                                                                   *)
(*                                                                         *)
(* The loops of the code (over paragraphs, words, parts and urls) are left *)
(* folds; FoldingProofs, instantiated once for each, says what a fold has  *)
(* made after every item, and a set of the numbers for which a claim holds *)
(* is shown to hold 0 and, with a number, the next.                        *)
(***************************************************************************)
EXTENDS Research, FiniteSetTheorems, SequenceTheorems, TLAPS

Phases == {"idle", "queued", "searching", "fetching", "writing", "done"}
Runners == {c \in Callers : Running(c)}
Queued == {c \in Callers : phase[c] = "queued"}
Waiters == {waiters[i] : i \in DOMAIN waiters}

\* What SlotsAccounted rests on: a call waits once, at one place of the queue;
\* without a cap nobody does.
Slots ==
    /\ phase \in [Callers -> Phases]
    /\ inUse \in Nat
    /\ waiters \in Seq(Callers)
    /\ Cap = 0 => inUse = 0 /\ waiters = <<>>
    /\ Cap > 0 => /\ inUse <= Cap
                  /\ inUse = Cardinality(Runners)
                  /\ waiters # <<>> => inUse = Cap
    /\ Waiters = Queued
    /\ \A i, j \in DOMAIN waiters : waiters[i] = waiters[j] => i = j

\* wg.Wait is a barrier: no fetch is open once the pages are read; and there is
\* no page before the search is over, so that a call which ends there leaves none
\* open.
Barrier ==
    /\ DOMAIN pages = Callers
    /\ \A c \in Callers : phase[c] \in {"idle", "queued", "searching"} => pages[c] = <<>>
    /\ \A c \in Callers : phase[c] \in {"writing", "done"} =>
        \A i \in DOMAIN pages[c] : pages[c][i] # Pending

-----------------------------------------------------------------------------
(* The semaphore.                                                          *)

\* Before the first call no slot is in use, and no page is there.
LEMMA NobodyRunsAtFirst == Init => Slots /\ Barrier
<1> SUFFICES ASSUME Init PROVE Slots /\ Barrier
  OBVIOUS
<1>1. Runners = {} /\ Queued = {} /\ Waiters = {}
  BY DEF Init, Runners, Running, Queued, Waiters
<1>2. Cardinality(Runners) = 0
  BY <1>1, FS_EmptySet
<1>3. Slots
  BY <1>1, <1>2, CapAssumption DEF Init, Slots, Phases
<1>4. Barrier
  BY DEF Init, Barrier
<1> QED
  BY <1>3, <1>4

\* The calls under way can be counted.
LEMMA RunnersAreFinite == IsFiniteSet(Runners)
BY CallersAssumption, FS_Subset DEF Runners

\* A call takes a free slot, or joins the queue when there is none.
LEMMA CallKeepsSlots ==
    ASSUME Slots, NEW c \in Callers, NEW e, NEW m, Call(c, e, m)
    PROVE  Slots'
<1>1. phase[c] = "idle" /\ phase \in [Callers -> Phases] /\ inUse \in Nat /\ Cap \in Nat
  BY CapAssumption DEF Call, Slots
<1>2. CASE SlotFree
  <2>1. /\ phase' = [phase EXCEPT ![c] = "searching"]
        /\ inUse' = IF Cap = 0 THEN 0 ELSE inUse + 1
        /\ waiters' = waiters
    BY <1>2 DEF Call
  <2>2. Runners' = Runners \cup {c} /\ c \notin Runners
    BY <1>1, <2>1 DEF Runners, Running
  <2>3. Cardinality(Runners') = Cardinality(Runners) + 1
    BY <2>2, RunnersAreFinite, FS_AddElement
  <2>4. Cap > 0 => inUse < Cap /\ waiters = <<>>
    BY <1>1, <1>2 DEF Slots, SlotFree
  <2>5. Waiters' = Waiters /\ Queued' = Queued
    BY <1>1, <2>1 DEF Waiters, Queued
  <2>6. phase' \in [Callers -> Phases]
    BY <1>1, <2>1 DEF Phases
  <2> QED
    BY <1>1, <2>1, <2>3, <2>4, <2>5, <2>6 DEF Slots
<1>3. CASE ~SlotFree
  <2>1. /\ phase' = [phase EXCEPT ![c] = "queued"]
        /\ inUse' = inUse
        /\ waiters' = Append(waiters, c)
    BY <1>3 DEF Call
  <2>2. Cap > 0 /\ inUse = Cap
    BY <1>1, <1>3 DEF Slots, SlotFree
  <2>3. Runners' = Runners /\ Queued' = Queued \cup {c} /\ phase' \in [Callers -> Phases]
    BY <1>1, <2>1 DEF Runners, Running, Queued, Phases
  <2>4. /\ waiters \in Seq(Callers)
        /\ waiters' \in Seq(Callers)
        /\ Len(waiters') = Len(waiters) + 1
        /\ \A i \in 1 .. Len(waiters) : waiters'[i] = waiters[i]
        /\ waiters'[Len(waiters) + 1] = c
    BY <2>1, AppendProperties DEF Slots
  <2>5. /\ Len(waiters) \in Nat
        /\ DOMAIN waiters = 1 .. Len(waiters)
        /\ DOMAIN waiters' = 1 .. (Len(waiters) + 1)
        /\ DOMAIN waiters' = DOMAIN waiters \cup {Len(waiters) + 1}
        /\ Len(waiters) + 1 \notin DOMAIN waiters
    BY <2>4, LenProperties
  <2>6. \A i \in DOMAIN waiters : waiters[i] # c
    BY <1>1 DEF Slots, Waiters, Queued
  <2>7. Waiters' = Waiters \cup {c}
    BY <2>4, <2>5 DEF Waiters
  <2>8. \A i, j \in DOMAIN waiters' : waiters'[i] = waiters'[j] => i = j
    BY <2>4, <2>5, <2>6 DEF Slots
  <2> QED
    BY <1>1, <2>1, <2>2, <2>3, <2>4, <2>7, <2>8 DEF Slots
<1> QED
  BY <1>2, <1>3

\* Whatever a call returns, its slot goes to the head of the queue or becomes free.
LEMMA FinishKeepsSlots ==
    ASSUME Slots, NEW c \in Callers, NEW r, Running(c), Finish(c, r)
    PROVE  Slots'
<1>1. phase \in [Callers -> Phases] /\ inUse \in Nat /\ Cap \in Nat /\ c \in Runners
  BY CapAssumption DEF Slots, Runners
<1>2. IsFiniteSet(Runners \ {c}) /\ Cardinality(Runners \ {c}) = Cardinality(Runners) - 1
  BY <1>1, RunnersAreFinite, FS_RemoveElement
<1>3. Cardinality(Runners \ {c}) \in Nat /\ Cardinality(Runners) \in Nat
  BY <1>2, RunnersAreFinite, FS_CardinalityType
<1>4. CASE waiters = <<>>
  <2>1. /\ phase' = [phase EXCEPT ![c] = "done"]
        /\ inUse' = IF Cap = 0 THEN 0 ELSE inUse - 1
        /\ waiters' = waiters
    BY <1>4 DEF Finish
  <2>2. Runners' = Runners \ {c} /\ Queued' = Queued /\ phase' \in [Callers -> Phases]
    BY <1>1, <2>1 DEF Runners, Running, Queued, Phases
  <2>3. Waiters' = Waiters
    BY <2>1 DEF Waiters
  <2> QED
    BY <1>1, <1>2, <1>3, <1>4, <2>1, <2>2, <2>3 DEF Slots
<1>5. CASE waiters # <<>>
  <2> DEFINE h == Head(waiters)
  <2>1. /\ phase' = [phase EXCEPT ![c] = "done", ![h] = "searching"]
        /\ waiters' = Tail(waiters)
        /\ inUse' = inUse
    BY <1>5 DEF Finish
  <2>2. /\ waiters \in Seq(Callers)
        /\ Len(waiters) \in Nat \ {0}
        /\ h = waiters[1] /\ 1 \in DOMAIN waiters /\ h \in Callers
        /\ DOMAIN waiters = 1 .. Len(waiters)
    BY <1>5, EmptySeq, LenProperties, HeadTailProperties DEF Slots
  <2>3. /\ waiters' \in Seq(Callers)
        /\ DOMAIN waiters' = 1 .. (Len(waiters) - 1)
        /\ \A i \in 1 .. (Len(waiters) - 1) : waiters'[i] = waiters[i + 1]
    BY <1>5, <2>1, <2>2, HeadTailProperties, LenProperties
  <2>4. h \in Queued
    BY <2>2 DEF Slots, Waiters
  <2> HIDE DEF h
  <2>5. h # c /\ phase[h] = "queued"
    BY <2>4 DEF Running, Queued
  <2>6. /\ phase' \in [Callers -> Phases]
        /\ phase'[h] = "searching" /\ phase'[c] = "done"
        /\ \A d \in Callers \ {c, h} : phase'[d] = phase[d]
    BY <1>1, <2>1, <2>2, <2>5 DEF Phases
  <2>7. Runners' = (Runners \ {c}) \cup {h} /\ h \notin Runners \ {c}
    BY <2>2, <2>5, <2>6 DEF Runners, Running
  <2>8. Cardinality(Runners') = Cardinality(Runners)
    BY SMTT(30), <1>2, <1>3, <2>7, FS_AddElement
  <2>9. Queued' = Queued \ {h}
    BY <2>2, <2>5, <2>6 DEF Queued, Running
  <2>10. Waiters' = Waiters \ {h}
    <3>1. ASSUME NEW i \in DOMAIN waiters' PROVE waiters'[i] \in Waiters \ {h}
      <4>1. i + 1 \in DOMAIN waiters /\ i + 1 # 1 /\ waiters'[i] = waiters[i + 1]
        BY <2>2, <2>3
      <4> QED
        BY <2>2, <4>1 DEF Slots, Waiters
    <3>2. ASSUME NEW i \in DOMAIN waiters, waiters[i] # h
          PROVE  \E k \in DOMAIN waiters' : waiters'[k] = waiters[i]
      <4>1. i # 1
        BY <2>2, <3>2
      <4>2. i - 1 \in DOMAIN waiters' /\ waiters'[i - 1] = waiters[(i - 1) + 1] /\ (i - 1) + 1 = i
        BY <2>2, <2>3, <4>1
      <4> QED
        BY <4>2
    <3> QED
      BY <3>1, <3>2 DEF Waiters
  <2>11. \A i, j \in DOMAIN waiters' : waiters'[i] = waiters'[j] => i = j
    <3> SUFFICES ASSUME NEW i \in DOMAIN waiters', NEW j \in DOMAIN waiters',
                        waiters'[i] = waiters'[j]
                 PROVE  i = j
      OBVIOUS
    <3>1. /\ i \in Nat /\ j \in Nat
          /\ i + 1 \in DOMAIN waiters /\ j + 1 \in DOMAIN waiters
          /\ waiters[i + 1] = waiters[j + 1]
      BY <2>2, <2>3
    <3>2. i + 1 = j + 1
      BY <3>1 DEF Slots
    <3> QED
      BY <3>1, <3>2
  <2>12. Cap > 0
    BY <1>1, <1>5 DEF Slots
  <2> QED
    BY <1>1, <1>5, <2>1, <2>3, <2>6, <2>8, <2>9, <2>10, <2>11, <2>12 DEF Slots
<1> QED
  BY <1>4, <1>5

\* A step that moves a running call on, and a fetch, leave the accounts alone.
LEMMA RunningOnKeepsSlots ==
    ASSUME Slots, NEW c \in Callers, UNCHANGED sem,
           \/ phase' = phase
           \/ Running(c) /\ \E p \in {"fetching", "writing"} : phase' = [phase EXCEPT ![c] = p]
    PROVE  Slots'
<1>1. phase \in [Callers -> Phases]
  BY DEF Slots
<1>2. phase' \in [Callers -> Phases] /\ Runners' = Runners /\ Queued' = Queued
  BY <1>1 DEF Runners, Running, Queued, Phases
<1>3. Waiters' = Waiters
  BY DEF sem, Waiters
<1> QED
  BY <1>2, <1>3 DEF Slots, sem

\* No step of any call breaks the accounts.
LEMMA SlotsAreKept == ASSUME Slots, [Next]_vars PROVE Slots'
<1>1. ASSUME NEW c \in Callers, SearchFails(c) \/ WriteFails(c) PROVE Slots'
  BY <1>1, FinishKeepsSlots DEF SearchFails, WriteFails, Running
<1>2. ASSUME NEW c \in Callers, NEW rs, SearchEnds(c, rs) PROVE Slots'
  BY <1>2, RunningOnKeepsSlots DEF SearchEnds, Running
<1>3. ASSUME NEW c \in Callers, NEW i, NEW page, FetchEnds(c, i, page) PROVE Slots'
  BY <1>3, RunningOnKeepsSlots DEF FetchEnds
<1>4. ASSUME NEW c \in Callers, Gather(c) PROVE Slots'
  <2>1. Running(c)
    BY <1>4 DEF Gather, Running
  <2>2. CASE UNCHANGED sem /\ phase' = [phase EXCEPT ![c] = "writing"]
    BY <2>1, <2>2, RunningOnKeepsSlots
  <2>3. CASE \E r : Finish(c, r)
    BY <2>1, <2>3, FinishKeepsSlots
  <2> QED
    BY <1>4, <2>2, <2>3 DEF Gather
<1>5. ASSUME NEW c \in Callers, NEW used, Write(c, used) PROVE Slots'
  BY <1>5, FinishKeepsSlots DEF Write, Running
<1>6. CASE UNCHANGED vars
  BY <1>6 DEF vars, sem, Slots, Runners, Running, Queued, Waiters
<1> QED
  BY <1>1, <1>2, <1>3, <1>4, <1>5, <1>6, CallKeepsSlots DEF Next, Work, Search, Fetch, Model

\* The cap "bounds concurrent research" (pipeline.go:61) and never leaks a slot:
\* for any number of callers, and however their calls end.
THEOREM SlotsAreAccounted == Spec => []SlotsAccounted
<1>1. Init => Slots
  BY NobodyRunsAtFirst
<1>2. Slots /\ [Next]_vars => Slots'
  BY SlotsAreKept
<1>3. Slots => SlotsAccounted
  BY DEF Slots, SlotsAccounted, Runners, Queued, Waiters
<1> QED
  BY <1>1, <1>2, <1>3, PTL DEF Spec

-----------------------------------------------------------------------------
(* The barrier.                                                            *)

\* A call that returns has no fetch open; the one it lets in has none yet.
LEMMA FinishKeepsBarrier ==
    ASSUME Slots, Barrier, NEW c \in Callers, NEW r, Running(c), Finish(c, r), pages' = pages,
           \A i \in DOMAIN pages[c] : pages[c][i] # Pending
    PROVE  Barrier'
<1>1. phase \in [Callers -> Phases]
  BY DEF Slots
<1>2. CASE waiters = <<>>
  BY <1>1, <1>2 DEF Finish, Barrier
<1>3. CASE waiters # <<>>
  <2>1. waiters[1] \in Queued /\ Head(waiters) = waiters[1]
    BY <1>3, EmptySeq, LenProperties, HeadTailProperties DEF Slots, Waiters
  <2>2. phase' = [phase EXCEPT ![c] = "done", ![Head(waiters)] = "searching"]
    BY <1>3 DEF Finish
  <2>3. \A d \in Callers : \/ d = c
                           \/ phase[d] = "queued" /\ phase'[d] = "searching"
                           \/ phase'[d] = phase[d]
    BY <1>1, <2>1, <2>2 DEF Queued
  <2>4. phase'[c] = "done"
    BY <1>1, <2>1, <2>2 DEF Queued, Running
  <2> QED
    BY <2>3, <2>4 DEF Barrier
<1> QED
  BY <1>2, <1>3

\* No step of any call breaks the barrier: only a call still fetching writes a page.
LEMMA BarrierIsKept == ASSUME Slots, Barrier, [Next]_vars PROVE Barrier'
<1>0. phase \in [Callers -> Phases]
  BY DEF Slots
<1>1. ASSUME NEW c \in Callers, NEW e, NEW m, Call(c, e, m) PROVE Barrier'
  BY <1>0, <1>1 DEF Call, Barrier
<1>2. ASSUME NEW c \in Callers, SearchFails(c) PROVE Barrier'
  <2>1. pages[c] = <<>>
    BY <1>2 DEF SearchFails, Barrier
  <2> QED
    BY <1>2, <2>1, FinishKeepsBarrier DEF SearchFails, Running
<1>3. ASSUME NEW c \in Callers, NEW rs, SearchEnds(c, rs) PROVE Barrier'
  BY <1>0, <1>3 DEF SearchEnds, Barrier
<1>4. ASSUME NEW c \in Callers, NEW i, NEW page, FetchEnds(c, i, page) PROVE Barrier'
  <2>1. i \in DOMAIN pages[c] /\ pages[c][i] = Pending
    BY <1>4 DEF FetchEnds
  <2>2. phase[c] = "fetching"
    BY <1>0, <2>1 DEF Barrier, Phases
  <2>3. phase' = phase /\ DOMAIN pages' = Callers /\ \A d \in Callers \ {c} : pages'[d] = pages[d]
    BY <1>4 DEF FetchEnds, Barrier
  <2> QED
    BY <2>2, <2>3 DEF Barrier
<1>5. ASSUME NEW c \in Callers, Gather(c) PROVE Barrier'
  <2>1. Running(c) /\ pages' = pages /\ \A i \in DOMAIN pages[c] : pages[c][i] # Pending
    BY <1>5 DEF Gather, Running, AllFetched
  <2>2. CASE phase' = [phase EXCEPT ![c] = "writing"]
    BY <1>0, <2>1, <2>2 DEF Barrier
  <2>3. CASE \E r : Finish(c, r)
    BY <2>1, <2>3, FinishKeepsBarrier
  <2> QED
    BY <1>5, <2>2, <2>3 DEF Gather
<1>6. ASSUME NEW c \in Callers, phase[c] = "writing", NEW r, Finish(c, r), pages' = pages
      PROVE  Barrier'
  BY <1>6, FinishKeepsBarrier DEF Running, Barrier
<1>7. ASSUME NEW c \in Callers, NEW used, WriteFails(c) \/ Write(c, used) PROVE Barrier'
  BY <1>6, <1>7 DEF WriteFails, Write
<1>8. CASE UNCHANGED vars
  BY <1>8 DEF vars, Barrier
<1> QED
  BY <1>1, <1>2, <1>3, <1>4, <1>5, <1>7, <1>8 DEF Next, Work, Search, Fetch, Model

-----------------------------------------------------------------------------
(* From the pages to the answer: the loops of chunk.go, extractive.go and  *)
(* synthesize.go.                                                          *)

\* Every url a search may return; a passage, and a citation of one.
Urls == {rs[i].url : rs \in SearchResults, i \in Nat}
Passage == [url: Urls]
Citation == [marker: Nat, url: Urls]

AddUrl(urls, p) == IF p.url \in ToSet(urls) THEN urls ELSE Append(urls, p.url)
Sources == INSTANCE FoldingProofs
           WITH Step <- AddUrl, Base <- <<>>, Outs <- Seq(Urls), Elems <- Passage \cup Citation

\* What is appended piece by piece.
Piece == Passage \cup Nat
AddPieces(all, more) == all \o more
Pieces == INSTANCE FoldingProofs
          WITH Step <- AddPieces, Base <- <<>>, Outs <- Seq(Piece), Elems <- Seq(Piece)

Distinct(s) == \A i, j \in DOMAIN s : s[i] = s[j] => i = j

\* What Append does, of any element.
LEMMA Appended ==
    ASSUME NEW S, NEW s \in Seq(S), NEW x \in S
    PROVE  /\ Append(s, x) \in Seq(S) /\ Len(s) \in Nat
           /\ Len(Append(s, x)) = Len(s) + 1 /\ Len(s) + 1 \notin DOMAIN s
           /\ DOMAIN s = 1 .. Len(s) /\ DOMAIN Append(s, x) = DOMAIN s \cup {Len(s) + 1}
           /\ \A i \in DOMAIN s : Append(s, x)[i] = s[i]
           /\ Append(s, x)[Len(s) + 1] = x
           /\ Append(s, x) # <<>>
<1>1. Len(s) \in Nat /\ DOMAIN s = 1 .. Len(s) /\ Append(s, x) \in Seq(S)
  OBVIOUS
<1>2. Len(Append(s, x)) = Len(s) + 1 /\ DOMAIN Append(s, x) = 1 .. Len(s) + 1
  OBVIOUS
<1>3. Append(s, x) # <<>>
  <2>1. Len(<<>>) = 0
    OBVIOUS
  <2> QED
    BY <1>1, <1>2, <2>1
<1> QED
  BY <1>1, <1>2, <1>3

\* distinctSources: each url of the passages, once.
LEMMA SourcesAreDistinct ==
    ASSUME NEW ps \in Seq(Passage \cup Citation)
    PROVE  /\ DistinctSources(ps) \in Seq(Urls)
           /\ Distinct(DistinctSources(ps))
           /\ ToSet(DistinctSources(ps)) = {ps[i].url : i \in DOMAIN ps}
<1>1. DistinctSources(ps) = Sources!Fold(ps)
  BY DEF DistinctSources, FoldLeft, MapThenFoldSet, Max,
         Sources!Fold, Sources!FoldLeft, Sources!MapThenFoldSet, Sources!Max, AddUrl
<1>2. \A p \in Passage \cup Citation : p.url \in Urls
  BY DEF Passage, Citation
<1>3. \A urls \in Seq(Urls), p \in Passage \cup Citation : AddUrl(urls, p) \in Seq(Urls)
  BY <1>2 DEF AddUrl
<1>4. <<>> \in Seq(Urls)
  OBVIOUS
<1>5. PICK f : /\ f[0] = <<>>
               /\ \A k \in 1 .. Len(ps) : f[k] = AddUrl(f[k - 1], ps[k])
               /\ \A k \in 0 .. Len(ps) : f[k] \in Seq(Urls)
               /\ Sources!Fold(ps) = f[Len(ps)]
  BY <1>3, <1>4, Sources!FoldIsALoop
<1> DEFINE Good == {n \in Nat : n <= Len(ps) =>
                       Distinct(f[n]) /\ ToSet(f[n]) = {ps[i].url : i \in 1 .. n}}
<1>6. Len(ps) \in Nat /\ DOMAIN ps = 1 .. Len(ps)
  OBVIOUS
<1>7. 0 \in Good
  <2>1. DOMAIN f[0] = {} /\ 1 .. 0 = {}
    BY <1>5
  <2> QED
    BY <2>1 DEF Distinct, ToSet
<1>8. ASSUME NEW n \in Nat, n \in Good PROVE n + 1 \in Good
  <2> SUFFICES ASSUME n + 1 <= Len(ps)
               PROVE  Distinct(f[n + 1]) /\ ToSet(f[n + 1]) = {ps[i].url : i \in 1 .. n + 1}
    OBVIOUS
  <2> DEFINE u == ps[n + 1].url
  <2>1. n + 1 \in 1 .. Len(ps) /\ n \in 0 .. Len(ps) /\ (n + 1) - 1 = n /\ n <= Len(ps)
    BY <1>6
  <2>2. f[n + 1] = AddUrl(f[n], ps[n + 1]) /\ f[n] \in Seq(Urls) /\ u \in Urls
    BY <1>2, <1>5, <2>1
  <2>3. Distinct(f[n]) /\ ToSet(f[n]) = {ps[i].url : i \in 1 .. n}
    BY <1>8, <2>1
  <2>4. {ps[i].url : i \in 1 .. n + 1} = {ps[i].url : i \in 1 .. n} \cup {u}
    <3>1. 1 .. n + 1 = 1 .. n \cup {n + 1}
      OBVIOUS
    <3> QED
      BY <3>1
  <2> HIDE DEF Good, u
  <2>5. CASE u \in ToSet(f[n])
    <3>1. f[n + 1] = f[n]
      BY <2>2, <2>5 DEF AddUrl, u
    <3> QED
      BY <2>3, <2>4, <2>5, <3>1
  <2>6. CASE u \notin ToSet(f[n])
    <3>1. f[n + 1] = Append(f[n], u)
      BY <2>2, <2>6 DEF AddUrl, u
    <3>2. /\ DOMAIN f[n + 1] = DOMAIN f[n] \cup {Len(f[n]) + 1}
          /\ \A i \in DOMAIN f[n] : f[n + 1][i] = f[n][i]
          /\ f[n + 1][Len(f[n]) + 1] = u
      BY <2>2, <3>1, Appended
    <3>3. \A i \in DOMAIN f[n] : f[n][i] # u
      BY <2>6 DEF ToSet
    <3>4. Distinct(f[n + 1])
      BY <2>3, <3>2, <3>3 DEF Distinct
    <3>5. ToSet(f[n + 1]) = ToSet(f[n]) \cup {u}
      BY <3>2 DEF ToSet
    <3> QED
      BY <2>3, <2>4, <3>4, <3>5
  <2> QED
    BY <2>5, <2>6
<1>9. Nat \subseteq Good
  <2> HIDE DEF Good
  <2> QED
    BY <1>7, <1>8, Sources!InductionOnASet
<1>10. /\ Distinct(f[Len(ps)]) /\ ToSet(f[Len(ps)]) = {ps[i].url : i \in 1 .. Len(ps)}
       /\ f[Len(ps)] \in Seq(Urls)
  <2>1. Len(ps) \in Good /\ Len(ps) <= Len(ps) /\ Len(ps) \in 0 .. Len(ps)
    BY <1>6, <1>9
  <2>2. f[Len(ps)] \in Seq(Urls)
    BY <1>5, <2>1
  <2> QED
    BY <2>1, <2>2
<1> QED
  BY <1>1, <1>5, <1>6, <1>10

\* A sequence without a repetition is as long as its elements are many.
LEMMA DistinctIsCounted ==
    ASSUME NEW S, NEW s \in Seq(S), Distinct(s)
    PROVE  IsFiniteSet(ToSet(s)) /\ Cardinality(ToSet(s)) = Len(s)
<1>1. Len(s) \in Nat /\ DOMAIN s = 1 .. Len(s) /\ s \in [1 .. Len(s) -> ToSet(s)]
  BY DEF ToSet
<1>2. s \in Injection(1 .. Len(s), ToSet(s)) /\ s \in Surjection(1 .. Len(s), ToSet(s))
  BY <1>1 DEF Injection, Surjection, IsInjective, Distinct, ToSet
<1>3. IsFiniteSet(1 .. Len(s)) /\ Cardinality(1 .. Len(s)) = Len(s)
  <2> DEFINE n == Len(s)
  <2>1. 1 \in Int /\ n \in Int /\ n \in Nat
    BY <1>1
  <2> HIDE DEF n
  <2>2. IsFiniteSet(1 .. n) /\ Cardinality(1 .. n) = IF 1 > n THEN 0 ELSE n - 1 + 1
    BY <2>1, FS_Interval
  <2>3. Cardinality(1 .. n) = n
    BY <2>1, <2>2
  <2> QED
    BY <2>2, <2>3 DEF n
<1> QED
  BY <1>2, <1>3, FS_Surjection

\* append adds a part to what there is, and nothing to nothing.
LEMMA ConcatGrows ==
    /\ Concat(<<>>) = <<>>
    /\ \A seqs \in Seq(Seq(Piece)) :
         /\ Concat(seqs) \in Seq(Piece)
         /\ \A s \in Seq(Piece) : Concat(Append(seqs, s)) = Concat(seqs) \o s
<1>1. \A seqs : Concat(seqs) = Pieces!Fold(seqs)
  BY DEF Concat, FoldLeft, MapThenFoldSet, Max,
         Pieces!Fold, Pieces!FoldLeft, Pieces!MapThenFoldSet, Pieces!Max, AddPieces
<1>2. <<>> \in Seq(Piece)
  OBVIOUS
<1>3. \A all \in Seq(Piece), more \in Seq(Piece) : AddPieces(all, more) \in Seq(Piece)
  BY DEF AddPieces
<1>4. /\ Pieces!Fold(<<>>) = <<>>
      /\ \A seqs \in Seq(Seq(Piece)) :
           /\ Pieces!Fold(seqs) \in Seq(Piece)
           /\ \A s \in Seq(Piece) : Pieces!Fold(Append(seqs, s)) = AddPieces(Pieces!Fold(seqs), s)
  BY <1>2, <1>3, Pieces!FoldGrows
<1> QED
  BY <1>1, <1>4 DEF AddPieces

\* What has been appended comes from one of the parts.
LEMMA ConcatIsOfItsParts ==
    ASSUME NEW seqs \in Seq(Seq(Piece)), NEW i \in DOMAIN Concat(seqs)
    PROVE  \E k \in DOMAIN seqs : \E j \in DOMAIN seqs[k] : Concat(seqs)[i] = seqs[k][j]
<1>1. Concat(seqs) = Pieces!Fold(seqs)
  BY DEF Concat, FoldLeft, MapThenFoldSet, Max,
         Pieces!Fold, Pieces!FoldLeft, Pieces!MapThenFoldSet, Pieces!Max, AddPieces
<1>2. <<>> \in Seq(Piece) /\ \A all \in Seq(Piece), more \in Seq(Piece) : AddPieces(all, more) \in Seq(Piece)
  BY DEF AddPieces
<1>3. PICK f : /\ f[0] = <<>>
               /\ \A k \in 1 .. Len(seqs) : f[k] = AddPieces(f[k - 1], seqs[k])
               /\ \A k \in 0 .. Len(seqs) : f[k] \in Seq(Piece)
               /\ Pieces!Fold(seqs) = f[Len(seqs)]
  BY <1>2, Pieces!FoldIsALoop
<1> DEFINE Good == {n \in Nat : n <= Len(seqs) => \A m \in DOMAIN f[n] :
                       \E k \in 1 .. n : \E j \in DOMAIN seqs[k] : f[n][m] = seqs[k][j]}
<1>4. Len(seqs) \in Nat /\ DOMAIN seqs = 1 .. Len(seqs)
  OBVIOUS
<1>5. 0 \in Good
  <2>1. DOMAIN f[0] = {}
    BY <1>3
  <2> QED
    BY <2>1
<1>6. ASSUME NEW n \in Nat, n \in Good PROVE n + 1 \in Good
  <2> SUFFICES ASSUME n + 1 <= Len(seqs), NEW m \in DOMAIN f[n + 1]
               PROVE  \E k \in 1 .. n + 1 : \E j \in DOMAIN seqs[k] : f[n + 1][m] = seqs[k][j]
    OBVIOUS
  <2>1. n + 1 \in 1 .. Len(seqs) /\ n \in 0 .. Len(seqs) /\ (n + 1) - 1 = n /\ n <= Len(seqs)
    BY <1>4
  <2> DEFINE all == f[n]
             more == seqs[n + 1]
  <2>2. all \in Seq(Piece) /\ more \in Seq(Piece)
    BY <1>3, <1>4, <2>1
  <2>3. f[n + 1] = all \o more
    <3>1. f[n + 1] = AddPieces(f[(n + 1) - 1], seqs[n + 1])
      BY <1>3, <2>1
    <3> QED
      BY <2>1, <3>1 DEF AddPieces
  <2> HIDE DEF all, more
  <2>4. /\ Len(all) \in Nat /\ DOMAIN all = 1 .. Len(all)
        /\ DOMAIN more = 1 .. Len(more) /\ Len(more) \in Nat
        /\ DOMAIN (all \o more) = 1 .. Len(all) + Len(more)
    BY <2>2
  <2>5. m \in 1 .. Len(all) + Len(more)
    BY <2>3, <2>4
  <2>6. f[n + 1][m] = IF m <= Len(all) THEN all[m] ELSE more[m - Len(all)]
    BY <2>2, <2>3, <2>5, ConcatProperties
  <2>7. CASE m <= Len(all)
    <3>1. m \in DOMAIN all /\ f[n + 1][m] = all[m]
      BY <2>4, <2>5, <2>6, <2>7
    <3>2. PICK k \in 1 .. n : \E j \in DOMAIN seqs[k] : f[n][m] = seqs[k][j]
      BY <1>6, <2>1, <3>1 DEF all
    <3>3. k \in 1 .. n + 1
      OBVIOUS
    <3> QED
      BY <3>1, <3>2, <3>3 DEF all
  <2>8. CASE ~ (m <= Len(all))
    <3>1. m - Len(all) \in 1 .. Len(more)
      <4> DEFINE a == Len(all)
                 b == Len(more)
      <4>1. a \in Nat /\ b \in Nat /\ m \in 1 .. a + b /\ ~ (m <= a)
        BY <2>4, <2>5, <2>8
      <4> HIDE DEF a, b
      <4>2. m - a \in 1 .. b
        BY SMTT(30), <4>1
      <4> QED
        BY <4>2 DEF a, b
    <3>2. f[n + 1][m] = more[m - Len(all)]
      BY <2>6, <2>8
    <3>3. n + 1 \in 1 .. n + 1
      OBVIOUS
    <3> QED
      BY <2>4, <3>1, <3>2, <3>3 DEF more
  <2> QED
    BY <2>7, <2>8
<1>7. Nat \subseteq Good
  <2> HIDE DEF Good
  <2> QED
    BY <1>5, <1>6, Pieces!InductionOnASet
<1>8. \A m \in DOMAIN f[Len(seqs)] :
         \E k \in 1 .. Len(seqs) : \E j \in DOMAIN seqs[k] : f[Len(seqs)][m] = seqs[k][j]
  BY SMTT(30), <1>4, <1>7
<1> HIDE DEF Good
<1>9. Concat(seqs) = f[Len(seqs)] /\ DOMAIN seqs = 1 .. Len(seqs)
  BY <1>1, <1>3, <1>4
<1> QED
  BY SMTT(30), <1>8, <1>9

\* Whatever is in one of the parts has been appended.
LEMMA ConcatHoldsItsParts ==
    ASSUME NEW seqs \in Seq(Seq(Piece)), NEW p \in DOMAIN seqs, NEW j \in DOMAIN seqs[p]
    PROVE  \E m \in DOMAIN Concat(seqs) : Concat(seqs)[m] = seqs[p][j]
<1>1. Concat(seqs) = Pieces!Fold(seqs)
  BY DEF Concat, FoldLeft, MapThenFoldSet, Max,
         Pieces!Fold, Pieces!FoldLeft, Pieces!MapThenFoldSet, Pieces!Max, AddPieces
<1>2. <<>> \in Seq(Piece) /\ \A all \in Seq(Piece), more \in Seq(Piece) : AddPieces(all, more) \in Seq(Piece)
  BY DEF AddPieces
<1>3. PICK f : /\ f[0] = <<>>
               /\ \A k \in 1 .. Len(seqs) : f[k] = AddPieces(f[k - 1], seqs[k])
               /\ \A k \in 0 .. Len(seqs) : f[k] \in Seq(Piece)
               /\ Pieces!Fold(seqs) = f[Len(seqs)]
  BY <1>2, Pieces!FoldIsALoop
<1> DEFINE x == seqs[p][j]
           Good == {n \in Nat : p <= n /\ n <= Len(seqs) => \E m \in DOMAIN f[n] : f[n][m] = x}
<1>4. Len(seqs) \in Nat /\ DOMAIN seqs = 1 .. Len(seqs) /\ p \in 1 .. Len(seqs)
  OBVIOUS
<1> HIDE DEF x
<1>5. 0 \in Good
  BY <1>4
<1>6. ASSUME NEW n \in Nat, n \in Good PROVE n + 1 \in Good
  <2> SUFFICES ASSUME p <= n + 1, n + 1 <= Len(seqs)
               PROVE  \E m \in DOMAIN f[n + 1] : f[n + 1][m] = x
    OBVIOUS
  <2>1. n + 1 \in 1 .. Len(seqs) /\ n \in 0 .. Len(seqs) /\ (n + 1) - 1 = n /\ n <= Len(seqs)
    BY <1>4
  <2> DEFINE all == f[n]
             more == seqs[n + 1]
  <2>2. all \in Seq(Piece) /\ more \in Seq(Piece)
    BY <1>3, <1>4, <2>1
  <2>3. f[n + 1] = all \o more
    <3>1. f[n + 1] = AddPieces(f[(n + 1) - 1], seqs[n + 1])
      BY <1>3, <2>1
    <3> QED
      BY <2>1, <3>1 DEF AddPieces
  <2>4. p <= n => \E m \in DOMAIN all : all[m] = x
    BY <1>6, <2>1
  <2>5. p = n + 1 => j \in DOMAIN more /\ more[j] = x
    BY DEF x
  <2>6. p <= n \/ p = n + 1
    BY <1>4
  <2> HIDE DEF all, more, Good
  <2>7. /\ Len(all) \in Nat /\ DOMAIN all = 1 .. Len(all)
        /\ Len(more) \in Nat /\ DOMAIN more = 1 .. Len(more)
        /\ DOMAIN (all \o more) = 1 .. Len(all) + Len(more)
        /\ \A m \in 1 .. Len(all) : (all \o more)[m] = all[m]
        /\ \A m \in 1 .. Len(more) : (all \o more)[Len(all) + m] = more[m]
    BY <2>2
  <2>8. CASE p <= n
    <3>1. PICK m \in 1 .. Len(all) : all[m] = x
      BY <2>4, <2>7, <2>8
    <3>2. m \in 1 .. Len(all) + Len(more)
      BY <2>7
    <3> QED
      BY <2>3, <2>7, <3>1, <3>2
  <2>9. CASE p = n + 1
    <3>1. j \in 1 .. Len(more) /\ more[j] = x
      BY <2>5, <2>7, <2>9
    <3>2. Len(all) + j \in 1 .. Len(all) + Len(more)
      BY <2>7, <3>1
    <3> QED
      BY <2>3, <2>7, <3>1, <3>2
  <2> QED
    BY <2>6, <2>8, <2>9
<1>7. Nat \subseteq Good
  <2> HIDE DEF Good
  <2> QED
    BY <1>5, <1>6, Pieces!InductionOnASet
<1>8. \E m \in DOMAIN f[Len(seqs)] : f[Len(seqs)][m] = x
  <2>1. Len(seqs) \in Good /\ p <= Len(seqs) /\ Len(seqs) <= Len(seqs)
    BY <1>4, <1>7
  <2> QED
    BY <2>1
<1> HIDE DEF Good
<1> QED
  BY <1>1, <1>3, <1>8 DEF x

-----------------------------------------------------------------------------
(* A page and its passages.                                                *)

Packed == [out: Seq(Seq(Nat)), current: Seq(Nat), words: Nat]
NothingPacked == [out |-> <<>>, current |-> <<>>, words |-> 0]

FlushOf(s) == IF s.current = <<>> THEN s
              ELSE [out |-> Append(s.out, s.current), current |-> <<>>, words |-> 0]
AddPara(s, w) ==
    LET t == IF s.words + w > PassageWords THEN FlushOf(s) ELSE s
    IN  [t EXCEPT !.current = Append(@, w), !.words = @ + w]

Packs == INSTANCE FoldingProofs
         WITH Step <- AddPara, Base <- NothingPacked, Outs <- Packed, Elems <- Nat

AddWords(n, w) == n + w
Sums == INSTANCE FoldingProofs WITH Step <- AddWords, Base <- 0, Outs <- Nat, Elems <- Nat

WordsOf(p) == FoldLeft(LAMBDA n, w : n + w, 0, p)

\* The words of a passage are those of its paragraphs.
LEMMA WordsAdd ==
    /\ WordsOf(<<>>) = 0
    /\ \A p \in Seq(Nat) :
         WordsOf(p) \in Nat /\ \A w \in Nat : WordsOf(Append(p, w)) = WordsOf(p) + w
<1>1. \A p : WordsOf(p) = Sums!Fold(p)
  BY DEF WordsOf, FoldLeft, MapThenFoldSet, Max,
         Sums!Fold, Sums!FoldLeft, Sums!MapThenFoldSet, Sums!Max, AddWords
<1>2. 0 \in Nat /\ \A n \in Nat, w \in Nat : AddWords(n, w) \in Nat
  BY DEF AddWords
<1>3. /\ Sums!Fold(<<>>) = 0
      /\ \A p \in Seq(Nat) :
           Sums!Fold(p) \in Nat /\ \A w \in Nat : Sums!Fold(Append(p, w)) = AddWords(Sums!Fold(p), w)
  BY <1>2, Sums!FoldGrows
<1> QED
  BY <1>1, <1>3 DEF AddWords

\* Passages as PassagesKeepThePage wants them.
Neat(passages) ==
    \A k \in DOMAIN passages :
        /\ passages[k] # <<>>
        /\ Len(passages[k]) = 1 \/ WordsOf(passages[k]) <= PassageWords
        /\ k > 1 => WordsOf(passages[k - 1]) + Head(passages[k]) > PassageWords

\* The passages there would be if the page ended here.
AsItIs(s) == FlushOf(s).out

\* What is packed is the page so far.
PackedWell(s, page) ==
    /\ s \in Packed
    /\ s.words = WordsOf(s.current)
    /\ s.current = <<>> => s.out = <<>>
    /\ Neat(AsItIs(s))
    /\ Concat(AsItIs(s)) = page

\* A flush leaves what is packed well formed.
LEMMA FlushIsTyped ==
    ASSUME NEW s \in Packed
    PROVE  FlushOf(s) \in Packed /\ AsItIs(s) \in Seq(Seq(Nat))
<1>1. s.out \in Seq(Seq(Nat)) /\ s.current \in Seq(Nat)
  BY DEF Packed
<1>2. Append(s.out, s.current) \in Seq(Seq(Nat)) /\ <<>> \in Seq(Nat) /\ 0 \in Nat
  BY <1>1
<1>3. FlushOf(s) \in Packed
  BY <1>2 DEF FlushOf, Packed
<1> QED
  BY <1>3 DEF AsItIs, Packed

\* So does the next paragraph.
LEMMA AddIsTyped ==
    ASSUME NEW s \in Packed, NEW w \in Nat
    PROVE  AddPara(s, w) \in Packed
<1> DEFINE t == IF s.words + w > PassageWords THEN FlushOf(s) ELSE s
<1>1. t \in Packed
  BY FlushIsTyped
<1> HIDE DEF t
<1>2. Append(t.current, w) \in Seq(Nat) /\ t.words + w \in Nat
  BY <1>1 DEF Packed
<1>3. [t EXCEPT !.current = Append(@, w), !.words = @ + w] \in Packed
  BY <1>1, <1>2 DEF Packed
<1> QED
  BY <1>3 DEF AddPara, t

\* Paragraphs, and passages of them, can be appended piece by piece.
LEMMA PagesArePieces == Seq(Nat) \subseteq Seq(Piece) /\ Seq(Seq(Nat)) \subseteq Seq(Seq(Piece))
<1>1. Nat \subseteq Piece
  BY DEF Piece
<1>2. Seq(Nat) \subseteq Seq(Piece)
  BY <1>1
<1> QED
  BY <1>2

\* A paragraph more, in a passage of its own or at the end of the last.
LEMMA ParaIsPackedWell ==
    ASSUME NEW s, NEW page \in Seq(Nat), PackedWell(s, page), NEW w \in Nat
    PROVE  PackedWell(AddPara(s, w), Append(page, w))
<1> DEFINE r == AddPara(s, w)
           out == s.out
           cur == s.current
<1>0. /\ s \in Packed /\ out \in Seq(Seq(Nat)) /\ cur \in Seq(Nat) /\ s.words \in Nat
      /\ s.words = WordsOf(cur) /\ PassageWords \in Nat
  BY PagesAssumption DEF PackedWell, Packed, out, cur
<1>1. r \in Packed
  BY <1>0, AddIsTyped
<1> HIDE DEF out, cur
<1>2. CASE cur # <<>> /\ s.words + w > PassageWords
  <2>1. r.out = Append(out, cur) /\ r.current = <<w>> /\ r.words = w
    <3>1. FlushOf(s) = [out |-> Append(out, cur), current |-> <<>>, words |-> 0]
      BY <1>2 DEF FlushOf, out, cur
    <3>2. r = [FlushOf(s) EXCEPT !.current = Append(@, w), !.words = @ + w]
      BY <1>2 DEF AddPara, out, cur
    <3> QED
      BY <3>1, <3>2
  <2>2. AsItIs(s) = Append(out, cur) /\ AsItIs(r) = Append(Append(out, cur), <<w>>)
    BY <1>2, <2>1 DEF AsItIs, FlushOf, out, cur
  <2> DEFINE full == Append(out, cur)
  <2>3. full \in Seq(Seq(Nat)) /\ <<w>> \in Seq(Nat) /\ full # <<>>
    <3>1. <<w>> \in Seq(Nat)
      OBVIOUS
    <3> QED
      BY <1>0, <3>1, Appended
  <2>4. full[Len(full)] = cur /\ Len(full) \in Nat \ {0} /\ DOMAIN full = 1 .. Len(full)
    BY <1>0
  <2> HIDE DEF full, r
  <2>5. /\ DOMAIN AsItIs(r) = DOMAIN full \cup {Len(full) + 1}
        /\ \A k \in DOMAIN full : AsItIs(r)[k] = full[k]
        /\ AsItIs(r)[Len(full) + 1] = <<w>>
    BY <2>2, <2>3, Appended DEF full
  <2>6. Neat(AsItIs(r))
    <3> SUFFICES ASSUME NEW k \in DOMAIN AsItIs(r)
                 PROVE  /\ AsItIs(r)[k] # <<>>
                        /\ Len(AsItIs(r)[k]) = 1 \/ WordsOf(AsItIs(r)[k]) <= PassageWords
                        /\ k > 1 => WordsOf(AsItIs(r)[k - 1]) + Head(AsItIs(r)[k]) > PassageWords
      BY DEF Neat
    <3>1. CASE k \in DOMAIN full
      <4>1. k > 1 => k - 1 \in DOMAIN full
        BY <2>4, <3>1
      <4>2. Neat(full)
        BY <2>2 DEF PackedWell, full, out, cur
      <4> QED
        BY <2>5, <3>1, <4>1, <4>2 DEF Neat
    <3>2. CASE k = Len(full) + 1
      <4>1. AsItIs(r)[k] = <<w>> /\ AsItIs(r)[k - 1] = cur
        <5>1. k - 1 = Len(full) /\ Len(full) \in DOMAIN full
          BY <2>4, <3>2
        <5> QED
          BY <2>4, <2>5, <3>2, <5>1
      <4>2. Head(<<w>>) = w /\ Len(<<w>>) = 1 /\ <<w>> # <<>>
        OBVIOUS
      <4> QED
        BY <1>0, <1>2, <4>1, <4>2
    <3> QED
      BY <2>5, <3>1, <3>2
  <2>7. Concat(AsItIs(r)) = page \o <<w>>
    <3>1. Concat(Append(full, <<w>>)) = Concat(full) \o <<w>>
      BY <2>3, ConcatGrows, PagesArePieces
    <3> QED
      BY <2>2, <3>1 DEF PackedWell, full, out, cur
  <2>8. page \o <<w>> = Append(page, w)
    OBVIOUS
  <2>9. r.words = WordsOf(r.current)
    <3>1. <<>> \in Seq(Nat) /\ Append(<<>>, w) = <<w>>
      OBVIOUS
    <3>2. WordsOf(Append(<<>>, w)) = 0 + w
      BY <3>1, WordsAdd
    <3> QED
      BY <2>1, <3>1, <3>2
  <2>10. r.current # <<>>
    BY <2>1
  <2> QED
    BY <1>1, <2>6, <2>7, <2>8, <2>9, <2>10 DEF PackedWell, r, out, cur
<1>3. CASE cur = <<>> \/ ~ (s.words + w > PassageWords)
  <2>1. r.out = out /\ r.current = Append(cur, w) /\ r.words = s.words + w
    <3>1. r = [s EXCEPT !.current = Append(@, w), !.words = @ + w]
      BY <1>3 DEF AddPara, FlushOf, out, cur
    <3> QED
      BY <1>0, <3>1 DEF Packed, out, cur
  <2> DEFINE new == Append(cur, w)
  <2>2. new \in Seq(Nat) /\ new # <<>> /\ WordsOf(new) = WordsOf(cur) + w
    <3>1. cur \in Seq(Nat)
      BY <1>0
    <3>2. Append(cur, w) \in Seq(Nat) /\ Append(cur, w) # <<>>
      BY <3>1, Appended
    <3> QED
      BY <3>1, <3>2, WordsAdd
  <2>3. AsItIs(r) = Append(out, new)
    BY <2>1, <2>2 DEF AsItIs, FlushOf, out, cur
  <2>4. cur # <<>> => Head(new) = Head(cur)
    BY <1>0
  <2>5. cur = <<>> => Len(new) = 1
    BY <1>0
  <2>6. new = cur \o <<w>>
    <3>1. cur \in Seq(Nat)
      BY <1>0
    <3> QED
      BY <3>1
  <2> HIDE DEF new, r
  <2>7. /\ DOMAIN out = 1 .. Len(out) /\ Len(out) \in Nat
        /\ DOMAIN AsItIs(r) = DOMAIN out \cup {Len(out) + 1}
        /\ \A k \in DOMAIN out : AsItIs(r)[k] = out[k]
        /\ AsItIs(r)[Len(out) + 1] = new
    BY SMTT(30), <1>0, <2>2, <2>3, Appended
  <2>8. CASE cur = <<>>
    <3>1. out = <<>> /\ AsItIs(s) = <<>>
      BY <2>8 DEF PackedWell, AsItIs, FlushOf, out, cur
    <3>2. Neat(AsItIs(r))
      <4>1. DOMAIN AsItIs(r) = {1} /\ AsItIs(r)[1] = new
        BY <2>7, <3>1
      <4> QED
        BY <2>2, <2>5, <2>8, <4>1 DEF Neat
    <3>3. Concat(AsItIs(r)) = Append(page, w)
      <4>1. Concat(Append(<<>>, new)) = Concat(<<>>) \o new
        <5>1. <<>> \in Seq(Seq(Piece)) /\ new \in Seq(Piece)
          BY <2>2, PagesArePieces
        <5> QED
          BY <5>1, ConcatGrows
      <4>2. page = <<>>
        BY <3>1, ConcatGrows DEF PackedWell, out, cur
      <4>3. <<>> \o new = new /\ new = <<w>>
        BY <2>2, <2>6, <2>8
      <4>4. Append(<<>>, w) = <<w>>
        OBVIOUS
      <4> QED
        BY <2>3, <3>1, <4>1, <4>2, <4>3, <4>4, ConcatGrows
    <3> QED
      BY <1>0, <1>1, <2>1, <2>2, <3>2, <3>3 DEF PackedWell, r, new, out, cur
  <2>9. CASE cur # <<>>
    <3> DEFINE full == Append(out, cur)
    <3>1. AsItIs(s) = full
      BY <2>9 DEF AsItIs, FlushOf, out, cur
    <3>2. /\ DOMAIN full = DOMAIN out \cup {Len(out) + 1}
          /\ \A k \in DOMAIN out : full[k] = out[k]
          /\ full[Len(out) + 1] = cur
      BY SMTT(30), <1>0, Appended
    <3> HIDE DEF full
    <3>3. Neat(full)
      BY <3>1 DEF PackedWell, out, cur
    <3>4. Neat(AsItIs(r))
      <4> SUFFICES ASSUME NEW k \in DOMAIN AsItIs(r)
                   PROVE  /\ AsItIs(r)[k] # <<>>
                          /\ Len(AsItIs(r)[k]) = 1 \/ WordsOf(AsItIs(r)[k]) <= PassageWords
                          /\ k > 1 => WordsOf(AsItIs(r)[k - 1]) + Head(AsItIs(r)[k]) > PassageWords
        BY DEF Neat
      <4>1. k > 1 => k - 1 \in DOMAIN out
        BY <2>7
      <4>2. CASE k \in DOMAIN out
        <5>1. /\ full[k] # <<>>
              /\ Len(full[k]) = 1 \/ WordsOf(full[k]) <= PassageWords
              /\ k > 1 => WordsOf(full[k - 1]) + Head(full[k]) > PassageWords
          BY <3>2, <3>3, <4>2 DEF Neat
        <5> QED
          BY <2>7, <3>2, <4>1, <4>2, <5>1
      <4>3. CASE k = Len(out) + 1
        <5>1. k > 1 => WordsOf(full[k - 1]) + Head(full[k]) > PassageWords
          BY <3>2, <3>3, <4>3 DEF Neat
        <5>2. AsItIs(r)[k] = new /\ full[k] = cur
          BY <2>7, <3>2, <4>3
        <5>3. k > 1 => AsItIs(r)[k - 1] = full[k - 1]
          BY <2>7, <3>2, <4>1
        <5>4. WordsOf(new) <= PassageWords
          BY <1>0, <1>3, <2>2, <2>9
        <5> QED
          BY <2>2, <2>4, <2>9, <5>1, <5>2, <5>3, <5>4
      <4> QED
        BY <2>7, <4>2, <4>3
    <3>5. Concat(AsItIs(r)) = Append(page, w)
      <4>1. out \in Seq(Seq(Piece)) /\ cur \in Seq(Piece) /\ new \in Seq(Piece) /\ <<w>> \in Seq(Piece)
        <5>1. <<w>> \in Seq(Nat)
          OBVIOUS
        <5> QED
          BY <1>0, <2>2, <5>1, PagesArePieces
      <4>2. Concat(full) = Concat(out) \o cur /\ Concat(AsItIs(r)) = Concat(out) \o new
        BY <2>3, <4>1, ConcatGrows DEF full
      <4>3. Concat(out) \in Seq(Piece)
        BY <4>1, ConcatGrows
      <4>4. (Concat(out) \o cur) \o <<w>> = Concat(out) \o (cur \o <<w>>)
        BY <4>1, <4>3, ConcatAssociative
      <4>5. page \o <<w>> = Append(page, w)
        OBVIOUS
      <4>6. page = Concat(full)
        BY <3>1 DEF PackedWell, out, cur
      <4> QED
        BY <2>6, <4>2, <4>4, <4>5, <4>6
    <3> QED
      BY <1>0, <1>1, <2>1, <2>2, <3>4, <3>5 DEF PackedWell, r, new, out, cur
  <2> QED
    BY <2>8, <2>9
<1> QED
  BY <1>2, <1>3

\* ChunkText: every paragraph of a page, in order, in passages that are neither too
\* long nor too short; and no passage without a paragraph.
LEMMA ChunksKeepThePage ==
    ASSUME NEW page \in Seq(Nat)
    PROVE  /\ ChunkText(page, PassageWords) \in Seq(Seq(Nat))
           /\ Neat(ChunkText(page, PassageWords))
           /\ Concat(ChunkText(page, PassageWords)) = page
           /\ page = <<>> => ChunkText(page, PassageWords) = <<>>
<1>1. ChunkText(page, PassageWords) = AsItIs(Packs!Fold(page))
  BY DEF ChunkText, FoldLeft, MapThenFoldSet, Max, AsItIs, FlushOf, NothingPacked,
         Packs!Fold, Packs!FoldLeft, Packs!MapThenFoldSet, Packs!Max, AddPara
<1>2. NothingPacked \in Packed
  BY DEF NothingPacked, Packed
<1>3. \A s \in Packed, w \in Nat : AddPara(s, w) \in Packed
  BY AddIsTyped
<1>4. PICK f : /\ f[0] = NothingPacked
               /\ \A k \in 1 .. Len(page) : f[k] = AddPara(f[k - 1], page[k])
               /\ Packs!Fold(page) = f[Len(page)]
  BY <1>2, <1>3, Packs!FoldIsALoop
<1> DEFINE Pre(n) == [i \in 1 .. n |-> page[i]]
           Good == {n \in Nat : n <= Len(page) => PackedWell(f[n], Pre(n))}
<1>5. Len(page) \in Nat /\ DOMAIN page = 1 .. Len(page)
  OBVIOUS
<1>6. 0 \in Good
  <2>1. AsItIs(NothingPacked) = <<>>
    BY DEF AsItIs, FlushOf, NothingPacked
  <2>2. Pre(0) = <<>>
    OBVIOUS
  <2>3. Neat(<<>>)
    BY DEF Neat
  <2>4. PackedWell(NothingPacked, <<>>)
    BY <1>2, <2>1, <2>3, WordsAdd, ConcatGrows DEF PackedWell, NothingPacked
  <2> QED
    BY <1>4, <2>2, <2>4
<1>7. ASSUME NEW n \in Nat, n \in Good PROVE n + 1 \in Good
  <2> SUFFICES ASSUME n + 1 <= Len(page) PROVE PackedWell(f[n + 1], Pre(n + 1))
    OBVIOUS
  <2>1. n + 1 \in 1 .. Len(page) /\ (n + 1) - 1 = n /\ n <= Len(page)
    BY <1>5
  <2>2. Pre(n) \in Seq(Nat) /\ page[n + 1] \in Nat /\ Len(Pre(n)) = n
    BY <1>5, <2>1
  <2>3. Pre(n + 1) = Append(Pre(n), page[n + 1])
    BY <2>2
  <2>4. PackedWell(f[n], Pre(n)) /\ f[n + 1] = AddPara(f[n], page[n + 1])
    BY <1>4, <1>7, <2>1
  <2> HIDE DEF Good, Pre
  <2> QED
    BY <2>2, <2>3, <2>4, ParaIsPackedWell
<1>8. Nat \subseteq Good
  <2> HIDE DEF Good
  <2> QED
    BY <1>6, <1>7, Packs!InductionOnASet
<1>9. PackedWell(f[Len(page)], page)
  <2>1. Len(page) \in Good /\ Len(page) <= Len(page)
    BY <1>5, <1>8
  <2>2. Pre(Len(page)) = page
    BY <1>5
  <2> QED
    BY <2>1, <2>2
<1> HIDE DEF Good, Pre
<1>10. page = <<>> => ChunkText(page, PassageWords) = <<>>
  <2>1. page = <<>> => Len(page) = 0
    OBVIOUS
  <2>2. AsItIs(NothingPacked) = <<>>
    BY DEF AsItIs, FlushOf, NothingPacked
  <2> QED
    BY <1>1, <1>4, <2>1, <2>2
<1> QED
  BY <1>1, <1>4, <1>9, <1>10, FlushIsTyped DEF PackedWell

-----------------------------------------------------------------------------
(* The state of a call.                                                    *)

Types ==
    /\ effort \in [Callers -> Efforts \cup {"standard"}]
    /\ mode \in [Callers -> Modes \cup {DefaultMode}]
    /\ results \in [Callers -> SearchResults \cup {<<>>}]
    /\ DOMAIN pages = Callers /\ DOMAIN top = Callers /\ DOMAIN result = Callers
    /\ \A c \in Callers : pages[c] \in [DOMAIN results[c] -> Pages \cup {Pending, Dropped}]

\* The passages a call may choose.
Best(c) == Rankings(Passages(c), Level(effort[c])[2])

\* What a call may return, by what it has.
MayReturn(c, r) ==
    \/ r = Failed("search_error")
    \/ ByModel(c) /\ r = Failed("llm_error")
    \/ ~ ByModel(c) /\ \E ranked \in Best(c) : r = Cited(results[c], Extractive(ranked))
    \/ ByModel(c) /\ \E ranked \in Best(c), used \in SUBSET (0 .. MaxMarker) :
                        r = Cited(results[c], Written(ranked, used))

\* A result is what the call's own pages yield, and is there when the call is done; the
\* model is given passages that can be chosen.
Answered ==
    \A c \in Callers :
        /\ phase[c] = "done" => MayReturn(c, result[c])
        /\ phase[c] # "done" => result[c] = NoResult
        /\ phase[c] = "writing" => ByModel(c) /\ top[c] \in Best(c)
        /\ phase[c] # "writing" => top[c] = <<>>

\* What a search returned is a sequence of records with urls.
LEMMA ResultsAreSequences ==
    ASSUME NEW rs \in SearchResults \cup {<<>>}
    PROVE  /\ Len(rs) \in Nat /\ DOMAIN rs = 1 .. Len(rs)
           /\ \A i \in DOMAIN rs : /\ rs[i] = [url |-> rs[i].url, title |-> rs[i].title]
                                   /\ rs[i].url \in Urls
<1>1. CASE rs = <<>>
  BY <1>1
<1>2. CASE rs \in SearchResults
  <2>1. rs \in Seq(ToSet(rs))
    BY <1>2, ResultsAssumption
  <2>2. Len(rs) \in Nat /\ DOMAIN rs = 1 .. Len(rs)
    BY <2>1
  <2>3. \A i \in DOMAIN rs : i \in Nat
    BY <2>2
  <2>4. \A i \in DOMAIN rs : rs[i].url \in Urls
    BY <1>2, <2>3 DEF Urls
  <2> QED
    BY <1>2, <2>2, <2>4, ResultsAssumption
<1> QED
  BY <1>1, <1>2

\* No step of any call breaks the types of its own variables.
LEMMA TypesAreKept == ASSUME Types, [Next]_vars PROVE Types'
<1>1. CASE UNCHANGED vars
  BY <1>1 DEF vars, Types
<1>2. ASSUME NEW c \in Callers, NEW e \in Efforts, NEW m \in Modes, Call(c, e, m) PROVE Types'
  BY <1>2 DEF Call, Types, ModeOf
<1>3. ASSUME NEW c \in Callers, NEW r, Finish(c, r), UNCHANGED <<effort, mode, results, pages>>
      PROVE  Types'
  BY <1>3 DEF Finish, Types
<1>4. ASSUME NEW c \in Callers, NEW rs \in SearchResults, SearchEnds(c, rs) PROVE Types'
  <2>1. DOMAIN rs = 1 .. Len(rs)
    BY ResultsAreSequences
  <2> QED
    BY <1>4, <2>1 DEF SearchEnds, Types
<1>5. ASSUME NEW c \in Callers, NEW i \in DOMAIN pages[c], NEW page \in Pages \cup {Dropped},
             FetchEnds(c, i, page)
      PROVE  Types'
  <2>1. /\ pages' = [pages EXCEPT ![c][i] = page]
        /\ UNCHANGED <<effort, mode, results, top, result>>
    BY <1>5 DEF FetchEnds
  <2>2. pages'[c] \in [DOMAIN results[c] -> Pages \cup {Pending, Dropped}]
    BY <2>1 DEF Types
  <2> QED
    BY <2>1, <2>2 DEF Types
<1>6. ASSUME NEW c \in Callers, Gather(c) PROVE Types'
  <2>1. CASE \E r : Finish(c, r)
    BY <1>3, <1>6, <2>1 DEF Gather
  <2>2. CASE \E ranked : top' = [top EXCEPT ![c] = ranked] /\ result' = result
    BY <1>6, <2>2 DEF Gather, Types
  <2> QED
    BY <1>6, <2>1, <2>2 DEF Gather
<1> QED
  BY <1>1, <1>2, <1>3, <1>4, <1>5, <1>6
  DEF Next, Work, Search, Fetch, Model, SearchFails, Write, WriteFails

\* What a call may return depends on nothing of other calls.
LEMMA OwnStateDecides ==
    ASSUME NEW c \in Callers, pages'[c] = pages[c], results'[c] = results[c],
           effort'[c] = effort[c], mode'[c] = mode[c]
    PROVE  /\ Best(c)' = Best(c)
           /\ ByModel(c)' <=> ByModel(c)
           /\ \A r : MayReturn(c, r) => MayReturn(c, r)'
<1>1. Passages(c)' = Passages(c)
  BY DEF Passages
<1>2. Best(c)' = Best(c)
  BY <1>1 DEF Best, Level
<1>3. ByModel(c)' <=> ByModel(c)
  BY DEF ByModel
<1> QED
  BY <1>2, <1>3 DEF MayReturn

\* A call may return what its own pages yield; the one it lets in has no result yet.
LEMMA FinishKeepsAnswered ==
    ASSUME Slots, Types, Answered, NEW c \in Callers, NEW r, Running(c), Finish(c, r),
           MayReturn(c, r), UNCHANGED <<effort, mode, results, pages>>
    PROVE  Answered'
<1>1. phase \in [Callers -> Phases] /\ phase[c] \notin {"done", "queued", "idle"}
  BY DEF Slots, Running
<1>2. \A d \in Callers : /\ Best(d)' = Best(d) /\ (ByModel(d)' <=> ByModel(d))
                         /\ \A x : MayReturn(d, x) => MayReturn(d, x)'
  BY OwnStateDecides
<1>3. \A d \in Callers : \/ d = c /\ phase'[d] = "done"
                         \/ d # c /\ phase[d] = "queued" /\ phase'[d] = "searching"
                         \/ d # c /\ phase'[d] = phase[d]
  <2>1. CASE waiters = <<>>
    BY <1>1, <2>1 DEF Finish
  <2>2. CASE waiters # <<>>
    <3>1. waiters[1] \in Queued /\ Head(waiters) = waiters[1]
      BY <2>2, EmptySeq, LenProperties, HeadTailProperties DEF Slots, Waiters
    <3>2. phase' = [phase EXCEPT ![c] = "done", ![Head(waiters)] = "searching"]
      BY <2>2 DEF Finish
    <3> QED
      BY <1>1, <3>1, <3>2 DEF Queued
  <2> QED
    BY <2>1, <2>2
<1>4. /\ result' = [result EXCEPT ![c] = r] /\ top' = [top EXCEPT ![c] = <<>>]
      /\ DOMAIN result = Callers /\ DOMAIN top = Callers
  BY DEF Finish, Types
<1> QED
  BY <1>2, <1>3, <1>4 DEF Answered

\* No step of any call changes what another may return, or returns what its own may
\* not.
LEMMA AnsweredIsKept ==
    ASSUME Slots, Barrier, Types, Answered, [Next]_vars
    PROVE  Answered'
<1>0. phase \in [Callers -> Phases]
  BY DEF Slots
<1>1. CASE UNCHANGED vars
  <2>1. UNCHANGED <<phase, effort, mode, results, pages, top, result>>
    BY <1>1 DEF vars
  <2>2. \A d \in Callers : /\ Best(d)' = Best(d) /\ (ByModel(d)' <=> ByModel(d))
                           /\ \A x : MayReturn(d, x) => MayReturn(d, x)'
    BY <2>1, OwnStateDecides
  <2> QED
    BY <2>1, <2>2 DEF Answered
<1>2. ASSUME NEW c \in Callers, NEW e, NEW m, Call(c, e, m) PROVE Answered'
  <2>1. /\ phase[c] = "idle" /\ phase'[c] \in {"searching", "queued"}
        /\ \A d \in Callers \ {c} : /\ phase'[d] = phase[d] /\ effort'[d] = effort[d]
                                    /\ mode'[d] = mode[d]
        /\ UNCHANGED <<results, pages, top, result>>
    BY <1>0, <1>2 DEF Call, Types
  <2>2. \A d \in Callers \ {c} : /\ Best(d)' = Best(d) /\ (ByModel(d)' <=> ByModel(d))
                                 /\ \A x : MayReturn(d, x) => MayReturn(d, x)'
    BY <2>1, OwnStateDecides
  <2> QED
    BY <2>1, <2>2 DEF Answered
<1>3. ASSUME NEW c \in Callers, SearchFails(c) PROVE Answered'
  BY <1>3, FinishKeepsAnswered DEF SearchFails, Running, MayReturn
<1>4. ASSUME NEW c \in Callers, NEW rs, SearchEnds(c, rs) PROVE Answered'
  <2>1. /\ phase[c] = "searching" /\ phase'[c] = "fetching"
        /\ \A d \in Callers \ {c} : /\ phase'[d] = phase[d] /\ results'[d] = results[d]
                                    /\ pages'[d] = pages[d]
        /\ UNCHANGED <<effort, mode, top, result>>
    BY <1>0, <1>4 DEF SearchEnds, Types
  <2>2. \A d \in Callers \ {c} : /\ Best(d)' = Best(d) /\ (ByModel(d)' <=> ByModel(d))
                                 /\ \A x : MayReturn(d, x) => MayReturn(d, x)'
    BY <2>1, OwnStateDecides
  <2> QED
    BY <2>1, <2>2 DEF Answered
<1>5. ASSUME NEW c \in Callers, NEW i, NEW page, FetchEnds(c, i, page) PROVE Answered'
  <2>1. i \in DOMAIN pages[c] /\ pages[c][i] = Pending
    BY <1>5 DEF FetchEnds
  <2>2. phase[c] = "fetching"
    BY <1>0, <2>1 DEF Barrier, Phases
  <2>3. /\ \A d \in Callers \ {c} : pages'[d] = pages[d]
        /\ UNCHANGED <<phase, effort, mode, results, top, result>>
    BY <1>5 DEF FetchEnds, Types
  <2>4. \A d \in Callers \ {c} : /\ Best(d)' = Best(d) /\ (ByModel(d)' <=> ByModel(d))
                                 /\ \A x : MayReturn(d, x) => MayReturn(d, x)'
    BY <2>3, OwnStateDecides
  <2> QED
    BY <2>2, <2>3, <2>4 DEF Answered
<1>6. ASSUME NEW c \in Callers, Gather(c) PROVE Answered'
  <2>1. PICK ranked \in Best(c) :
          \/ /\ ByModel(c) /\ top' = [top EXCEPT ![c] = ranked]
             /\ phase' = [phase EXCEPT ![c] = "writing"] /\ result' = result
          \/ ~ ByModel(c) /\ Finish(c, Cited(results[c], Extractive(ranked)))
    BY <1>6 DEF Gather, Best
  <2>2. Running(c) /\ phase[c] = "fetching" /\ UNCHANGED <<effort, mode, results, pages>>
    BY <1>6 DEF Gather, Running
  <2>3. CASE ~ ByModel(c) /\ Finish(c, Cited(results[c], Extractive(ranked)))
    BY <2>2, <2>3, FinishKeepsAnswered DEF MayReturn
  <2>4. CASE /\ ByModel(c) /\ top' = [top EXCEPT ![c] = ranked]
             /\ phase' = [phase EXCEPT ![c] = "writing"] /\ result' = result
    <3>1. \A d \in Callers : /\ Best(d)' = Best(d) /\ (ByModel(d)' <=> ByModel(d))
                             /\ \A x : MayReturn(d, x) => MayReturn(d, x)'
      BY <2>2, OwnStateDecides
    <3>2. /\ phase'[c] = "writing" /\ top'[c] = ranked
          /\ \A d \in Callers \ {c} : phase'[d] = phase[d] /\ top'[d] = top[d]
      BY <1>0, <2>4 DEF Types
    <3> QED
      BY <2>1, <2>2, <2>4, <3>1, <3>2 DEF Answered
  <2> QED
    BY <2>1, <2>3, <2>4
<1>7. ASSUME NEW c \in Callers, NEW used \in SUBSET (0 .. MaxMarker), Write(c, used)
      PROVE  Answered'
  <2>1. ByModel(c) /\ top[c] \in Best(c)
    BY <1>7 DEF Write, Answered
  <2>2. MayReturn(c, Cited(results[c], Written(top[c], used)))
    BY <2>1 DEF MayReturn
  <2> QED
    BY <1>7, <2>2, FinishKeepsAnswered DEF Write, Running
<1>8. ASSUME NEW c \in Callers, WriteFails(c) PROVE Answered'
  <2>1. MayReturn(c, Failed("llm_error"))
    BY <1>8 DEF WriteFails, Answered, MayReturn
  <2> QED
    BY <1>8, <2>1, FinishKeepsAnswered DEF WriteFails, Running
<1> QED
  BY <1>1, <1>2, <1>3, <1>4, <1>5, <1>6, <1>7, <1>8 DEF Next, Work, Search, Fetch, Model

\* The inductive invariant holds at first.
LEMMA InitHolds == Init => Slots /\ Barrier /\ Types /\ Answered
<1>1. Init => Types
  BY DEF Init, Types
<1>2. Init => Answered
  BY DEF Init, Answered
<1> QED
  BY <1>1, <1>2, NobodyRunsAtFirst

\* The inductive invariant of the pipeline.
LEMMA ResearchHolds == Spec => [](Slots /\ Barrier /\ Types /\ Answered)
<1>1. Slots /\ Barrier /\ Types /\ Answered /\ [Next]_vars
      => Slots' /\ Barrier' /\ Types' /\ Answered'
  BY SlotsAreKept, BarrierIsKept, TypesAreKept, AnsweredIsKept
<1> QED
  BY <1>1, InitHolds, PTL DEF Spec
-----------------------------------------------------------------------------
(* The passages of a call, and what may be written from them.              *)

\* The results whose page came back with a word.
Fetched(c) == {i \in DOMAIN results[c] : pages[c][i] # Dropped}
FetchedUrls(c) == {results[c][i].url : i \in Fetched(c)}

\* No fetch of the call is under way.
AllIn(c) == \A i \in DOMAIN pages[c] : pages[c][i] # Pending

\* The passages of the i-th result.
PassagesOf(c, i) ==
    [k \in DOMAIN ChunkText(pages[c][i], PassageWords) |-> [url |-> results[c][i].url]]

\* What is known of the results and the pages of a call.
LEMMA PagesOfACall ==
    ASSUME Types, NEW c \in Callers
    PROVE  /\ Len(results[c]) \in Nat
           /\ DOMAIN results[c] = 1 .. Len(results[c]) /\ DOMAIN pages[c] = DOMAIN results[c]
           /\ \A i \in DOMAIN results[c] :
                /\ results[c][i] = [url |-> results[c][i].url, title |-> results[c][i].title]
                /\ results[c][i].url \in Urls
           /\ \A i \in DOMAIN pages[c] :
                /\ pages[c][i] \in Pages \cup {Pending, Dropped}
                /\ pages[c][i] # Pending => pages[c][i] \in Seq(Nat)
<1>1. results[c] \in SearchResults \cup {<<>>}
  BY DEF Types
<1>2. pages[c] \in [DOMAIN results[c] -> Pages \cup {Pending, Dropped}]
  BY DEF Types
<1>3. Dropped \in Seq(Nat)
  BY DEF Dropped
<1>4. \A i \in DOMAIN pages[c] :
        /\ pages[c][i] \in Pages \cup {Pending, Dropped}
        /\ pages[c][i] # Pending => pages[c][i] \in Seq(Nat)
  BY <1>2, <1>3, PagesAssumption
<1>5. DOMAIN pages[c] = DOMAIN results[c]
  BY <1>2
<1> QED
  BY <1>1, <1>4, <1>5, ResultsAreSequences

\* Once every fetch is over, a passage carries the url of a page that came back,
\* and of every such page there is one.
LEMMA PassagesAreFetched ==
    ASSUME Types, NEW c \in Callers, AllIn(c)
    PROVE  /\ Passages(c) \in Seq(Passage)
           /\ \A m \in DOMAIN Passages(c) : Passages(c)[m].url \in FetchedUrls(c)
           /\ \A u \in FetchedUrls(c) : \E m \in DOMAIN Passages(c) : Passages(c)[m].url = u
<1> DEFINE parts == [i \in DOMAIN pages[c] |-> PassagesOf(c, i)]
<1>1. Passages(c) = Concat(parts)
  BY DEF Passages, PassagesOf, AllIn
<1>2. ASSUME NEW i \in DOMAIN pages[c]
      PROVE  /\ PassagesOf(c, i) \in Seq(Passage)
             /\ \A k \in DOMAIN PassagesOf(c, i) : /\ PassagesOf(c, i)[k].url = results[c][i].url
                                                   /\ i \in Fetched(c)
             /\ i \in Fetched(c) => 1 \in DOMAIN PassagesOf(c, i)
  <2> DEFINE chunks == ChunkText(pages[c][i], PassageWords)
  <2>1. pages[c][i] \in Seq(Nat) /\ results[c][i].url \in Urls /\ i \in DOMAIN results[c]
    BY PagesOfACall DEF AllIn
  <2>2. /\ chunks \in Seq(Seq(Nat)) /\ (pages[c][i] = <<>> => chunks = <<>>)
        /\ Concat(chunks) = pages[c][i]
    BY <2>1, ChunksKeepThePage
  <2> HIDE DEF chunks
  <2>3. Len(chunks) \in Nat /\ DOMAIN chunks = 1 .. Len(chunks)
    BY <2>2
  <2>4. PassagesOf(c, i) = [k \in 1 .. Len(chunks) |-> [url |-> results[c][i].url]]
    BY <2>3 DEF PassagesOf, chunks
  <2>5. [url |-> results[c][i].url] \in Passage
    BY <2>1 DEF Passage
  <2>6. PassagesOf(c, i) \in Seq(Passage)
    BY <2>3, <2>4, <2>5
  <2>7. ASSUME NEW k \in DOMAIN PassagesOf(c, i) PROVE i \in Fetched(c)
    <3>1. k \in DOMAIN chunks
      BY <2>3, <2>4
    <3>2. chunks # <<>>
      BY <3>1
    <3> QED
      BY <2>1, <2>2, <3>2 DEF Fetched, Dropped
  <2>8. ASSUME i \in Fetched(c) PROVE 1 \in DOMAIN PassagesOf(c, i)
    <3>1. chunks # <<>>
      BY <2>2, <2>8, ConcatGrows DEF Fetched, Dropped
    <3>2. Len(chunks) # 0
      BY <2>2, <3>1
    <3> QED
      BY <2>3, <2>4, <3>2
  <2> QED
    BY <2>4, <2>6, <2>7, <2>8
<1> HIDE DEF parts
<1>3. /\ DOMAIN parts = DOMAIN pages[c] /\ \A i \in DOMAIN pages[c] : parts[i] = PassagesOf(c, i)
  BY DEF parts
<1>4. parts \in Seq(Seq(Piece))
  <2>1. Seq(Passage) \subseteq Seq(Piece)
    <3>1. Passage \subseteq Piece
      BY DEF Piece
    <3> QED
      BY <3>1
  <2>2. parts = [i \in 1 .. Len(results[c]) |-> parts[i]] /\ Len(results[c]) \in Nat
    BY PagesOfACall DEF parts
  <2>3. \A i \in 1 .. Len(results[c]) : parts[i] \in Seq(Piece)
    BY <1>2, <1>3, <2>1, PagesOfACall
  <2> QED
    BY <2>2, <2>3
<1>5. Concat(parts) \in Seq(Piece)
  BY <1>4, ConcatGrows
<1>6. ASSUME NEW m \in DOMAIN Concat(parts)
      PROVE  Concat(parts)[m] \in Passage /\ Concat(parts)[m].url \in FetchedUrls(c)
  <2>1. PICK i \in DOMAIN parts : \E j \in DOMAIN parts[i] : Concat(parts)[m] = parts[i][j]
    BY <1>4, ConcatIsOfItsParts
  <2>2. PICK j \in DOMAIN parts[i] : Concat(parts)[m] = parts[i][j]
    BY <2>1
  <2>3. i \in DOMAIN pages[c] /\ j \in DOMAIN PassagesOf(c, i) /\ Concat(parts)[m] = PassagesOf(c, i)[j]
    BY <1>3, <2>2
  <2>4. PassagesOf(c, i) \in Seq(Passage)
    BY <1>2, <2>3
  <2>5. PassagesOf(c, i)[j] \in Passage
    BY <2>3, <2>4
  <2> QED
    BY <1>2, <2>3, <2>5 DEF FetchedUrls
<1>7. Concat(parts) \in Seq(Passage)
  <2> DEFINE all == Concat(parts)
  <2>1. all \in Seq(Piece) /\ \A m \in DOMAIN all : all[m] \in Passage
    BY <1>5, <1>6
  <2> HIDE DEF all
  <2>2. all \in Seq(Passage)
    BY <2>1
  <2> QED
    BY <2>2 DEF all
<1>8. ASSUME NEW u \in FetchedUrls(c) PROVE \E m \in DOMAIN Concat(parts) : Concat(parts)[m].url = u
  <2>1. PICK i \in Fetched(c) : results[c][i].url = u
    BY DEF FetchedUrls
  <2>2. i \in DOMAIN pages[c]
    BY PagesOfACall DEF Fetched
  <2>3. i \in DOMAIN parts /\ 1 \in DOMAIN parts[i] /\ parts[i][1].url = u
    BY <1>2, <1>3, <2>1, <2>2
  <2>4. PICK m \in DOMAIN Concat(parts) : Concat(parts)[m] = parts[i][1]
    BY <1>4, <2>3, ConcatHoldsItsParts
  <2> QED
    BY <2>3, <2>4
<1> QED
  BY <1>1, <1>6, <1>7, <1>8

\* Whatever effort is named, the number of passages is one of the table.
LEMMA LevelsAreNumbers == ASSUME NEW e PROVE Level(e)[2] \in Nat
<1>1. \A l \in Nat \X Nat : l[2] \in Nat
  OBVIOUS
<1> QED
  BY <1>1, LevelsAssumption DEF Level

\* The best of the passages, no more than the effort allows.
LEMMA RankedAreFetched ==
    ASSUME Types, NEW c \in Callers, AllIn(c), NEW ranked \in Best(c)
    PROVE  /\ ranked \in Seq(Passage)
           /\ Len(ranked) <= Level(effort[c])[2]
           /\ \A m \in DOMAIN ranked : ranked[m].url \in FetchedUrls(c)
<1> DEFINE ps == Passages(c)
           n == Len(ps)
           most == Level(effort[c])[2]
           k == IF most > n THEN n ELSE most
<1>1. ps \in Seq(Passage) /\ \A m \in DOMAIN ps : ps[m].url \in FetchedUrls(c)
  BY PassagesAreFetched
<1>2. PICK g \in [1 .. k -> 1 .. n] : ranked = [i \in 1 .. k |-> ps[g[i]]]
  BY DEF Best, Rankings
<1>3. most \in Nat
  BY LevelsAreNumbers
<1> HIDE DEF most, ps
<1>4. n \in Nat /\ DOMAIN ps = 1 .. n
  BY <1>1
<1> HIDE DEF n
<1>5. k \in Nat /\ k <= most
  BY <1>3, <1>4
<1> HIDE DEF k
<1>6. \A i \in 1 .. k : ps[g[i]] \in Passage /\ ps[g[i]].url \in FetchedUrls(c)
  BY <1>1, <1>4, <1>2
<1>7. ranked \in Seq(Passage) /\ Len(ranked) = k /\ DOMAIN ranked = 1 .. k
  BY <1>2, <1>5, <1>6
<1> QED
  BY <1>2, <1>5, <1>6, <1>7 DEF most

\* When all passages fit, ranking them loses none.
LEMMA RankingIsComplete ==
    ASSUME Types, NEW c \in Callers, AllIn(c), NEW ranked \in Best(c),
           Len(Passages(c)) <= Level(effort[c])[2]
    PROVE  {ranked[m].url : m \in DOMAIN ranked} = FetchedUrls(c)
<1> DEFINE ps == Passages(c)
           n == Len(ps)
           most == Level(effort[c])[2]
           k == IF most > n THEN n ELSE most
<1>1. /\ ps \in Seq(Passage) /\ \A m \in DOMAIN ps : ps[m].url \in FetchedUrls(c)
      /\ \A u \in FetchedUrls(c) : \E m \in DOMAIN ps : ps[m].url = u
  BY PassagesAreFetched
<1>2. PICK g \in [1 .. k -> 1 .. n] : /\ \A i, j \in 1 .. k : i # j => g[i] # g[j]
                                      /\ ranked = [i \in 1 .. k |-> ps[g[i]]]
  BY DEF Best, Rankings
<1>3. most \in Nat
  BY LevelsAreNumbers
<1> HIDE DEF ps
<1>4. n \in Nat /\ DOMAIN ps = 1 .. n
  BY <1>1
<1>5. k = n
  <2>1. n <= most
    BY DEF ps
  <2> HIDE DEF n, most
  <2> QED
    BY <1>3, <1>4, <2>1
<1> HIDE DEF n, most, k
<1>6. g \in Injection(1 .. n, 1 .. n)
  BY <1>2, <1>5 DEF Injection, IsInjective
<1>7. IsFiniteSet(1 .. n)
  BY <1>4, FS_Interval
<1>8. g \in Surjection(1 .. n, 1 .. n)
  BY <1>6, <1>7, FS_Injection
<1>9. \A m \in 1 .. n : \E i \in 1 .. n : g[i] = m
  BY <1>8 DEF Surjection
<1>10. DOMAIN ranked = 1 .. n /\ \A i \in 1 .. n : g[i] \in 1 .. n /\ ranked[i] = ps[g[i]]
  BY <1>2, <1>5
<1>11. \A i \in DOMAIN ranked : ranked[i].url \in FetchedUrls(c)
  BY <1>1, <1>4, <1>10
<1>12. ASSUME NEW u \in FetchedUrls(c) PROVE \E i \in DOMAIN ranked : ranked[i].url = u
  <2>1. PICK m \in 1 .. n : ps[m].url = u
    BY <1>1, <1>4
  <2>2. PICK i \in 1 .. n : g[i] = m
    BY <1>9
  <2> QED
    BY <1>10, <2>1, <2>2
<1> QED
  BY <1>11, <1>12

\* An answer written from passages: every citation is of a source among them, under
\* its number, and the coverage counts the sources.
Sourced(synth, ps) ==
    /\ synth.citations \in Seq(Citation)
    /\ \A n \in DOMAIN synth.citations :
         /\ synth.citations[n].marker \in DOMAIN DistinctSources(ps)
         /\ synth.citations[n].url = DistinctSources(ps)[synth.citations[n].marker]
    /\ synth.coverage = CoverageFor(Len(DistinctSources(ps)))

\* distinctSources of the passages, as of the citations.
LEMMA DistinctUrls ==
    ASSUME NEW ps \in Seq(Passage) \cup Seq(Citation)
    PROVE  /\ DistinctSources(ps) \in Seq(Urls)
           /\ Distinct(DistinctSources(ps))
           /\ ToSet(DistinctSources(ps)) = {ps[i].url : i \in DOMAIN ps}
           /\ Len(DistinctSources(ps)) \in Nat
           /\ DOMAIN DistinctSources(ps) = 1 .. Len(DistinctSources(ps))
<1>1. ps \in Seq(Passage \cup Citation)
  <2>1. CASE ps \in Seq(Passage)
    BY <2>1
  <2>2. CASE ps \in Seq(Citation)
    BY <2>2
  <2> QED
    BY <2>1, <2>2
<1> DEFINE urls == DistinctSources(ps)
<1>2. urls \in Seq(Urls) /\ Distinct(urls) /\ ToSet(urls) = {ps[i].url : i \in DOMAIN ps}
  BY <1>1, SourcesAreDistinct
<1> HIDE DEF urls
<1>3. Len(urls) \in Nat /\ DOMAIN urls = 1 .. Len(urls)
  BY <1>2
<1> QED
  BY <1>2, <1>3 DEF urls

\* ExtractiveSynthesize cites every source of its passages, in order, and marks no
\* other.
LEMMA ExtractiveIsSourced ==
    ASSUME NEW ps \in Seq(Passage)
    PROVE  /\ Sourced(Extractive(ps), ps)
           /\ Extractive(ps).markers = {Extractive(ps).citations[n].marker : n \in DOMAIN Extractive(ps).citations}
           /\ {Extractive(ps).citations[n].url : n \in DOMAIN Extractive(ps).citations} = ToSet(DistinctSources(ps))
<1> DEFINE urls == DistinctSources(ps)
           cites == [n \in 1 .. Len(urls) |-> Cite(urls, n)]
<1>1. urls \in Seq(Urls) /\ Len(urls) \in Nat /\ DOMAIN urls = 1 .. Len(urls)
  BY DistinctUrls
<1>2. /\ Extractive(ps).citations = cites /\ Extractive(ps).markers = 1 .. Len(urls)
      /\ Extractive(ps).coverage = CoverageFor(Len(urls))
  BY DEF Extractive
<1> HIDE DEF urls
<1>3. \A n \in 1 .. Len(urls) : Cite(urls, n) \in Citation /\ Cite(urls, n) = [marker |-> n, url |-> urls[n]]
  BY <1>1 DEF Cite, Citation
<1>4. cites \in Seq(Citation) /\ DOMAIN cites = 1 .. Len(urls)
  BY <1>1, <1>3
<1>5. \A n \in 1 .. Len(urls) : cites[n].marker = n /\ cites[n].url = urls[n]
  BY <1>3
<1> HIDE DEF cites
<1>6. Sourced(Extractive(ps), ps)
  BY <1>1, <1>2, <1>4, <1>5 DEF Sourced, urls
<1>7. {cites[n].marker : n \in DOMAIN cites} = 1 .. Len(urls)
  BY <1>4, <1>5
<1>8. {cites[n].url : n \in DOMAIN cites} = ToSet(urls)
  BY <1>1, <1>4, <1>5 DEF ToSet
<1> QED
  BY <1>2, <1>6, <1>7, <1>8 DEF urls

\* Synthesize cites those of the numbers the model wrote that name a source.
LEMMA WrittenIsSourced ==
    ASSUME NEW ps \in Seq(Passage), NEW used
    PROVE  Sourced(Written(ps, used), ps)
<1> DEFINE urls == DistinctSources(ps)
           found == [n \in 1 .. Len(urls) |-> IF n \in used THEN <<n>> ELSE <<>>]
           nums == Citable(used, urls)
           cites == [i \in DOMAIN nums |-> Cite(urls, nums[i])]
<1>1. urls \in Seq(Urls) /\ Len(urls) \in Nat /\ DOMAIN urls = 1 .. Len(urls)
  BY DistinctUrls
<1>2. Written(ps, used).citations = cites /\ Written(ps, used).coverage = CoverageFor(Len(urls))
  BY DEF Written
<1>3. nums = Concat(found)
  BY DEF Citable
<1> HIDE DEF urls
<1>4. found \in Seq(Seq(Piece))
  <2>1. \A n \in 1 .. Len(urls) : n \in Piece
    BY DEF Piece
  <2>2. \A n \in 1 .. Len(urls) : found[n] \in Seq(Piece)
    <3>1. \A n \in Piece : <<n>> \in Seq(Piece)
      OBVIOUS
    <3>2. <<>> \in Seq(Piece)
      OBVIOUS
    <3> QED
      BY <2>1, <3>1, <3>2
  <2> QED
    BY <1>1, <2>2
<1>5. \A n \in DOMAIN found : n \in 1 .. Len(urls) /\ \A j \in DOMAIN found[n] : found[n][j] = n
  OBVIOUS
<1> HIDE DEF found, nums
<1>6. nums \in Seq(Piece) /\ \A i \in DOMAIN nums : nums[i] \in 1 .. Len(urls)
  <2>1. nums \in Seq(Piece)
    BY <1>3, <1>4, ConcatGrows
  <2>2. ASSUME NEW i \in DOMAIN nums PROVE nums[i] \in 1 .. Len(urls)
    <3>1. PICK n \in DOMAIN found : \E j \in DOMAIN found[n] : Concat(found)[i] = found[n][j]
      BY <1>3, <1>4, <2>2, ConcatIsOfItsParts
    <3> QED
      BY <1>3, <1>5, <3>1
  <2> QED
    BY <2>1, <2>2
<1>7. Len(nums) \in Nat /\ DOMAIN nums = 1 .. Len(nums)
  BY <1>6
<1>8. \A n \in 1 .. Len(urls) : Cite(urls, n) \in Citation /\ Cite(urls, n) = [marker |-> n, url |-> urls[n]]
  BY <1>1 DEF Cite, Citation
<1>9. cites \in Seq(Citation) /\ DOMAIN cites = DOMAIN nums
  BY <1>6, <1>7, <1>8
<1>10. \A i \in DOMAIN nums : cites[i].marker = nums[i] /\ cites[i].url = urls[nums[i]]
  BY <1>6, <1>8
<1> HIDE DEF cites
<1> QED
  BY <1>1, <1>2, <1>6, <1>9, <1>10 DEF Sourced, urls

\* titleByURL: the title of a url that is among the results is one the search gave it.
LEMMA TitleIsThere ==
    ASSUME Types, NEW c \in Callers, NEW u \in FetchedUrls(c)
    PROVE  \E i \in DOMAIN results[c] :
             results[c][i] = [url |-> u, title |-> TitleOf(results[c], u)]
<1> DEFINE rs == results[c]
           at == {i \in DOMAIN rs : rs[i].url = u}
           last == CHOOSE i \in at : \A j \in at : j <= i
<1>1. DOMAIN rs = 1 .. Len(rs) /\ Len(rs) \in Nat
  BY PagesOfACall
<1>2. at \in SUBSET (1 .. Len(rs)) /\ at # {}
  BY <1>1 DEF FetchedUrls, Fetched
<1>3. TitleOf(rs, u) = rs[last].title
  BY DEF TitleOf
<1> HIDE DEF rs
<1>4. \E i \in at : \A j \in at : j <= i
  <2> HIDE DEF at
  <2>1. Sources!Max(at) \in at /\ \A j \in at : j <= Sources!Max(at)
    BY <1>1, <1>2, Sources!MaxIsThere
  <2> QED
    BY <2>1
<1>5. last \in at
  BY <1>4
<1>6. last \in DOMAIN rs /\ rs[last].url = u
  BY <1>5
<1> HIDE DEF at, last
<1>7. rs[last] = [url |-> rs[last].url, title |-> rs[last].title]
  BY <1>6, PagesOfACall DEF rs
<1> QED
  BY <1>3, <1>6, <1>7 DEF rs

\* What an answer of a call was written from, and how.
LEMMA AnswersAreSourced ==
    ASSUME Slots, Barrier, Types, Answered, NEW c \in Callers, result[c].status = "ok"
    PROVE  \E ps, synth :
             /\ ps \in Seq(Passage)
             /\ result[c] = Cited(results[c], synth)
             /\ Sourced(synth, ps)
             /\ \A m \in DOMAIN ps : ps[m].url \in FetchedUrls(c)
             /\ ~ ByModel(c) => synth = Extractive(ps) /\ ps \in Best(c)
<1>1. phase[c] = "done"
  BY DEF Answered, NoResult
<1>2. MayReturn(c, result[c]) /\ AllIn(c)
  BY <1>1 DEF Answered, Barrier, AllIn
<1>3. result[c] # Failed("search_error") /\ result[c] # Failed("llm_error")
  BY DEF Failed
<1>4. CASE ~ ByModel(c) /\ \E ranked \in Best(c) : result[c] = Cited(results[c], Extractive(ranked))
  <2>1. PICK ranked \in Best(c) : result[c] = Cited(results[c], Extractive(ranked))
    BY <1>4
  <2>2. ranked \in Seq(Passage) /\ \A m \in DOMAIN ranked : ranked[m].url \in FetchedUrls(c)
    BY <1>2, RankedAreFetched
  <2>3. Sourced(Extractive(ranked), ranked)
    BY <2>2, ExtractiveIsSourced
  <2> QED
    BY <2>1, <2>2, <2>3
<1>5. CASE ByModel(c) /\ \E ranked \in Best(c), used \in SUBSET (0 .. MaxMarker) :
                           result[c] = Cited(results[c], Written(ranked, used))
  <2>1. PICK ranked \in Best(c), used \in SUBSET (0 .. MaxMarker) :
               result[c] = Cited(results[c], Written(ranked, used))
    BY <1>5
  <2>2. ranked \in Seq(Passage) /\ \A m \in DOMAIN ranked : ranked[m].url \in FetchedUrls(c)
    BY <1>2, RankedAreFetched
  <2>3. Sourced(Written(ranked, used), ranked)
    BY <2>2, WrittenIsSourced
  <2> QED
    BY <1>5, <2>1, <2>2, <2>3
<1> QED
  BY <1>2, <1>3, <1>4, <1>5 DEF MayReturn

\* CitationsAreFetchedSources, of one answer.
Honest(c, r) ==
    /\ \A n \in DOMAIN r.citations : \E i \in Fetched(c) :
         results[c][i].url = r.citations[n].url
    /\ \A n \in DOMAIN r.citations : \E i \in DOMAIN results[c] :
         results[c][i] = [url |-> r.citations[n].url, title |-> r.citations[n].title]
    /\ {r.sources[n].url : n \in DOMAIN r.sources} = {r.citations[n].url : n \in DOMAIN r.citations}
    /\ IsInjective([n \in DOMAIN r.sources |-> r.sources[n].url])

\* The citations of an answer are of urls that came back, and the sources are the
\* distinct ones among them.
LEMMA CitedIsFetched ==
    ASSUME Types, NEW c \in Callers, NEW ps \in Seq(Passage), NEW synth, Sourced(synth, ps),
           \A m \in DOMAIN ps : ps[m].url \in FetchedUrls(c)
    PROVE  Honest(c, Cited(results[c], synth))
<1> DEFINE cites == synth.citations
           urls == DistinctSources(cites)
           r == Cited(results[c], synth)
<1>1. cites \in Seq(Citation)
  BY DEF Sourced
<1>2. \A n \in DOMAIN cites : cites[n].url \in FetchedUrls(c)
  <2> DEFINE from == DistinctSources(ps)
  <2>1. ToSet(from) = {ps[m].url : m \in DOMAIN ps}
    BY DistinctUrls
  <2>2. \A n \in DOMAIN cites : cites[n].marker \in DOMAIN from /\ cites[n].url = from[cites[n].marker]
    BY DEF Sourced
  <2> HIDE DEF from, cites
  <2>3. \A n \in DOMAIN cites : cites[n].url \in ToSet(from)
    BY <2>2 DEF ToSet
  <2> QED
    BY <2>1, <2>3
<1>3. /\ Distinct(urls) /\ ToSet(urls) = {cites[n].url : n \in DOMAIN cites}
      /\ Len(urls) \in Nat /\ DOMAIN urls = 1 .. Len(urls)
  BY <1>1, DistinctUrls
<1>4. /\ DOMAIN r.citations = DOMAIN cites
      /\ \A n \in DOMAIN cites : /\ r.citations[n].url = cites[n].url
                                 /\ r.citations[n].title = TitleOf(results[c], cites[n].url)
      /\ DOMAIN r.sources = DOMAIN urls
      /\ \A n \in DOMAIN urls : r.sources[n].url = urls[n]
  BY DEF Cited
<1> HIDE DEF cites, urls, r
<1>5. \A n \in DOMAIN r.citations : \E i \in Fetched(c) : results[c][i].url = r.citations[n].url
  BY <1>2, <1>4 DEF FetchedUrls
<1>6. ASSUME NEW n \in DOMAIN r.citations
      PROVE  \E i \in DOMAIN results[c] :
               results[c][i] = [url |-> r.citations[n].url, title |-> r.citations[n].title]
  <2>1. PICK i \in DOMAIN results[c] :
               results[c][i] = [url |-> cites[n].url, title |-> TitleOf(results[c], cites[n].url)]
    BY <1>2, <1>4, TitleIsThere
  <2> QED
    BY <1>4, <2>1
<1>7. {r.sources[n].url : n \in DOMAIN r.sources} = {r.citations[n].url : n \in DOMAIN r.citations}
  <2>1. {r.sources[n].url : n \in DOMAIN r.sources} = ToSet(urls)
    BY <1>4 DEF ToSet
  <2>2. {r.citations[n].url : n \in DOMAIN r.citations} = {cites[n].url : n \in DOMAIN cites}
    BY <1>4
  <2> QED
    BY <1>3, <2>1, <2>2
<1>8. IsInjective([n \in DOMAIN r.sources |-> r.sources[n].url])
  BY <1>3, <1>4 DEF IsInjective, Distinct
<1> QED
  BY <1>5, <1>6, <1>7, <1>8 DEF Honest, r

\* Provenance (pipeline.go:97, :118-121), for any results, any pages, any ranking of
\* their passages and anything the model writes: a citation is of a source this call
\* fetched, under a title the search gave it, and the sources are the cited urls, each
\* once.
THEOREM CitationsAreBacked == Spec => []CitationsAreFetchedSources
<1>1. ASSUME Slots, Barrier, Types, Answered PROVE CitationsAreFetchedSources
  <2> SUFFICES ASSUME NEW c \in Callers, result[c].status = "ok"
               PROVE  Honest(c, result[c])
    BY DEF CitationsAreFetchedSources, Honest, Fetched
  <2>1. PICK ps, synth :
               /\ ps \in Seq(Passage)
               /\ result[c] = Cited(results[c], synth)
               /\ Sourced(synth, ps)
               /\ \A m \in DOMAIN ps : ps[m].url \in FetchedUrls(c)
    BY <1>1, AnswersAreSourced
  <2> QED
    BY <1>1, <2>1, CitedIsFetched
<1> QED
  BY <1>1, ResearchHolds, PTL

\* pipeline.go:79-92, for any results, pages and number of goroutines: where the level
\* has room for all passages, the sources of an extractive answer are exactly the urls
\* whose fetch brought a page.  What the goroutines wrote is read after the last of
\* them (Barrier), every page is in its passages, and a ranking of no more passages
\* than are kept is a permutation.
THEOREM PagesAreNotLost == Spec => []NoPageIsLost
<1>1. ASSUME Slots, Barrier, Types, Answered PROVE NoPageIsLost
  <2> SUFFICES ASSUME NEW c \in Callers, result[c].status = "ok", ~ ByModel(c),
                      Len(Passages(c)) <= Level(effort[c])[2]
               PROVE  {result[c].sources[n].url : n \in DOMAIN result[c].sources} = FetchedUrls(c)
    <3>1. \A d \in Callers : DOMAIN pages[d] = DOMAIN results[d]
      BY <1>1, PagesOfACall
    <3> QED
      BY <3>1 DEF NoPageIsLost, FetchedUrls, Fetched
  <2>1. AllIn(c)
    <3>1. phase[c] = "done"
      BY <1>1 DEF Answered, NoResult
    <3> QED
      BY <1>1, <3>1 DEF Barrier, AllIn
  <2>2. PICK ps, synth :
               /\ ps \in Seq(Passage)
               /\ result[c] = Cited(results[c], synth)
               /\ Sourced(synth, ps)
               /\ \A m \in DOMAIN ps : ps[m].url \in FetchedUrls(c)
               /\ synth = Extractive(ps) /\ ps \in Best(c)
    BY <1>1, AnswersAreSourced
  <2>3. {ps[m].url : m \in DOMAIN ps} = FetchedUrls(c)
    BY <1>1, <2>1, <2>2, RankingIsComplete
  <2>4. {synth.citations[n].url : n \in DOMAIN synth.citations} = FetchedUrls(c)
    <3>1. ToSet(DistinctSources(ps)) = {ps[m].url : m \in DOMAIN ps}
      BY <2>2, DistinctUrls
    <3>2. {Extractive(ps).citations[n].url : n \in DOMAIN Extractive(ps).citations} = ToSet(DistinctSources(ps))
      BY <2>2, ExtractiveIsSourced
    <3> QED
      BY <2>2, <2>3, <3>1, <3>2
  <2>5. Honest(c, result[c])
    BY <1>1, <2>2, CitedIsFetched
  <2>6. {result[c].citations[n].url : n \in DOMAIN result[c].citations} =
        {synth.citations[n].url : n \in DOMAIN synth.citations}
    <3> DEFINE cites == synth.citations
               r == Cited(results[c], synth)
    <3>1. /\ DOMAIN r.citations = DOMAIN cites
          /\ \A n \in DOMAIN cites : r.citations[n].url = cites[n].url
      BY DEF Cited
    <3> HIDE DEF cites, r
    <3>2. {r.citations[n].url : n \in DOMAIN r.citations} = {cites[n].url : n \in DOMAIN cites}
      BY <3>1
    <3> QED
      BY <2>2, <3>2 DEF cites, r
  <2> QED
    BY <2>4, <2>5, <2>6 DEF Honest
<1> QED
  BY <1>1, ResearchHolds, PTL

\* How many different urls came back.
LEMMA FetchedAreCounted ==
    ASSUME Types, NEW c \in Callers
    PROVE  IsFiniteSet(FetchedUrls(c))
<1> DEFINE n == Len(results[c])
           rs == results[c]
<1>1. 1 \in Int /\ n \in Int /\ DOMAIN rs = 1 .. n
  BY PagesOfACall
<1> HIDE DEF n
<1>2. IsFiniteSet(1 .. n)
  BY <1>1, FS_Interval
<1>3. Fetched(c) \subseteq 1 .. n
  BY <1>1 DEF Fetched
<1>4. IsFiniteSet(Fetched(c))
  BY <1>2, <1>3, FS_Subset
<1> DEFINE url == [i \in Fetched(c) |-> rs[i].url]
<1>5. url \in Surjection(Fetched(c), FetchedUrls(c))
  <2>1. url \in [Fetched(c) -> FetchedUrls(c)] /\ \A u \in FetchedUrls(c) : \E i \in Fetched(c) : url[i] = u
    BY DEF FetchedUrls
  <2> HIDE DEF url
  <2> QED
    BY <2>1 DEF Surjection
<1> QED
  BY <1>4, <1>5, FS_Surjection

\* coverageFor (extractive.go) claims no more sources than were fetched, and for an
\* extractive answer as many as it lists: "high (>=3) / medium (2) / low (<=1)".
THEOREM CoverageIsEarned == Spec => []CoverageIsBacked
<1>1. ASSUME Slots, Barrier, Types, Answered PROVE CoverageIsBacked
  <2> SUFFICES ASSUME NEW c \in Callers, result[c].status = "ok"
               PROVE  /\ result[c].coverage = "high" => Cardinality(FetchedUrls(c)) >= 3
                      /\ result[c].coverage = "medium" => Cardinality(FetchedUrls(c)) >= 2
                      /\ ~ ByModel(c) => result[c].coverage =
                            IF Len(result[c].sources) >= 3 THEN "high"
                            ELSE IF Len(result[c].sources) = 2 THEN "medium" ELSE "low"
    BY DEF CoverageIsBacked, FetchedUrls, Fetched
  <2>1. PICK ps, synth :
               /\ ps \in Seq(Passage)
               /\ result[c] = Cited(results[c], synth)
               /\ Sourced(synth, ps)
               /\ \A m \in DOMAIN ps : ps[m].url \in FetchedUrls(c)
               /\ ~ ByModel(c) => synth = Extractive(ps)
    BY <1>1, AnswersAreSourced
  <2> DEFINE urls == DistinctSources(ps)
             cited == DistinctSources(synth.citations)
  <2>2. /\ urls \in Seq(Urls) /\ Distinct(urls) /\ Len(urls) \in Nat
        /\ ToSet(urls) = {ps[m].url : m \in DOMAIN ps}
    BY <2>1, DistinctUrls
  <2>3. ToSet(urls) \subseteq FetchedUrls(c)
    BY <2>1, <2>2
  <2>4. result[c].coverage = CoverageFor(Len(urls))
    <3>1. Cited(results[c], synth).coverage = synth.coverage
      BY DEF Cited
    <3> QED
      BY <2>1, <3>1 DEF Sourced
  <2>5. Len(result[c].sources) = Len(cited)
    <3>1. synth.citations \in Seq(Citation)
      BY <2>1 DEF Sourced
    <3>2. Len(cited) \in Nat /\ DOMAIN cited = 1 .. Len(cited)
      BY <3>1, DistinctUrls
    <3>3. Cited(results[c], synth).sources =
             [n \in DOMAIN cited |-> [url |-> cited[n], title |-> TitleOf(results[c], cited[n])]]
      BY DEF Cited
    <3> HIDE DEF cited
    <3> QED
      BY <2>1, <3>2, <3>3
  <2>6. ~ ByModel(c) => Len(cited) = Len(urls)
    <3> SUFFICES ASSUME ~ ByModel(c) PROVE Len(cited) = Len(urls)
      OBVIOUS
    <3>1. synth = Extractive(ps) /\ synth.citations \in Seq(Citation)
      BY <2>1 DEF Sourced
    <3>2. /\ cited \in Seq(Urls) /\ Distinct(cited)
          /\ ToSet(cited) = {synth.citations[n].url : n \in DOMAIN synth.citations}
      BY <3>1, DistinctUrls
    <3>3. ToSet(cited) = ToSet(urls)
      BY <2>1, <3>1, <3>2, ExtractiveIsSourced
    <3> HIDE DEF cited, urls
    <3> QED
      BY <2>2, <3>2, <3>3, DistinctIsCounted
  <2> HIDE DEF urls, cited
  <2>7. Cardinality(FetchedUrls(c)) >= Len(urls) /\ Cardinality(FetchedUrls(c)) \in Nat
    <3>1. IsFiniteSet(FetchedUrls(c)) /\ Cardinality(ToSet(urls)) = Len(urls)
      BY <1>1, <2>2, FetchedAreCounted, DistinctIsCounted
    <3>2. Cardinality(ToSet(urls)) <= Cardinality(FetchedUrls(c)) /\ Cardinality(FetchedUrls(c)) \in Nat
      BY <2>3, <3>1, FS_Subset, FS_CardinalityType
    <3> QED
      BY <2>2, <3>1, <3>2
  <2>8. /\ CoverageFor(Len(urls)) = "high" => Len(urls) >= 3
        /\ CoverageFor(Len(urls)) = "medium" => Len(urls) = 2
    BY <2>2 DEF CoverageFor
  <2> QED
    BY SMTT(30), <2>2, <2>4, <2>5, <2>6, <2>7, <2>8 DEF CoverageFor
<1> QED
  BY <1>1, ResearchHolds, PTL

\* "A blocked/empty source is dropped, not fatal" (pipeline.go:80): without the model
\* a call whose search worked is answered, and each marker of the answer resolves.
THEOREM SourcesAreDroppedNotFatal == Spec => []ExtractiveAlwaysAnswers
<1>1. ASSUME Slots, Barrier, Types, Answered PROVE ExtractiveAlwaysAnswers
  <2> SUFFICES ASSUME NEW c \in Callers, phase[c] = "done", ~ ByModel(c)
               PROVE  /\ result[c].status = "search_error" \/ result[c].status = "ok"
                      /\ result[c].status = "ok" =>
                           result[c].markers = {result[c].citations[n].marker : n \in DOMAIN result[c].citations}
    BY DEF ExtractiveAlwaysAnswers
  <2>1. MayReturn(c, result[c])
    BY <1>1 DEF Answered
  <2>2. CASE result[c] = Failed("search_error")
    BY <2>2 DEF Failed
  <2>3. CASE \E ranked \in Best(c) : result[c] = Cited(results[c], Extractive(ranked))
    <3>1. result[c].status = "ok"
      BY <2>3 DEF Cited
    <3>2. PICK ps, synth :
                 /\ ps \in Seq(Passage)
                 /\ result[c] = Cited(results[c], synth) /\ synth = Extractive(ps)
      BY <1>1, <3>1, AnswersAreSourced
    <3> DEFINE r == Cited(results[c], synth)
               cites == synth.citations
    <3>3. /\ r.markers = synth.markers /\ DOMAIN r.citations = DOMAIN cites
          /\ \A n \in DOMAIN cites : r.citations[n].marker = cites[n].marker
      BY DEF Cited
    <3>4. synth.markers = {cites[n].marker : n \in DOMAIN cites}
      BY <3>2, ExtractiveIsSourced
    <3> HIDE DEF r, cites
    <3>5. r.markers = {r.citations[n].marker : n \in DOMAIN r.citations}
      BY <3>3, <3>4
    <3> QED
      BY <3>1, <3>2, <3>5 DEF r
  <2> QED
    BY <2>1, <2>2, <2>3 DEF MayReturn
<1> QED
  BY <1>1, ResearchHolds, PTL

\* ChunkText (chunk.go:10-11) on every page a call reads, whatever the lengths of its
\* paragraphs: nothing is lost, nothing is twice, and each passage is as full as it may be.
THEOREM PagesAreKept == Spec => []PassagesKeepThePage
<1>1. ASSUME Types PROVE PassagesKeepThePage
  <2> SUFFICES ASSUME NEW c \in Callers, NEW i \in DOMAIN pages[c], pages[c][i] # Pending
               PROVE  /\ Concat(ChunkText(pages[c][i], PassageWords)) = pages[c][i]
                      /\ Neat(ChunkText(pages[c][i], PassageWords))
    BY ZenonT(30) DEF PassagesKeepThePage, Neat, WordsOf
  <2>1. pages[c][i] \in Seq(Nat)
    BY <1>1, PagesOfACall
  <2> QED
    BY <2>1, ChunksKeepThePage
<1> QED
  BY <1>1, ResearchHolds, PTL

\* The variables are what the code's are: above all, the queue of the semaphore and
\* the number of passages the model is given.
THEOREM TypeCorrect == Spec => []TypeOK
<1>1. ASSUME Slots, Barrier, Types, Answered PROVE TypeOK
  <2>1. /\ inUse \in 0 .. Cap /\ waiters \in Seq(Callers)
        /\ phase \in [Callers -> {"idle", "queued", "searching", "fetching", "writing", "done"}]
    BY <1>1, CapAssumption DEF Slots, Phases
  <2>2. ASSUME NEW c \in Callers
        PROVE  /\ DOMAIN pages[c] = DOMAIN results[c]
               /\ \A i \in DOMAIN pages[c] : pages[c][i] \in Pages \cup {Pending, Dropped}
    BY <1>1, PagesOfACall
  <2>3. ASSUME NEW c \in Callers PROVE Len(top[c]) <= Level(effort[c])[2]
    <3>1. CASE phase[c] = "writing"
      <4>1. top[c] \in Best(c) /\ AllIn(c)
        BY <1>1, <3>1 DEF Answered, Barrier, AllIn
      <4> QED
        BY <1>1, <4>1, RankedAreFetched
    <3>2. CASE phase[c] # "writing"
      <4>1. top[c] = <<>> /\ Len(<<>>) = 0
        BY <1>1, <3>2 DEF Answered
      <4>2. Level(effort[c])[2] \in Nat
        BY LevelsAreNumbers
      <4> QED
        BY <4>1, <4>2
    <3> QED
      BY <3>1, <3>2
  <2>4. ASSUME NEW c \in Callers
        PROVE  result[c].status \in {"none", "ok", "search_error", "llm_error"}
    <3>1. CASE phase[c] # "done"
      BY <1>1, <3>1 DEF Answered, NoResult
    <3>2. CASE phase[c] = "done"
      <4>1. MayReturn(c, result[c])
        BY <1>1, <3>2 DEF Answered
      <4>2. \A rs, synth : Cited(rs, synth).status = "ok"
        BY DEF Cited
      <4>3. \A s : Failed(s).status = s
        BY DEF Failed
      <4> QED
        BY <4>1, <4>2, <4>3 DEF MayReturn
    <3> QED
      BY <3>1, <3>2
  <2> QED
    BY <1>1, <2>1, <2>2, <2>3, <2>4 DEF TypeOK, Types
<1> QED
  BY <1>1, ResearchHolds, PTL
=============================================================================
