---------------------------- MODULE ServerProofs ----------------------------
(***************************************************************************)
(* Proofs about the process that serves one client: what the environment   *)
(* and .env become in the settings, the engines and the server, whatever   *)
(* the user wrote; what a fetch returns and how every failure is told to   *)
(* the client; when the model is asked; and how the results of a search    *)
(* are ranked, whatever the engine sent.                                   *)
(*                                                                         *)
(* The loops of the code (over the lines of .env, the engines with a key,  *)
(* the entries of a payload and the links of a page) are left folds, read  *)
(* item by item through FoldingProofs.                                     *)
(***************************************************************************)
EXTENDS Server, SequenceTheorems, TLAPS

\* A line of .env as godotenv reads it; and an environment.
Line == [shape: STRING, key: STRING, val: STRING]
Map == UNION {[D -> STRING] : D \in SUBSET STRING}

\* The body of parseDotEnv's loop, and of the composition of engines.
AddLine(out, l) ==
    IF Start!Defines(l) THEN Start!Over([k \in {l.key} |-> l.val], out) ELSE out

AddEngine(engines, e) == IF Start!Joins(e) THEN Append(engines, e.name) ELSE engines

Lines == INSTANCE FoldingProofs WITH Step <- AddLine, Base <- <<>>, Outs <- Map, Elems <- Line

\* The engines that need a credential, and how they are joined to the others.
Keyed == Start!Keyed
Members == INSTANCE FoldingProofs
           WITH Step <- AddEngine, Base <- Start!AlwaysOn, Outs <- Seq(Start!Names),
                Elems <- {Keyed[i] : i \in DOMAIN Keyed}

\* What Append does, of any element.
LEMMA Appended ==
    ASSUME NEW S, NEW s \in Seq(S), NEW x \in S
    PROVE  /\ Append(s, x) \in Seq(S) /\ Len(s) \in Nat
           /\ Len(Append(s, x)) = Len(s) + 1 /\ Len(s) + 1 \notin DOMAIN s
           /\ DOMAIN s = 1 .. Len(s) /\ DOMAIN Append(s, x) = DOMAIN s \cup {Len(s) + 1}
           /\ \A i \in DOMAIN s : Append(s, x)[i] = s[i]
           /\ Append(s, x)[Len(s) + 1] = x
<1>1. Len(s) \in Nat /\ DOMAIN s = 1 .. Len(s) /\ Append(s, x) \in Seq(S)
  OBVIOUS
<1>2. Len(Append(s, x)) = Len(s) + 1 /\ DOMAIN Append(s, x) = 1 .. Len(s) + 1
  OBVIOUS
<1> QED
  BY <1>1, <1>2

\* A definition more leaves an environment.
LEMMA OverIsAMap ==
    ASSUME NEW f \in Map, NEW k \in STRING, NEW v \in STRING
    PROVE  Start!Over([j \in {k} |-> v], f) \in Map
<1>1. \E X \in {[D -> STRING] : D \in SUBSET STRING} : f \in X
  BY Zenon DEF Map
<1>2. PICK D \in SUBSET STRING : f \in [D -> STRING]
  BY <1>1, Zenon
<1>3. Start!Over([j \in {k} |-> v], f) \in [D \cup {k} -> STRING]
  BY <1>2 DEF Start!Over
<1>4. D \cup {k} \in SUBSET STRING
  OBVIOUS
<1>5. [D \cup {k} -> STRING] \in {[E -> STRING] : E \in SUBSET STRING}
  BY <1>4, Zenon
<1> QED
  BY <1>3, <1>5, Zenon DEF Map

\* An environment may be empty.
LEMMA NothingIsAMap == <<>> \in Map
<1>1. <<>> \in [{} -> STRING]
  OBVIOUS
<1>2. [{} -> STRING] \in {[E -> STRING] : E \in SUBSET STRING}
  BY Zenon
<1> QED
  BY <1>1, <1>2, Zenon DEF Map

\* parseDotEnv's loop.
LEMMA ParsedLineByLine ==
    ASSUME NEW lines \in Seq(Line)
    PROVE  \E f : /\ f[0] = <<>>
                  /\ \A k \in 1 .. Len(lines) : f[k] = AddLine(f[k - 1], lines[k])
                  /\ Start!Parsed(lines) = f[Len(lines)]
<1>1. Start!Parsed(lines) = Lines!Fold(lines)
  BY DEF Start!Parsed, Start!FoldLeft, Start!MapThenFoldSet, Start!Max,
         Lines!Fold, Lines!FoldLeft, Lines!MapThenFoldSet, Lines!Max, AddLine
<1>2. \A out \in Map, l \in Line : AddLine(out, l) \in Map
  BY OverIsAMap DEF AddLine, Line
<1> QED
  BY <1>1, <1>2, NothingIsAMap, Lines!FoldIsALoop

\* Line i defines k, and so far none after it does.
Latest(lines, k, i, n) ==
    /\ i \in 1 .. n
    /\ Start!Defines(lines[i]) /\ lines[i].key = k
    /\ \A j \in 1 .. n : Start!Defines(lines[j]) /\ lines[j].key = k => j <= i

\* What .env gives a key is what its latest defining line gives it; no other key is
\* given one.
LEMMA ParsedKeepsTheLatest ==
    ASSUME NEW lines \in Seq(Line), NEW k
    PROVE  /\ k \in DOMAIN Start!Parsed(lines) =>
                \E i : Latest(lines, k, i, Len(lines)) /\ Start!Parsed(lines)[k] = lines[i].val
           /\ k \notin DOMAIN Start!Parsed(lines) =>
                \A i \in 1 .. Len(lines) : ~ (Start!Defines(lines[i]) /\ lines[i].key = k)
<1>1. PICK f : /\ f[0] = <<>>
               /\ \A n \in 1 .. Len(lines) : f[n] = AddLine(f[n - 1], lines[n])
               /\ Start!Parsed(lines) = f[Len(lines)]
  BY ParsedLineByLine
<1> DEFINE Has(n) == k \in DOMAIN f[n] => \E i : Latest(lines, k, i, n) /\ f[n][k] = lines[i].val
           Lacks(n) == k \notin DOMAIN f[n] =>
                          \A i \in 1 .. n : ~ (Start!Defines(lines[i]) /\ lines[i].key = k)
           Good == {n \in Nat : n <= Len(lines) => Has(n) /\ Lacks(n)}
<1>2. 0 \in Good
  BY <1>1
<1>3. ASSUME NEW n \in Nat, n \in Good PROVE n + 1 \in Good
  <2> SUFFICES ASSUME n + 1 <= Len(lines) PROVE Has(n + 1) /\ Lacks(n + 1)
    OBVIOUS
  <2>1. /\ n + 1 \in 1 .. Len(lines) /\ (n + 1) - 1 = n /\ n <= Len(lines)
        /\ n + 1 \in Nat /\ n + 1 \notin 1 .. n /\ 1 .. n + 1 = 1 .. n \cup {n + 1}
    OBVIOUS
  <2>2. f[n + 1] = AddLine(f[n], lines[n + 1]) /\ Has(n) /\ Lacks(n)
    BY <1>1, <1>3, <2>1
  <2>3. CASE Start!Defines(lines[n + 1]) /\ lines[n + 1].key = k
    <3>1. k \in DOMAIN f[n + 1] /\ f[n + 1][k] = lines[n + 1].val
      BY <2>2, <2>3 DEF AddLine, Start!Over
    <3>2. Latest(lines, k, n + 1, n + 1)
      BY <2>1, <2>3 DEF Latest
    <3> QED
      BY <3>1, <3>2
  <2>4. CASE ~ (Start!Defines(lines[n + 1]) /\ lines[n + 1].key = k)
    <3>1. /\ k \in DOMAIN f[n + 1] <=> k \in DOMAIN f[n]
          /\ k \in DOMAIN f[n] => f[n + 1][k] = f[n][k]
      BY <2>2, <2>4 DEF AddLine, Start!Over
    <3>2. \A i : Latest(lines, k, i, n) => Latest(lines, k, i, n + 1)
      BY <2>1, <2>4 DEF Latest
    <3> QED
      BY <2>1, <2>2, <2>4, <3>1, <3>2
  <2> QED
    BY <2>3, <2>4
<1>4. Nat \subseteq Good
  <2> HIDE DEF Good
  <2> QED
    BY <1>2, <1>3, Lines!InductionOnASet
<1> QED
  BY <1>1, <1>4

\* A key the process was not given takes its value from .env.
LEMMA EffectOfTheFile ==
    ASSUME NEW k, NEW lines \in Seq(Line), dotenv = lines, dotenv # NoFile,
           ~ (k \in DOMAIN given /\ given[k] # Start!Unset)
    PROVE  Start!InEffect(k) =
               IF k \in DOMAIN Start!Parsed(lines) THEN Start!Parsed(lines)[k] ELSE Start!Unset
<1> DEFINE defining == {i \in DOMAIN lines : Start!Defines(lines[i]) /\ lines[i].key = k}
<1>0. DOMAIN lines = 1 .. Len(lines) /\ Len(lines) \in Nat
  OBVIOUS
<1>1. Start!InEffect(k) = IF defining = {} THEN Start!Unset
                          ELSE lines[CHOOSE i \in defining : \A j \in defining : j <= i].val
  BY DEF Start!InEffect
<1>2. CASE k \in DOMAIN Start!Parsed(lines)
  <2>1. PICK i : Latest(lines, k, i, Len(lines)) /\ Start!Parsed(lines)[k] = lines[i].val
    BY <1>2, ParsedKeepsTheLatest
  <2>2. i \in defining /\ \A j \in defining : j <= i
    BY <1>0, <2>1 DEF Latest
  <2>3. \A h \in defining : (\A j \in defining : j <= h) => h = i
    BY <1>0, <2>2
  <2> HIDE DEF defining
  <2>4. i = CHOOSE h \in defining : \A j \in defining : j <= h
    BY <2>2, <2>3
  <2> QED
    BY <1>1, <1>2, <2>1, <2>2, <2>4
<1>3. CASE k \notin DOMAIN Start!Parsed(lines)
  <2>1. defining = {}
    BY <1>0, <1>3, ParsedKeepsTheLatest
  <2> QED
    BY <1>1, <1>3, <2>1
<1> QED
  BY <1>2, <1>3

\* The environment is what InEffect says, once .env has been loaded.
LEMMA LoadingSettles ==
    ASSUME dotenv \in Files, environ = given, Start!LoadDotEnv
    PROVE  \A k : Start!Getenv(k)' = Start!InEffect(k)
<1> SUFFICES ASSUME NEW k PROVE Start!Getenv(k)' = Start!InEffect(k)
  OBVIOUS
<1> DEFINE out == IF dotenv = NoFile THEN <<>> ELSE Start!Parsed(dotenv)
           gaps == {j \in DOMAIN out : Start!Getenv(j) = Start!Unset}
<1>1. environ' = Start!Over([j \in gaps |-> out[j]], given)
  BY DEF Start!LoadDotEnv
<1>2. DOMAIN environ' = gaps \cup DOMAIN given
  BY <1>1 DEF Start!Over
<1>3. \A j \in DOMAIN environ' : environ'[j] = IF j \in gaps THEN out[j] ELSE given[j]
  BY <1>1 DEF Start!Over
<1>4. k \in gaps <=> k \in DOMAIN out /\ ~ (k \in DOMAIN given /\ given[k] # Start!Unset)
  BY DEF Start!Getenv
<1> HIDE DEF gaps
<1>5. Start!Getenv(k)' = IF k \in gaps THEN out[k]
                         ELSE IF k \in DOMAIN given THEN given[k] ELSE Start!Unset
  BY <1>2, <1>3 DEF Start!Getenv
<1>6. CASE k \in DOMAIN given /\ given[k] # Start!Unset
  BY <1>4, <1>5, <1>6 DEF Start!InEffect
<1>7. CASE ~ (k \in DOMAIN given /\ given[k] # Start!Unset)
  <2>1. Start!Getenv(k)' = IF k \in DOMAIN out THEN out[k] ELSE Start!Unset
    BY <1>4, <1>5, <1>7
  <2>2. CASE dotenv = NoFile
    <3>1. Start!InEffect(k) = Start!Unset
      BY <1>7, <2>2 DEF Start!InEffect
    <3> QED
      BY <2>1, <2>2, <3>1
  <2>3. CASE dotenv # NoFile
    <3>1. dotenv \in Seq(Line)
      BY <2>3, FilesAssumption DEF Line
    <3> QED
      BY <1>7, <2>1, <2>3, <3>1, EffectOfTheFile
  <2> QED
    BY <2>2, <2>3
<1> QED
  BY <1>6, <1>7

-----------------------------------------------------------------------------
(* From the environment to the settings and the engines.                   *)

\* What Config.FromEnv makes of a key that has a default: a text, or a number.
TextOf(k, default) == IF Start!InEffect(k) # Start!Unset THEN Start!InEffect(k) ELSE default

NumberOf(k, default) ==
    IF Start!InEffect(k) \in DOMAIN Atoi THEN Atoi[Start!InEffect(k)] ELSE default

\* Config.FromEnv has read what is in effect.
Read ==
    /\ settings.provider = TextOf("SEARCH_PROVIDER", "roundrobin")
    /\ settings.credentials =
           [k \in Start!Credentials |->
               TextOf(k, IF k = "MARGINALIA_API_KEY" THEN "public" ELSE Start!Unset)]
    /\ settings.transport = TextOf("MCP_TRANSPORT", "stdio")
    /\ settings.synthesis = TextOf("RESEARCH_SYNTHESIS", "simple")
    /\ settings.maxConcurrent = NumberOf("MAX_CONCURRENT_RESEARCH", 2)
    /\ settings.dynamic \in BOOLEAN
    /\ settings.dynamic <=> Start!InEffect("DYNAMIC_ENABLED") \notin {"0", "false", "no", "off"}
    /\ settings.threshold \in Thresholds
    /\ settings.threshold = NumberOf("DYNAMIC_THRESHOLD", 50)

\* The engines whose every credential is in effect.
Ready == {Keyed[i].name : i \in
             {j \in DOMAIN Keyed : \A k \in Keyed[j].needs : Start!InEffect(k) # Start!Unset}}

\* Nothing occurs twice.
Distinct(seq) == \A i, j \in DOMAIN seq : seq[i] = seq[j] => i = j

\* The six engines that need a credential, as providers.go lists them.
LEMMA KeyedEngines ==
    /\ Keyed \in Seq({Keyed[i] : i \in DOMAIN Keyed}) /\ Len(Keyed) = 6 /\ DOMAIN Keyed = 1 .. 6
    /\ \A i \in 1 .. 6 : /\ Keyed[i].name \in Start!Names \ {"ddg", "marginalia"}
                         /\ Keyed[i].needs \subseteq Start!Credentials \ {"MARGINALIA_API_KEY"}
    /\ \A i, j \in 1 .. 6 : Keyed[i].name = Keyed[j].name => i = j
<1>1. Len(Keyed) = 6 /\ DOMAIN Keyed = 1 .. 6 /\ Keyed \in Seq({Keyed[i] : i \in DOMAIN Keyed})
  <2>1. Len(Keyed) = 6 /\ DOMAIN Keyed = 1 .. 6 /\ Keyed = [i \in 1 .. 6 |-> Keyed[i]]
    BY DEF Keyed, Start!Keyed
  <2> QED
    BY <2>1
<1>2. /\ Keyed[1] = [name |-> "tavily", needs |-> {"TAVILY_API_KEY"}]
      /\ Keyed[2] = [name |-> "exa", needs |-> {"EXA_API_KEY"}]
      /\ Keyed[3] = [name |-> "serpapi", needs |-> {"SERPAPI_API_KEY"}]
      /\ Keyed[4] = [name |-> "serper", needs |-> {"SERPER_API_KEY"}]
      /\ Keyed[5] = [name |-> "mojeek", needs |-> {"MOJEEK_API_KEY"}]
      /\ Keyed[6] = [name |-> "google_cse", needs |-> {"GOOGLE_API_KEY", "GOOGLE_CSE_ID"}]
  BY DEF Keyed, Start!Keyed
<1>3. \A i \in 1 .. 6 : i = 1 \/ i = 2 \/ i = 3 \/ i = 4 \/ i = 5 \/ i = 6
  OBVIOUS
<1>4. \A i \in 1 .. 6 : Keyed[i].name \in Start!Names
  BY <1>1 DEF Keyed, Start!Names
<1>5. \A i \in 1 .. 6 : Keyed[i].name \notin {"ddg", "marginalia"}
  BY <1>2, <1>3
<1>6. \A i \in 1 .. 6 : Keyed[i].needs \subseteq Start!Credentials \ {"MARGINALIA_API_KEY"}
  BY <1>2, <1>3 DEF Start!Credentials
<1>7. \A i, j \in 1 .. 6 : Keyed[i].name = Keyed[j].name => i = j
  BY <1>2, <1>3
<1> QED
  BY <1>1, <1>4, <1>5, <1>6, <1>7

\* buildRoundRobin's appends.
LEMMA ComposedOneByOne ==
    \E f : /\ f[0] = Start!AlwaysOn
           /\ \A k \in 1 .. 6 : f[k] = AddEngine(f[k - 1], Keyed[k])
           /\ \A k \in 0 .. 6 : f[k] \in Seq(Start!Names)
           /\ Start!Composed = f[6]
<1>1. Start!Composed = Members!Fold(Keyed)
  BY DEF Start!Composed, Start!FoldLeft, Start!MapThenFoldSet, Start!Max, Keyed,
         Members!Fold, Members!FoldLeft, Members!MapThenFoldSet, Members!Max, AddEngine
<1>2. Start!AlwaysOn \in Seq(Start!Names)
  <2>1. \A i \in DOMAIN Start!AlwaysOn : Start!AlwaysOn[i] \in Start!Names
    BY DEF Start!Names, Start!ToSet
  <2> QED
    BY <2>1 DEF Start!AlwaysOn
<1>3. \A out \in Seq(Start!Names), item \in {Keyed[i] : i \in DOMAIN Keyed} :
          AddEngine(out, item) \in Seq(Start!Names)
  BY KeyedEngines DEF AddEngine
<1> QED
  BY ZenonT(30), <1>1, <1>2, <1>3, KeyedEngines, Members!FoldIsALoop

\* What is in the composite after n of the six, when the free engines are in it
\* from the start.
Joined(engines, n) ==
    /\ engines \in Seq(Start!Names)
    /\ ToSet(engines) = {"ddg", "marginalia"} \cup
                        {Keyed[i].name : i \in {j \in 1 .. n : Start!Joins(Keyed[j])}}
    /\ Distinct(engines)

\* The composition has gone through all six.
LEMMA ComposedIsJoined == Joined(Start!Composed, 6)
<1>1. PICK f : /\ f[0] = Start!AlwaysOn
               /\ \A k \in 1 .. 6 : f[k] = AddEngine(f[k - 1], Keyed[k])
               /\ \A k \in 0 .. 6 : f[k] \in Seq(Start!Names)
               /\ Start!Composed = f[6]
  BY ComposedOneByOne
<1>2. Joined(f[0], 0)
  <2>1. ToSet(Start!AlwaysOn) = {"ddg", "marginalia"} /\ Distinct(Start!AlwaysOn)
    BY DEF Start!AlwaysOn, ToSet, Distinct
  <2> QED
    BY <1>1, <2>1 DEF Joined
<1>3. ASSUME NEW n \in 0 .. 5, Joined(f[n], n) PROVE Joined(f[n + 1], n + 1)
  <2>1. /\ n + 1 \in 1 .. 6 /\ (n + 1) - 1 = n /\ n + 1 \in 0 .. 6
        /\ 1 .. n + 1 = 1 .. n \cup {n + 1} /\ n + 1 \notin 1 .. n /\ 1 .. n \subseteq 1 .. 6
    OBVIOUS
  <2>2. f[n + 1] = AddEngine(f[n], Keyed[n + 1]) /\ f[n + 1] \in Seq(Start!Names)
    BY <1>1, <2>1
  <2>3. CASE ~ Start!Joins(Keyed[n + 1])
    <3>1. {j \in 1 .. n + 1 : Start!Joins(Keyed[j])} = {j \in 1 .. n : Start!Joins(Keyed[j])}
      BY <2>1, <2>3
    <3> QED
      BY <1>3, <2>2, <2>3, <3>1 DEF AddEngine, Joined
  <2>4. CASE Start!Joins(Keyed[n + 1])
    <3> DEFINE s == f[n]
               name == Keyed[n + 1].name
    <3>0. s \in Seq(Start!Names) /\ name \in Start!Names
      BY <1>3, <2>1, KeyedEngines DEF Joined
    <3>1. /\ f[n + 1] = Append(s, name)
          /\ DOMAIN f[n + 1] = DOMAIN s \cup {Len(s) + 1} /\ Len(s) + 1 \notin DOMAIN s
          /\ \A i \in DOMAIN s : f[n + 1][i] = s[i]
          /\ f[n + 1][Len(s) + 1] = name
      <4>1. f[n + 1] = Append(s, name)
        BY <2>2, <2>4 DEF AddEngine
      <4> HIDE DEF s, name
      <4> QED
        BY <3>0, <4>1, Appended
    <3>2. {j \in 1 .. n + 1 : Start!Joins(Keyed[j])} =
              {j \in 1 .. n : Start!Joins(Keyed[j])} \cup {n + 1}
      BY <2>1, <2>4
    <3>3. ToSet(f[n + 1]) = ToSet(s) \cup {name}
      BY <3>0, <3>1 DEF ToSet
    <3>4. name \notin ToSet(s)
      <4>1. name \notin {"ddg", "marginalia"}
        BY <2>1, KeyedEngines
      <4>2. \A j \in 1 .. n : Keyed[j].name # name
        BY <2>1, KeyedEngines
      <4> QED
        BY <1>3, <4>1, <4>2 DEF Joined
    <3>5. Distinct(f[n + 1])
      <4>1. \A i \in DOMAIN s : s[i] # name
        BY <3>4 DEF ToSet
      <4> QED
        BY <1>3, <3>0, <3>1, <4>1 DEF Joined, Distinct
    <3> QED
      BY <1>3, <2>2, <3>2, <3>3, <3>5 DEF Joined
  <2> QED
    BY <2>3, <2>4
<1>4. Joined(f[1], 1) /\ Joined(f[2], 2) /\ Joined(f[3], 3)
  <2>1. Joined(f[0 + 1], 0 + 1)
    BY <1>2, <1>3
  <2>2. Joined(f[1 + 1], 1 + 1)
    BY <1>3, <2>1
  <2>3. Joined(f[2 + 1], 2 + 1)
    BY <1>3, <2>2
  <2> QED
    BY <2>1, <2>2, <2>3
<1>5. Joined(f[6], 6)
  <2>1. Joined(f[3 + 1], 3 + 1)
    BY <1>3, <1>4
  <2>2. Joined(f[4 + 1], 4 + 1)
    BY <1>3, <2>1
  <2>3. Joined(f[5 + 1], 5 + 1)
    BY <1>3, <2>2
  <2> QED
    BY <2>3
<1> QED
  BY <1>1, <1>5

\* With the settings read, the engines composed are the two open ones and those with
\* every credential, each once.
LEMMA ComposedIsReady ==
    ASSUME Read
    PROVE  /\ ToSet(Start!Composed) = {"ddg", "marginalia"} \cup Ready
           /\ Distinct(Start!Composed)
           /\ ToSet(Start!Composed) \subseteq Start!Names
<1>1. \A k \in Start!Credentials \ {"MARGINALIA_API_KEY"} :
          settings.credentials[k] = Start!InEffect(k)
  BY DEF Read, TextOf
<1>2. \A j \in 1 .. 6 : Start!Joins(Keyed[j]) <=>
                        \A k \in Keyed[j].needs : Start!InEffect(k) # Start!Unset
  BY <1>1, KeyedEngines DEF Start!Joins
<1>3. {Keyed[i].name : i \in {j \in 1 .. 6 : Start!Joins(Keyed[j])}} = Ready
  BY <1>2, KeyedEngines DEF Ready
<1>4. ToSet(Start!Composed) \subseteq Start!Names
  BY ComposedIsJoined DEF Joined, ToSet
<1> QED
  BY <1>3, <1>4, ComposedIsJoined DEF Joined

-----------------------------------------------------------------------------
(* The start of the process.                                               *)

\* What the start rests on.
Built ==
    LET provider == settings.provider
        engines == wired.engines
    IN  /\ wired.cap = Start!Cap /\ wired.over = Start!Served
        /\ provider = "roundrobin" => ToSet(engines) = {"ddg", "marginalia"} \cup Ready
        /\ provider # "roundrobin" => engines = <<provider>> /\ provider \in Start!Names
        /\ Distinct(engines)
        /\ ToSet(engines) \subseteq Start!Names
        /\ defaultSynthesis = settings.synthesis
        /\ renderer = settings.dynamic
        /\ renderer => threshold = settings.threshold

\* What is known of the process by how far main has come.
Started ==
    /\ given \in Environments /\ dotenv \in Files
    /\ main \in {"loading", "reading", "building", "serving", "failed"}
    /\ main = "loading" => environ = given
    /\ main = "reading" => \A k : Start!Getenv(k) = Start!InEffect(k)
    /\ main \in {"loading", "reading"} => settings = Start!NoSettings
    /\ main \in {"building", "serving", "failed"} => Read
    /\ main = "serving" => Built
    /\ main # "serving" => /\ wired = [engines |-> <<>>, cap |-> 0, over |-> "nothing"]
                           /\ defaultSynthesis = "simple"
    /\ main = "failed" => settings.provider \notin Start!Names \cup {"roundrobin"}

\* What is in effect depends on the process and on .env alone;
LEMMA EffectIsFixed == ASSUME given' = given, dotenv' = dotenv
                       PROVE  \A k : Start!InEffect(k)' = Start!InEffect(k)
BY DEF Start!InEffect

\* so does whether the settings are those read from it,
LEMMA ReadIsFixed == ASSUME UNCHANGED <<given, dotenv, settings>> PROVE Read' <=> Read
BY EffectIsFixed DEF Read, TextOf, NumberOf

\* and which engines have their credentials.
LEMMA ReadyIsFixed == ASSUME UNCHANGED <<given, dotenv>> PROVE Ready' = Ready
BY EffectIsFixed DEF Ready

\* A flag read from the environment is a Boolean.
LEMMA FlagIsABoolean == ASSUME NEW k, NEW d \in BOOLEAN PROVE Start!Flag(k, d) \in BOOLEAN
BY Zenon DEF Start!Flag

\* What is neither yes nor no is the default, a yes for the browser.
LEMMA BrowserUnlessSwitchedOff ==
    ASSUME NEW k, Start!Getenv(k) = Start!InEffect(k)
    PROVE  Start!Flag(k, TRUE) <=> Start!InEffect(k) \notin {"0", "false", "no", "off"}
BY DEF Start!Flag

\* No call changes how the fetcher is wired.
LEMMA FetcherIsWiredOnce == Serve => UNCHANGED fetcher
<1>1. Fetching => UNCHANGED fetcher
  BY Zenon DEF Fetching, FetchStep, GetFails, GetPage, Render
<1>2. \A n : CallFetch(n) => UNCHANGED fetcher
  BY Zenon DEF CallFetch, Fetch
<1> QED
  BY Zenon, <1>1, <1>2 DEF Serve, Call, Work, CallSearch, CallResearch, ReplyFetch, EngineFails,
     EngineGarbles, BreakersOpen, EngineAnswers, ModelFails, ResearchEnds

\* No step of main, and none of a call, breaks it.
LEMMA StartedIsKept == ASSUME Started, [Next]_vars PROVE Started'
<1>1. CASE Start!LoadDotEnv /\ UNCHANGED <<wiring, calling>>
  <2>1. /\ main = "loading" /\ main' = "reading" /\ environ = given /\ dotenv \in Files
        /\ UNCHANGED <<given, dotenv, settings, wired, defaultSynthesis>>
    BY <1>1 DEF Start!LoadDotEnv, Started, wiring
  <2>2. \A k : Start!Getenv(k)' = Start!InEffect(k)'
    BY <1>1, <2>1, LoadingSettles, EffectIsFixed
  <2>3. Start!NoSettings' = Start!NoSettings
    BY DEF Start!NoSettings
  <2> QED
    BY <2>1, <2>2, <2>3 DEF Started
<1>2. CASE Start!FromEnv /\ UNCHANGED <<wiring, calling>>
  <2>1. /\ main = "reading" /\ main' = "building"
        /\ \A k : Start!Getenv(k) = Start!InEffect(k)
        /\ UNCHANGED <<given, dotenv, environ, wired, defaultSynthesis>>
    BY <1>2 DEF Start!FromEnv, Started, wiring
  <2>2. \A k, d : /\ Start!Text(k, d) = TextOf(k, d)
                  /\ Start!Number(k, d) = NumberOf(k, d)
    BY <2>1 DEF Start!Text, Start!Number, TextOf, NumberOf
  <2>3. \A k, d : /\ TextOf(k, d)' = TextOf(k, d)
                  /\ NumberOf(k, d)' = NumberOf(k, d)
    BY <2>1, EffectIsFixed DEF TextOf, NumberOf
  <2>4. \A k : NumberOf(k, 50) \in Thresholds
    BY AtoiAssumption DEF NumberOf
  <2>5. /\ settings'.dynamic = Start!Flag("DYNAMIC_ENABLED", TRUE)
        /\ settings'.threshold = Start!Number("DYNAMIC_THRESHOLD", 50)
    BY <1>2 DEF Start!FromEnv
  <2>6. settings'.dynamic <=> Start!InEffect("DYNAMIC_ENABLED")' \notin {"0", "false", "no", "off"}
    BY <2>1, <2>5, BrowserUnlessSwitchedOff, EffectIsFixed
  <2>7. Read'
    BY <1>2, <2>2, <2>3, <2>4, <2>6, FlagIsABoolean DEF Start!FromEnv, Read
  <2> QED
    BY <2>1, <2>7 DEF Started
<1>3. CASE Wire
  <2>1. /\ main = "building" /\ Read /\ defaultSynthesis = "simple"
        /\ UNCHANGED <<given, dotenv, environ, settings>>
    BY <1>3 DEF Wire, Start!Build, Started
  <2>2. Read' /\ Ready' = Ready /\ Start!Cap' = Start!Cap /\ Start!Served' = Start!Served
    BY <2>1, ReadIsFixed, ReadyIsFixed DEF Start!Cap, Start!Served
  <2>3. CASE main' = "failed"
    <3>1. /\ settings.provider \notin Start!Names \cup {"roundrobin"}
          /\ UNCHANGED <<wired, defaultSynthesis>>
      BY <1>3, <2>3 DEF Wire, Start!Build, wiring
    <3> QED
      BY <2>1, <2>2, <2>3, <3>1 DEF Started
  <2>4. CASE main' = "serving"
    <3>1. /\ defaultSynthesis' = settings.synthesis
          /\ renderer' = settings.dynamic
          /\ settings.dynamic => threshold' = settings.threshold
      BY <1>3, <2>4 DEF Wire
    <3>2. \/ /\ settings.provider = "roundrobin"
             /\ wired'.engines = Start!Composed
          \/ /\ settings.provider \in Start!Names
             /\ wired'.engines = <<settings.provider>>
      BY <1>3, <2>4 DEF Wire, Start!Build, Start!Wiring
    <3>3. "roundrobin" \notin Start!Names
      <4>1. Start!Names = {"ddg", "marginalia"} \cup {Keyed[i].name : i \in 1 .. 6}
        BY KeyedEngines DEF Start!Names, Start!AlwaysOn, Start!ToSet, Keyed
      <4>2. \A i \in 1 .. 6 : Keyed[i].name # "roundrobin"
        <5>1. \A i \in 1 .. 6 : i = 1 \/ i = 2 \/ i = 3 \/ i = 4 \/ i = 5 \/ i = 6
          OBVIOUS
        <5> QED
          BY <5>1 DEF Keyed, Start!Keyed
      <4> QED
        BY <4>1, <4>2
    <3>4. wired'.cap = Start!Cap /\ wired'.over = Start!Served
      BY <1>3, <2>4 DEF Wire, Start!Build, Start!Wiring
    <3>5. Built'
      BY <2>1, <2>2, <3>1, <3>2, <3>3, <3>4, ComposedIsReady DEF Built, Distinct, ToSet
    <3> QED
      BY <2>1, <2>2, <2>4, <3>5 DEF Started
  <2> QED
    BY <1>3, <2>3, <2>4 DEF Wire, Start!Build
<1>4. CASE UNCHANGED <<starting, wiring>>
  <2>1. /\ UNCHANGED <<given, dotenv, environ, settings, wired, main>>
        /\ UNCHANGED <<defaultSynthesis, renderer, threshold>>
    BY <1>4 DEF starting, wiring, fetcher
  <2>2. (Read' <=> Read) /\ Ready' = Ready /\ \A k : Start!InEffect(k)' = Start!InEffect(k)
    BY <2>1, ReadIsFixed, ReadyIsFixed, EffectIsFixed
  <2>3. Built' <=> Built
    BY <2>1, <2>2 DEF Built, Start!Cap, Start!Served, Distinct, ToSet
  <2> QED
    BY <2>1, <2>2, <2>3 DEF Started, Start!Getenv
<1>5. Serve => UNCHANGED <<starting, wiring>>
  BY FetcherIsWiredOnce DEF Serve, wiring
<1> QED
  BY <1>1, <1>2, <1>3, <1>4, <1>5 DEF Next, Configure, vars

\* It is an invariant.
LEMMA StartHolds == Spec => []Started
<1>1. Init => Started
  BY DEF Init, Start!Init, Started
<1> QED
  BY <1>1, StartedIsKept, PTL DEF Spec

\* The environment wins, .env fills its gaps, and what is wired has the engines, the
\* transport, the cap over HTTP, the default synthesis, the browser and the fatal
\* error that follow (dotenv.go:8-10, build.go:41-42, main.go:30-77): for every
\* environment and every file.  The cap of a start that serves over stdio under any
\* other text than that name is left open (OnlyServersAreCapped).
THEOREM WiringFollows == Spec => []WiringFollowsTheUser
<1>1. Started => WiringFollowsTheUser
  <2> SUFFICES ASSUME Started PROVE WiringFollowsTheUser
    OBVIOUS
  <2> DEFINE provider == IF Start!InEffect("SEARCH_PROVIDER") = Start!Unset
                         THEN "roundrobin" ELSE Start!InEffect("SEARCH_PROVIDER")
             transport == Start!InEffect("MCP_TRANSPORT")
             number == Start!InEffect("MAX_CONCURRENT_RESEARCH")
             engines == wired.engines
             synthesisInEffect == Start!InEffect("RESEARCH_SYNTHESIS")
             thin == Start!InEffect("DYNAMIC_THRESHOLD")
  <2>1. main \in {"serving", "failed"} => provider = settings.provider
    BY DEF Started, Read, TextOf
  <2>2. main = "failed" => provider \notin Start!Names \cup {"roundrobin"}
    BY <2>1 DEF Started
  <2>3. ASSUME main = "serving"
        PROVE  /\ provider = "roundrobin" => Start!ToSet(engines) = {"ddg", "marginalia"} \cup Ready
               /\ provider # "roundrobin" => engines = <<provider>> /\ provider \in Start!Names
               /\ \A i, j \in DOMAIN engines : engines[i] = engines[j] => i = j
    BY <2>1, <2>3 DEF Started, Built, Distinct, ToSet, Start!ToSet
  <2>4. ASSUME main = "serving"
        PROVE  /\ wired.over = "http" <=> transport \in {"http", "streamable-http"}
               /\ wired.over = "http" =>
                     wired.cap = IF number \notin DOMAIN Atoi THEN 2
                                 ELSE IF Atoi[number] > 0 THEN Atoi[number] ELSE 0
               /\ transport \in {Start!Unset, "stdio"} => wired.over = "stdio" /\ wired.cap = 0
    <3>1. Built /\ Read
      BY <2>4 DEF Started
    <3>2. settings.transport = IF transport # Start!Unset THEN transport ELSE "stdio"
      BY <3>1 DEF Read, TextOf
    <3>3. settings.maxConcurrent = IF number \in DOMAIN Atoi THEN Atoi[number] ELSE 2
      BY <3>1 DEF Read, NumberOf
    <3> HIDE DEF transport, number
    <3>4. Start!Unset \notin {"stdio", "http", "streamable-http"}
      BY Zenon DEF Start!Unset
    <3> QED
      BY <3>1, <3>2, <3>3, <3>4 DEF Built, Start!Cap, Start!Served
  <2>5. Ready = {Start!Keyed[i].name : i \in
                   {j \in DOMAIN Start!Keyed :
                      \A k \in Start!Keyed[j].needs : Start!InEffect(k) # Start!Unset}}
    BY DEF Ready, Keyed
  <2>6. ASSUME main = "serving"
        PROVE  /\ defaultSynthesis = IF synthesisInEffect = Unset THEN "simple" ELSE synthesisInEffect
               /\ renderer <=> Start!InEffect("DYNAMIC_ENABLED") \notin {"0", "false", "no", "off"}
               /\ renderer => threshold = IF thin \in DOMAIN Atoi THEN Atoi[thin] ELSE 50
    <3>1. Built /\ Read
      BY <2>6 DEF Started
    <3>2. defaultSynthesis = IF synthesisInEffect = Unset THEN "simple" ELSE synthesisInEffect
      <4>1. Start!Unset = Unset
        BY Zenon DEF Start!Unset, Unset
      <4> QED
        BY <3>1, <4>1 DEF Built, Read, TextOf
    <3>3. renderer <=> Start!InEffect("DYNAMIC_ENABLED") \notin {"0", "false", "no", "off"}
      BY <3>1 DEF Built, Read
    <3>4. renderer => threshold = IF thin \in DOMAIN Atoi THEN Atoi[thin] ELSE 50
      BY <3>1 DEF Built, Read, NumberOf
    <3> QED
      BY <3>2, <3>3, <3>4
  <2> HIDE DEF provider, transport, number
  <2>7. Start!WiringFollowsTheUser
    BY <2>2, <2>3, <2>4, <2>5 DEF Start!WiringFollowsTheUser, provider, transport, number
  <2> QED
    BY <2>6, <2>7, Zenon DEF WiringFollowsTheUser
<1> QED
  BY <1>1, StartHolds, PTL

\* What is in effect is a text of the process or of .env, or unset.
LEMMA EffectIsText ==
    ASSUME dotenv \in Files, NEW k
    PROVE  Start!InEffect(k) \in Start!Texts
<1>1. CASE k \in DOMAIN given /\ given[k] # Start!Unset
  BY <1>1 DEF Start!InEffect, Start!Texts
<1>2. CASE ~ (k \in DOMAIN given /\ given[k] # Start!Unset) /\ dotenv = NoFile
  BY <1>2 DEF Start!InEffect, Start!Texts
<1>3. CASE ~ (k \in DOMAIN given /\ given[k] # Start!Unset) /\ dotenv # NoFile
  <2>1. dotenv \in Seq(Line)
    BY <1>3, FilesAssumption DEF Line
  <2>2. \/ Start!InEffect(k) = Start!Unset
        \/ \E i : Latest(dotenv, k, i, Len(dotenv)) /\ Start!InEffect(k) = dotenv[i].val
    BY <1>3, <2>1, EffectOfTheFile, ParsedKeepsTheLatest
  <2> QED
    BY <1>3, <2>1, <2>2 DEF Start!Texts, Latest
<1> QED
  BY <1>1, <1>2, <1>3

\* What main hands the server is of the types the server wants.
LEMMA StartedIsTyped ==
    ASSUME Started
    PROVE  /\ ToSet(wired.engines) \subseteq Start!Names /\ wired.cap \in Nat
           /\ wired.over \in {"nothing", "stdio", "http"}
           /\ settings.credentials \in [Start!Credentials -> {"public"} \cup Start!Texts]
           /\ defaultSynthesis \in {"simple"} \cup Start!Texts
<1>1. \A k : Start!InEffect(k) \in Start!Texts
  BY EffectIsText DEF Started
<1>2. Start!Unset \in Start!Texts
  BY DEF Start!Texts
<1>3. \A k : NumberOf(k, 2) \in Int
  <2>1. \A text \in DOMAIN Atoi : Atoi[text] \in Int
    BY AtoiAssumption
  <2> QED
    BY <2>1 DEF NumberOf
<1>4. CASE main \in {"loading", "reading"}
  <2>1. ToSet(<<>>) = {}
    BY DEF ToSet
  <2> QED
    BY <1>2, <1>4, <2>1 DEF Started, Start!NoSettings
<1>5. CASE main \in {"building", "serving", "failed"}
  <2>1. Read
    BY <1>5 DEF Started
  <2>2. settings.credentials \in [Start!Credentials -> {"public"} \cup Start!Texts]
    BY <1>1, <1>2, <2>1 DEF Read, TextOf
  <2>3. settings.synthesis \in {"simple"} \cup Start!Texts
    BY <1>1, <2>1 DEF Read, TextOf
  <2>4. Start!Cap \in Nat
    BY <1>3, <2>1 DEF Read, Start!Cap
  <2>5. CASE main = "serving"
    BY <2>2, <2>3, <2>4, <2>5 DEF Started, Built, Start!Served
  <2>6. CASE main # "serving"
    <3>1. ToSet(<<>>) = {}
      BY DEF ToSet
    <3> QED
      BY <2>2, <2>6, <3>1 DEF Started
  <2> QED
    BY <2>5, <2>6
<1> QED
  BY <1>4, <1>5 DEF Started

-----------------------------------------------------------------------------
(* A call.                                                                 *)

\* What the fetcher knows at each of its stages.
Fetched ==
    /\ renderer \in BOOLEAN /\ threshold \in Int
    /\ stage \in {"idle", "getting", "rendering", "done"}
    /\ stage = "getting" => heard = Silence
    /\ stage \in {"idle", "getting"} => static = None /\ rendered = None /\ outcome = Nothing
    /\ stage \in {"rendering", "done"} =>
          \/ /\ stage = "done" /\ static = None /\ rendered = None
             /\ heard \in Failures /\ outcome = Fails(ErrorOf(heard))
          \/ /\ KindOf(heard.status) = "ok" /\ heard.broke = "no"
             /\ static \in {Empty} \cup Words
             /\ \/ /\ stage = "rendering" /\ rendered = None /\ outcome = Nothing
                   /\ renderer /\ ShouldEscalate(static)
                \/ /\ stage = "done" /\ rendered = None
                   /\ ~ (renderer /\ ShouldEscalate(static))
                   /\ outcome = Extracted(static)
                \/ /\ stage = "done" /\ rendered \in {Failed, Empty} \cup Words
                   /\ outcome = IF Better(rendered) THEN Page(rendered, "dynamic")
                                ELSE Extracted(static)

\* What is known of a call before and after its reply.
Called ==
    /\ tool \in {"none", "web_fetch", "web_search", "web_research"}
    /\ tool # "none" => main = "serving"
    /\ tool = "none" => reply = NoReply
    /\ tool # "web_fetch" => stage = "idle"
    /\ tool = "web_fetch" => stage # "idle" /\ ~ contacted
    /\ stage \in {"getting", "rendering"} => reply = NoReply
    /\ reply = NoReply => /\ culprit \in {"nobody", "breakers"} /\ ~ contacted
                          /\ stage = "idle" => heard = Silence
    /\ tool \in {"none", "web_fetch"} => culprit # "breakers"
    /\ contacted \in BOOLEAN
    /\ contacted => ByModel

\* No step breaks what the fetcher knows.
LEMMA FetchedIsKept == ASSUME Started, Fetched, Called, [Next]_vars PROVE Fetched'
<1> USE DEF Failed, None, Empty, Words, fetcher, fetching
<1>1. CASE UNCHANGED <<fetcher, fetching>>
  BY <1>1 DEF Fetched, ShouldEscalate, Extracted, Better
<1>2. CASE Wire
  <2>1. Read /\ main = "building"
    BY <1>2 DEF Wire, Start!Build, Started
  <2>2. tool = "none"
    BY <2>1 DEF Called
  <2>3. stage = "idle" /\ UNCHANGED fetching
    BY <1>2, <2>2 DEF Called, Wire, calling
  <2>4. renderer' \in BOOLEAN /\ threshold' \in Int
    <3>1. settings.dynamic \in BOOLEAN /\ settings.threshold \in Int
      BY <2>1, AtoiAssumption DEF Read
    <3>2. \/ renderer' = settings.dynamic /\ threshold' \in {settings.threshold, 0}
          \/ renderer' = renderer /\ threshold' = threshold
      BY <1>2 DEF Wire, wiring
    <3> QED
      BY <3>1, <3>2 DEF Fetched
  <2> QED
    BY <2>3, <2>4 DEF Fetched
<1>3. ASSUME NEW n, CallFetch(n) PROVE Fetched'
  <2>1. heard = Silence
    BY <1>3 DEF CallFetch, Called
  <2> QED
    BY <1>3, <2>1 DEF CallFetch, Fetch, Fetched
<1>4. ASSUME NEW h \in Failures, GetFails(h) PROVE Fetched'
  BY <1>4 DEF GetFails, Fetched, Return
<1>5. ASSUME NEW s \in {t \in Statuses : KindOf(t) = "ok"}, NEW w \in {Empty} \cup Words,
             GetPage(s, w)
      PROVE  Fetched'
  <2>1. heard'.status = s /\ heard'.broke = "no" /\ static' = w
    BY <1>5 DEF GetPage, Status
  <2> QED
    BY <1>5, <2>1 DEF GetPage, Fetched, Return, ShouldEscalate, Extracted
<1>6. ASSUME NEW w \in {Failed, Empty} \cup Words, Render(w) PROVE Fetched'
  BY <1>6 DEF Render, Fetched, Return, Extracted, Better
<1>7. ASSUME NEW h \in Failures, EngineFails(h) \/ ModelFails(h) PROVE Fetched'
  <2>1. stage = "idle"
    BY <1>7 DEF EngineFails, ModelFails, Searching, Called
  <2> QED
    BY <1>7, <2>1 DEF EngineFails, ModelFails, Fetched
<1> QED
  BY <1>1, <1>2, <1>3, <1>4, <1>5, <1>6, <1>7
  DEF Next, Configure, Serve, Call, Work, CallSearch, CallResearch, Fetching,
      FetchStep, ReplyFetch, EngineGarbles, BreakersOpen, EngineAnswers, ResearchEnds, vars,
      wiring, calling

\* No step of a call comes after its reply.
LEMMA RepliedIsFinal ==
    ASSUME Called, Fetched, Serve
    PROVE  reply = NoReply
<1>1. FetchStep => reply = NoReply
  BY DEF FetchStep, GetFails, GetPage, Render, Called
<1> QED
  BY <1>1 DEF Serve, Call, Work, CallFetch, CallSearch, CallResearch, Called, Fetching,
              ReplyFetch, EngineFails, ModelFails, EngineGarbles, BreakersOpen, EngineAnswers,
              ResearchEnds, Searching

\* An error reply is a reply, with the code it was made from.
LEMMA ErrorsAreReplies ==
    ASSUME NEW code \in Codes, NEW r
    PROVE  /\ ErrMap(code, r) # NoReply /\ ErrMap(code, r).code = code /\ ErrMap(code, r).retryable = r
           /\ ErrMap(code, r).code # "OK"
BY DEF ErrMap, NoReply, Codes

\* The reply that brings a page.
PageReply(words, cut) == [Success EXCEPT !.words = words, !.truncated = cut]

\* It carries no error.
LEMMA PagesAreReplies ==
    ASSUME NEW w, NEW t
    PROVE  PageReply(w, t) # NoReply /\ PageReply(w, t).code = "OK" /\ PageReply(w, t).retryable = FALSE
BY DEF PageReply, Success, NoReply

\* Every failure of a tool has a code of the taxonomy.
LEMMA ErrorCodes ==
    ASSUME NEW err
    PROVE  FetchCode(err) \in Codes /\ SearchCode(err) \in Codes /\ ResearchCode(err) \in Codes
           /\ EngineErrors(err) \in Codes
BY DEF FetchCode, SearchCode, ResearchCode, EngineErrors, Codes

\* No step breaks what is known of a call.
LEMMA CalledIsKept == ASSUME Started, Fetched, Called, [Next]_vars PROVE Called'
<1>1. CASE UNCHANGED <<main, defaultSynthesis, calling>>
  BY <1>1 DEF Called, ByModel, calling, fetching, request
<1>2. CASE Configure \/ Wire
  <2>1. main # "serving" /\ UNCHANGED calling
    BY <1>2 DEF Configure, Wire, Start!LoadDotEnv, Start!FromEnv, Start!Build
  <2>2. tool = "none" /\ reply = NoReply /\ ~ contacted
    BY <2>1 DEF Called
  <2> QED
    BY <2>1, <2>2 DEF Called, calling, fetching, request
<1>3. ASSUME Serve PROVE main = "serving" /\ main' = main /\ defaultSynthesis' = defaultSynthesis
  BY <1>3 DEF Serve, starting
<1>4. ASSUME Serve, NEW n, CallFetch(n) PROVE Called'
  BY <1>3, <1>4 DEF CallFetch, Fetch, Called, ByModel
<1>5. ASSUME Serve, NEW n, CallSearch(n) PROVE Called'
  BY <1>3, <1>5 DEF CallSearch, Called, ByModel, fetching
<1>6. ASSUME Serve, NEW m, NEW s, CallResearch(m, s) PROVE Called'
  BY <1>3, <1>6 DEF CallResearch, Called, ByModel, fetching
<1>7. ASSUME Serve, Fetching PROVE Called'
  <2>1. stage \in {"getting", "rendering"} /\ stage' \in {"rendering", "done"} /\ UNCHANGED fetcher
    BY <1>7 DEF Fetching, FetchStep, GetFails, GetPage, Render, Return
  <2> QED
    BY <1>3, <1>7, <2>1 DEF Fetching, Called, request
<1>8. ASSUME Serve, ReplyFetch PROVE Called'
  <2>1. reply' # NoReply
    <3>1. \/ reply' = ErrMap(FetchCode(outcome.err), WorthRetrying(FetchCode(outcome.err)))
          \/ \E w, t : reply' = PageReply(w, t)
      BY <1>8, Zenon DEF ReplyFetch, Replying, PageReply
    <3>2. FetchCode(outcome.err) \in Codes
      BY ErrorCodes
    <3>3. ErrMap(FetchCode(outcome.err), WorthRetrying(FetchCode(outcome.err))) # NoReply
      BY <3>2, ErrorsAreReplies
    <3>4. \A w, t : PageReply(w, t) # NoReply
      BY PagesAreReplies
    <3> QED
      BY <3>1, <3>3, <3>4
  <2> QED
    BY <1>3, <1>8, <2>1 DEF ReplyFetch, Replying, Called, request, fetching
<1>9. ASSUME Serve, NEW h, EngineFails(h) PROVE Called'
  <2>1. reply' # NoReply
    BY <1>9, ErrorCodes, ErrorsAreReplies DEF EngineFails, Replying
  <2> QED
    BY <1>3, <1>9, <2>1 DEF EngineFails, Searching, Replying, Called, request, ByModel
<1>10. ASSUME Serve, NEW h, ModelFails(h) PROVE Called'
  <2>1. reply' # NoReply
    BY <1>10, ErrorCodes, ErrorsAreReplies DEF ModelFails, Replying
  <2> QED
    BY <1>3, <1>10, <2>1 DEF ModelFails, Replying, Called, request, ByModel
<1>11. ASSUME Serve, NEW e, EngineGarbles(e) PROVE Called'
  <2>1. reply' # NoReply
    BY <1>11, ErrorCodes, ErrorsAreReplies DEF EngineGarbles, Replying
  <2> QED
    BY <1>3, <1>11, <2>1 DEF EngineGarbles, Searching, Replying, Called, request, ByModel, fetching
<1>12. ASSUME Serve, NEW e, NEW p, EngineAnswers(e, p) PROVE Called'
  <2>1. reply' # NoReply
    BY <1>12 DEF EngineAnswers, Replying, Success, NoReply
  <2> QED
    BY <1>3, <1>12, <2>1 DEF EngineAnswers, Searching, Replying, Called, request, ByModel, fetching
<1>13. ASSUME Serve, ResearchEnds PROVE Called'
  <2>1. reply' # NoReply
    BY <1>13 DEF ResearchEnds, Replying, Success, NoReply
  <2>2. ByModel' = ByModel /\ contacted' = ByModel /\ ByModel \in BOOLEAN
    BY <1>3, <1>13 DEF ResearchEnds, Replying, ByModel, request
  <2> QED
    BY <1>3, <1>13, <2>1, <2>2 DEF ResearchEnds, Replying, Called, request, fetching
<1>14. ASSUME Serve, BreakersOpen PROVE Called'
  <2>1. /\ tool \in {"web_search", "web_research"} /\ tool' = tool /\ synthesis' = synthesis
        /\ UNCHANGED <<stage, heard, contacted>> /\ culprit' = "breakers"
        /\ reply = NoReply
    BY <1>14 DEF BreakersOpen, Searching, Replying, request, fetching
  <2>2. ByModel' = ByModel
    BY <1>3, <1>14, <2>1 DEF ByModel
  <2> QED
    BY <1>3, <1>14, <2>1, <2>2 DEF Called
<1> QED
  BY <1>1, <1>2, <1>3, <1>4, <1>5, <1>6, <1>7, <1>8, <1>9, <1>10, <1>11, <1>12, <1>13, <1>14
  DEF Next, Serve, Call, Work, vars, starting, wiring

\* The error of an exchange that has failed, by how it failed.
LEMMA WhatAFailureShows ==
    ASSUME NEW h \in Failures
    PROVE  /\ "Retryable" \in ErrorOf(h).found <=> h.status \in RetryableStatuses
           /\ "Timeout" \in ErrorOf(h).found <=> h.broke = "timeout"
           /\ "HTTPError" \in ErrorOf(h).found <=> h.broke = "no"
           /\ ErrorOf(h).found \cap {"ErrEmpty", "ErrLLM", "nil"} = {}
           /\ ErrorOf(h).status = h.status
           /\ h.broke # "no" => h.status = 0
<1>1. CASE h.broke = "no"
  <2>1. KindOf(h.status) # "ok"
    BY <1>1 DEF Failures, Status, Breaks
  <2>2. KindOf(h.status) = "transient" <=> h.status \in RetryableStatuses
    BY DEF KindOf
  <2> QED
    BY <1>1, <2>1, <2>2 DEF ErrorOf, StatusError, Chain
<1>2. CASE h.broke # "no"
  <2>1. h.status = 0 /\ 0 \notin RetryableStatuses
    BY <1>2 DEF Failures, Status, Breaks, RetryableStatuses
  <2> QED
    BY <1>2, <2>1 DEF ErrorOf, NetError, Chain
<1> QED
  BY <1>1, <1>2

\* A fetch's code says what the host did, and every status is one of these cases.
LEMMA FetchCodesNameTheCause ==
    ASSUME NEW h \in Failures
    PROVE  /\ FetchCode(ErrorOf(h)) = "RATELIMITED" <=> h.status \in RetryableStatuses
           /\ FetchCode(ErrorOf(h)) = "BLOCKED" <=> h.status \in {401, 403, 451}
           /\ FetchCode(ErrorOf(h)) = "TIMEOUT" <=> h.broke = "timeout"
           /\ FetchCode(ErrorOf(h)) \notin {"EMPTY_CONTENT", "LLM_ERROR", "OK", "none"}
<1>1. 0 \notin RetryableStatuses \cup {401, 403, 451} /\ RetryableStatuses \cap {401, 403, 451} = {}
  BY DEF RetryableStatuses
<1> QED
  BY <1>1, WhatAFailureShows DEF FetchCode

\* So does an engine's.
LEMMA EngineCodesNameTheCause ==
    ASSUME NEW h \in Failures
    PROVE  /\ EngineErrors(ErrorOf(h)) \in {"RATELIMITED", "SEARCH_UNAVAILABLE"}
           /\ EngineErrors(ErrorOf(h)) = "RATELIMITED" <=> h.status \in RetryableStatuses
<1>1. {429, 503, 202} \subseteq RetryableStatuses
  BY DEF RetryableStatuses
<1> QED
  BY <1>1, WhatAFailureShows DEF EngineErrors, ResearchCode, SearchCode, IsRateLimited

\* What a fetch that is over has come to.
LEMMA FetchIsOver ==
    ASSUME Fetched, stage = "done"
    PROVE  \/ heard \in Failures /\ static = None /\ outcome.err = ErrorOf(heard)
           \/ /\ KindOf(heard.status) = "ok" /\ heard.broke = "no"
              /\ outcome.err = IF static = Empty /\ rendered <= Empty THEN ErrEmpty ELSE NoError
BY DEF Fetched, Failed, None, Empty, Words, Extracted, Better, Page, Fails

\* A status that is a success is none of the failures.
LEMMA GoodStatuses ==
    ASSUME NEW status, KindOf(status) = "ok"
    PROVE  status \notin RetryableStatuses /\ status \notin {401, 403, 451}
BY DEF KindOf

\* A reply is the first, and it says why.
Explained == CodeNamesCause /\ RetryAdvice

\* A fetch's reply explains what was heard.
LEMMA FetchRepliesExplain == ASSUME Fetched, Called, Serve, ReplyFetch PROVE Explained'
<1>1. /\ tool = "web_fetch" /\ tool' = tool /\ stage = "done" /\ culprit = "nobody"
      /\ UNCHANGED <<heard, static, rendered>>
  BY DEF ReplyFetch, Replying, Called, fetching, request
<1>2. \/ /\ outcome.err # NoError
         /\ reply' = ErrMap(FetchCode(outcome.err), WorthRetrying(FetchCode(outcome.err)))
         /\ culprit' = IF outcome.err = ErrEmpty THEN "page" ELSE "site"
      \/ /\ outcome.err = NoError /\ \E w, t : reply' = PageReply(w, t)
         /\ culprit' = culprit
  BY Zenon DEF ReplyFetch, Replying, PageReply
<1>3. NoError # ErrEmpty
  BY DEF NoError, ErrEmpty, Chain
<1>4. CASE heard \in Failures /\ static = None /\ outcome.err = ErrorOf(heard)
  <2> DEFINE code == FetchCode(ErrorOf(heard))
  <2>1. outcome.err # NoError /\ outcome.err # ErrEmpty
    BY <1>4, WhatAFailureShows DEF NoError, ErrEmpty, Chain
  <2>2. code \in Codes
    BY ErrorCodes
  <2>3. /\ reply'.code = code /\ culprit' = "site"
        /\ reply'.retryable = IF code \in {"RATELIMITED", "TIMEOUT"} THEN TRUE ELSE FALSE
    <3>1. reply' = ErrMap(code, WorthRetrying(code)) /\ culprit' = "site"
      BY <1>2, <1>4, <2>1
    <3> HIDE DEF code
    <3>2. reply'.code = code /\ reply'.retryable = WorthRetrying(code)
      BY <2>2, <3>1, ErrorsAreReplies
    <3>3. code \in {"RATELIMITED", "TIMEOUT"} => WorthRetrying(code) = TRUE
      BY DEF WorthRetrying
    <3>4. code \notin {"RATELIMITED", "TIMEOUT"} => WorthRetrying(code) = FALSE
      BY DEF WorthRetrying
    <3> QED
      BY <3>1, <3>2, <3>3, <3>4
  <2>4. /\ code = "RATELIMITED" <=> heard.status \in RetryableStatuses
        /\ code = "BLOCKED" <=> heard.status \in {401, 403, 451}
        /\ code = "TIMEOUT" <=> heard.broke = "timeout"
        /\ code \notin {"EMPTY_CONTENT", "LLM_ERROR", "OK", "none"}
    BY <1>4, FetchCodesNameTheCause
  <2> HIDE DEF code
  <2>5. CodeNamesCause'
    <3>1. heard.status \in {202, 429, 503} => heard.status \in RetryableStatuses
      BY DEF RetryableStatuses
    <3> QED
      BY <1>1, <1>4, <2>3, <2>4, <3>1 DEF CodeNamesCause, Transient, None, Empty
  <2>6. RetryAdvice'
    BY <2>3, <2>4, <1>1 DEF RetryAdvice, Transient
  <2> QED
    BY <2>5, <2>6 DEF Explained
<1>5. CASE /\ KindOf(heard.status) = "ok" /\ heard.broke = "no"
           /\ outcome.err = IF static = Empty /\ rendered <= Empty THEN ErrEmpty ELSE NoError
  <2>1. heard.status \notin RetryableStatuses /\ heard.status \notin {401, 403, 451}
    BY <1>5, GoodStatuses
  <2>2. CASE static = Empty /\ rendered <= Empty
    <3>1. FetchCode(ErrEmpty) = "EMPTY_CONTENT" /\ "EMPTY_CONTENT" \in Codes
      BY DEF FetchCode, ErrEmpty, Chain, Codes
    <3>2. reply' = ErrMap("EMPTY_CONTENT", WorthRetrying("EMPTY_CONTENT")) /\ culprit' = "page"
      BY <1>2, <1>3, <1>5, <2>2, <3>1
    <3>3. WorthRetrying("EMPTY_CONTENT") = FALSE
      BY DEF WorthRetrying
    <3>4. reply'.code = "EMPTY_CONTENT" /\ reply'.retryable = FALSE
      BY <3>1, <3>2, <3>3, ErrorsAreReplies
    <3>5. CodeNamesCause'
      BY <1>1, <1>5, <2>1, <2>2, <3>2, <3>4 DEF CodeNamesCause, Transient
    <3>6. RetryAdvice'
      BY <1>1, <1>5, <2>1, <3>4 DEF RetryAdvice, Transient
    <3> QED
      BY <3>5, <3>6 DEF Explained
  <2>3. CASE ~ (static = Empty /\ rendered <= Empty)
    <3>1. reply'.code = "OK" /\ culprit' = "nobody"
      BY <1>1, <1>2, <1>5, <2>3, PagesAreReplies
    <3> QED
      BY <1>1, <1>5, <2>1, <2>3, <3>1 DEF Explained, CodeNamesCause, RetryAdvice, Transient, Codes
  <2> QED
    BY <2>2, <2>3
<1> QED
  BY <1>1, <1>4, <1>5, FetchIsOver

\* Every reply does.
LEMMA ExplainedIsKept == ASSUME Fetched, Called, Explained, [Next]_vars PROVE Explained'
<1>1. CASE UNCHANGED calling
  BY <1>1 DEF Explained, CodeNamesCause, RetryAdvice, Transient, calling, fetching, request
<1>2. CASE reply' = NoReply
  <2>1. NoReply.code \notin Codes
    BY DEF NoReply, Codes
  <2> QED
    BY <1>2, <2>1 DEF Explained, CodeNamesCause, RetryAdvice
<1>3. ASSUME Serve, NEW h \in Failures, EngineFails(h) PROVE Explained'
  <2>1. /\ tool \in {"web_search", "web_research"} /\ tool' = tool /\ heard' = h
        /\ culprit' = "engine" /\ reply' = ErrMap(EngineErrors(ErrorOf(h)), TRUE)
    BY <1>3 DEF EngineFails, Searching, Replying, request
  <2>2. EngineErrors(ErrorOf(h)) \in Codes
    BY ErrorCodes
  <2>3. reply'.code = EngineErrors(ErrorOf(h)) /\ reply'.retryable = TRUE
    BY <2>1, <2>2, ErrorsAreReplies
  <2>4. /\ reply'.code \in {"RATELIMITED", "SEARCH_UNAVAILABLE"}
        /\ reply'.code = "RATELIMITED" <=> heard'.status \in RetryableStatuses
    BY <2>1, <2>3, EngineCodesNameTheCause
  <2>5. CodeNamesCause'
    <3>1. heard'.status \in {202, 429, 503} => heard'.status \in RetryableStatuses
      BY DEF RetryableStatuses
    <3>2. heard'.status \in {202, 429, 503} => reply'.code = "RATELIMITED"
      BY <2>4, <3>1
    <3> QED
      BY <2>1, <2>4, <3>2 DEF CodeNamesCause, Transient
  <2>6. RetryAdvice'
    BY <2>1, <2>3 DEF RetryAdvice
  <2> QED
    BY <2>5, <2>6 DEF Explained
<1>4. ASSUME Serve, NEW h, ModelFails(h) PROVE Explained'
  <2>1. tool = "web_research" /\ tool' = tool /\ culprit' = "model"
        /\ reply' = ErrMap(ResearchCode(ErrLLM), TRUE)
    BY <1>4 DEF ModelFails, Replying, request
  <2>2. ResearchCode(ErrLLM) = "LLM_ERROR" /\ "LLM_ERROR" \in Codes
    BY DEF ResearchCode, ErrLLM, Chain, Codes
  <2>3. reply'.code = "LLM_ERROR" /\ reply'.retryable = TRUE
    BY <2>1, <2>2, ErrorsAreReplies
  <2>4. CodeNamesCause'
    BY <2>1, <2>3 DEF CodeNamesCause
  <2>5. RetryAdvice'
    BY <2>1, <2>3 DEF RetryAdvice
  <2> QED
    BY <2>4, <2>5 DEF Explained
<1>5. ASSUME Serve, NEW e, EngineGarbles(e) PROVE Explained'
  <2>1. /\ tool \in {"web_search", "web_research"} /\ tool' = tool /\ heard' = heard
        /\ culprit' = "engine" /\ reply' = ErrMap(EngineErrors(ParseError), TRUE)
    BY <1>5 DEF EngineGarbles, Searching, Replying, request, fetching
  <2>2. heard = Silence
    BY <1>5, <2>1 DEF EngineGarbles, Searching, Called
  <2>3. EngineErrors(ParseError) = "SEARCH_UNAVAILABLE" /\ "SEARCH_UNAVAILABLE" \in Codes
    BY DEF EngineErrors, SearchCode, ResearchCode, IsRateLimited, ParseError, Chain, Codes
  <2>4. reply'.code = "SEARCH_UNAVAILABLE" /\ reply'.retryable = TRUE
    BY <2>1, <2>3, ErrorsAreReplies
  <2>5. heard'.status \notin RetryableStatuses /\ heard'.status \notin {202, 429, 503}
    <3>1. heard'.status = 0
      BY <2>1, <2>2 DEF Silence
    <3> QED
      BY <3>1 DEF RetryableStatuses
  <2>6. CodeNamesCause'
    BY <2>1, <2>4, <2>5 DEF CodeNamesCause, Transient
  <2>7. RetryAdvice'
    BY <2>1, <2>4 DEF RetryAdvice
  <2> QED
    BY <2>6, <2>7 DEF Explained
<1>6. ASSUME Serve, ResearchEnds \/ (\E e, p : EngineAnswers(e, p)), reply' # NoReply
      PROVE  Explained'
  <2>1. /\ tool \in {"web_search", "web_research"} /\ tool' = tool /\ heard' = heard
        /\ culprit' = culprit /\ reply'.code = "OK"
    <3>1. CASE ResearchEnds
      BY <3>1 DEF ResearchEnds, Replying, request, fetching, Success, NoReply
    <3>2. ASSUME NEW e, NEW p, EngineAnswers(e, p)
          PROVE  /\ tool = "web_search" /\ tool' = tool /\ heard' = heard
                 /\ culprit' = culprit /\ reply'.code = "OK"
      BY <3>2 DEF EngineAnswers, Replying, request, fetching, Success, NoReply
    <3> QED
      BY <1>6, <3>1, <3>2
  <2>2. culprit \in {"nobody", "breakers"}
    BY <1>6, RepliedIsFinal DEF Called
  <2> QED
    BY <2>1, <2>2 DEF Explained, CodeNamesCause, RetryAdvice, Codes
<1>7. ASSUME Serve, Call \/ Fetching PROVE reply' = NoReply
  <2>1. reply = NoReply
    BY <1>7, RepliedIsFinal
  <2> QED
    BY <1>7, <2>1 DEF Call, CallFetch, CallSearch, CallResearch, Fetching
<1>8. Configure \/ Wire \/ UNCHANGED vars => UNCHANGED calling
  BY DEF Configure, Wire, vars
<1>9. ASSUME Serve, BreakersOpen, reply' # NoReply PROVE Explained'
  <2>1. /\ tool \in {"web_search", "web_research"} /\ tool' = tool /\ heard' = heard
        /\ culprit' = "breakers" /\ reply'.code = "OK"
    BY <1>9 DEF BreakersOpen, Searching, Replying, request, fetching, Success, NoReply
  <2> QED
    BY <2>1 DEF Explained, CodeNamesCause, RetryAdvice, Codes
<1> QED
  BY <1>1, <1>2, <1>3, <1>4, <1>5, <1>6, <1>7, <1>8, <1>9, FetchRepliesExplain
  DEF Next, Serve, Work

\* All this is invariant.
LEMMA CallHolds == Spec => [](Started /\ Fetched /\ Called /\ Explained)
<1>1. Init => Started /\ Fetched /\ Called /\ Explained
  <2> SUFFICES ASSUME Init PROVE Started /\ Fetched /\ Called /\ Explained
    OBVIOUS
  <2>1. Started
    BY DEF Init, Start!Init, Started
  <2>2. Fetched
    <3>0. renderer \in BOOLEAN
      BY Zenon DEF Init
    <3>1. threshold \in Int
      BY DEF Init
    <3>2. stage = "idle" /\ static = None /\ rendered = None /\ outcome = Nothing
      BY DEF Init, ToolsIdle, FetcherIdle
    <3> QED
      BY <3>0, <3>1, <3>2 DEF Fetched
  <2>3. Called
    BY DEF Init, ToolsIdle, FetcherIdle, Called
  <2>4. Explained
    BY DEF Init, ToolsIdle, NoReply, Explained, CodeNamesCause, RetryAdvice, Codes
  <2> QED
    BY <2>1, <2>2, <2>3, <2>4
<1>2. Started /\ Fetched /\ Called /\ Explained /\ [Next]_vars
      => Started' /\ Fetched' /\ Called' /\ Explained'
  BY StartedIsKept, FetchedIsKept, CalledIsKept, ExplainedIsKept
<1> QED
  BY <1>1, <1>2, PTL DEF Spec

\* The longest content that has been seen is returned, a page fails only when there
\* is none, and thin content is not settled for (fetch.go:44-45): whatever the
\* server answers, and whatever the browser does.
THEOREM BestContentIsReturned == Spec => []BestContentReturned
<1>1. Fetched => BestContentReturned
  <2> SUFFICES ASSUME Fetched, stage = "done", static # None PROVE BestContentReturned
    BY DEF BestContentReturned
  <2>1. /\ static \in {Empty} \cup Words
        /\ \/ rendered = None /\ ~ (renderer /\ ShouldEscalate(static)) /\ outcome = Extracted(static)
           \/ /\ rendered \in {Failed, Empty} \cup Words
              /\ outcome = IF Better(rendered) THEN Page(rendered, "dynamic") ELSE Extracted(static)
    <3>1. stage # "rendering"
      OBVIOUS
    <3> QED
      BY <3>1, Zenon DEF Fetched
  <2> QED
    BY <2>1, WordsAssumption DEF Fetched, BestContentReturned, Failed, None, Empty, Words, Extracted, Better,
                ShouldEscalate
<1> QED
  BY <1>1, CallHolds, PTL

\* The code a client reads names what happened on the wire (specs/SPEC.md:12-33), for
\* every status the servers, the engines and the model may answer with: a rate limit
\* by 202, 429 or 503 is reported as one, a refusal, a timeout and an empty page are
\* too, and no other failure as one of these; a success means that somebody answered,
\* or that every breaker was open.
THEOREM CodesNameTheirCause == Spec => []CodeNamesCause
<1>1. Explained => CodeNamesCause
  BY DEF Explained
<1> QED
  BY <1>1, CallHolds, PTL

\* A client is sent back for what may pass, and by web_fetch for nothing else
\* (specs/SPEC.md:5).
THEOREM RetriesAreAdvised == Spec => []RetryAdvice
<1>1. Explained => RetryAdvice
  BY DEF Explained
<1> QED
  BY <1>1, CallHolds, PTL

\* The model is contacted by no call that has not asked for it, on no server whose
\* user has not chosen it (main.go:47-48): for every environment, every .env and
\* every call.
THEOREM ModelIsAskedFor == Spec => []ModelOnlyWhenAsked
<1>1. Started /\ Called => ModelOnlyWhenAsked
  <2> SUFFICES ASSUME Started, Called, contacted, synthesis = Unset
               PROVE  Start!InEffect("RESEARCH_SYNTHESIS") = "llm"
    BY DEF ModelOnlyWhenAsked, Called, ByModel
  <2>1. main = "serving" /\ defaultSynthesis = "llm"
    BY DEF Called, ByModel
  <2>2. defaultSynthesis = TextOf("RESEARCH_SYNTHESIS", "simple")
    BY <2>1 DEF Started, Built, Read
  <2> QED
    BY <2>1, <2>2 DEF TextOf
<1> QED
  BY <1>1, CallHolds, PTL

-----------------------------------------------------------------------------
(* The results of a search.                                                *)

\* What stands in a payload, and what stands where.
Kinds == {"hit", "void", "snippet"}
PlacedItems == [item: Kinds, at: Nat]

\* The body of the loop over the entries of a JSON payload, and over the links of a
\* page.
AddEntry(out, x) ==
    IF x.item = "hit" THEN Append(out, Result(Len(out) + 1, x.at, x.at)) ELSE out

AddLink(out, x) ==
    IF x.item = "hit" THEN Append(out, Result(Len(out) + 1, x.at, NoSnippet))
    ELSE IF x.item = "snippet" /\ out # <<>> THEN [out EXCEPT ![Len(out)].snippet = x.at]
    ELSE out

Entries == INSTANCE FoldingProofs
           WITH Step <- AddEntry, Base <- <<>>, Outs <- Seq(Results), Elems <- PlacedItems

Links == INSTANCE FoldingProofs
         WITH Step <- AddLink, Base <- <<>>, Outs <- Seq(Results), Elems <- PlacedItems

\* A result made by either loop is a result.
LEMMA ResultsAreResults ==
    ASSUME NEW r \in Nat, NEW i \in Nat, NEW n \in Nat
    PROVE  Result(r, i, n) \in Results
BY DEF Result, Results

\* Every item of a payload is known with its place.
LEMMA PlacedIsPlaced ==
    ASSUME NEW p \in Seq(Kinds)
    PROVE  /\ Placed(p) \in Seq(PlacedItems) /\ Len(Placed(p)) = Len(p)
           /\ \A k \in 1 .. Len(p) : Placed(p)[k].item = p[k] /\ Placed(p)[k].at = k
<1>1. DOMAIN p = 1 .. Len(p) /\ Len(p) \in Nat /\ \A k \in 1 .. Len(p) : p[k] \in Kinds
  OBVIOUS
<1>2. Placed(p) = [k \in 1 .. Len(p) |-> [item |-> p[k], at |-> k]]
  BY <1>1 DEF Placed
<1>3. \A k \in 1 .. Len(p) : [item |-> p[k], at |-> k] \in PlacedItems
  BY <1>1 DEF PlacedItems
<1> HIDE DEF PlacedItems, Kinds
<1>4. Placed(p) \in Seq(PlacedItems) /\ Len(Placed(p)) = Len(p)
  BY <1>1, <1>2, <1>3
<1> QED
  BY <1>2, <1>4

\* An entry leaves a list of results.
LEMMA AddEntryIsTyped ==
    ASSUME NEW out \in Seq(Results), NEW x \in PlacedItems
    PROVE  AddEntry(out, x) \in Seq(Results)
<1>1. Len(out) + 1 \in Nat /\ x.at \in Nat
  BY DEF PlacedItems
<1>2. Result(Len(out) + 1, x.at, x.at) \in Results
  BY <1>1, ResultsAreResults
<1> QED
  BY <1>2 DEF AddEntry

\* A link or a snippet leaves a list of results.
LEMMA AddLinkIsTyped ==
    ASSUME NEW out \in Seq(Results), NEW x \in PlacedItems
    PROVE  AddLink(out, x) \in Seq(Results)
<1>1. Len(out) + 1 \in Nat /\ x.at \in Nat
  BY DEF PlacedItems
<1>2. Result(Len(out) + 1, x.at, NoSnippet) \in Results
  BY <1>1, ResultsAreResults DEF NoSnippet
<1>3. ASSUME out # <<>> PROVE [out EXCEPT ![Len(out)].snippet = x.at] \in Seq(Results)
  <2>1. Len(out) \in DOMAIN out /\ DOMAIN out = 1 .. Len(out) /\ Len(out) \in Nat
    BY <1>3
  <2>2. [out[Len(out)] EXCEPT !.snippet = x.at] \in Results
    <3>1. out[Len(out)] \in Results
      BY <2>1
    <3> QED
      BY <1>1, <3>1 DEF Results
  <2> HIDE DEF Results
  <2> QED
    BY <2>1, <2>2
<1> QED
  BY <1>2, <1>3 DEF AddLink

\* The loop over the entries of a payload.
LEMMA ParsedEntryByEntry ==
    ASSUME NEW p \in Seq(Kinds)
    PROVE  \E f : /\ f[0] = <<>>
                  /\ \A k \in 1 .. Len(p) : f[k] = AddEntry(f[k - 1], Placed(p)[k])
                  /\ \A k \in 0 .. Len(p) : f[k] \in Seq(Results)
                  /\ Parsed(p) = f[Len(p)]
<1>1. Parsed(p) = Entries!Fold(Placed(p))
  BY DEF Parsed, FoldLeft, MapThenFoldSet, Max,
         Entries!Fold, Entries!FoldLeft, Entries!MapThenFoldSet, Entries!Max, AddEntry
<1>2. <<>> \in Seq(Results)
  OBVIOUS
<1>3. \A out \in Seq(Results), item \in PlacedItems : AddEntry(out, item) \in Seq(Results)
  BY AddEntryIsTyped
<1>4. Placed(p) \in Seq(PlacedItems) /\ Len(Placed(p)) = Len(p)
  BY PlacedIsPlaced
<1>5. \E f : /\ f[0] = <<>>
             /\ \A k \in 1 .. Len(Placed(p)) : f[k] = AddEntry(f[k - 1], Placed(p)[k])
             /\ \A k \in 0 .. Len(Placed(p)) : f[k] \in Seq(Results)
             /\ Entries!Fold(Placed(p)) = f[Len(Placed(p))]
  BY Zenon, <1>2, <1>3, <1>4, Entries!FoldIsALoop
<1> QED
  BY Zenon, <1>1, <1>4, <1>5

\* The loop over the links of a page.
LEMMA ScrapedLinkByLink ==
    ASSUME NEW p \in Seq(Kinds)
    PROVE  \E f : /\ f[0] = <<>>
                  /\ \A k \in 1 .. Len(p) : f[k] = AddLink(f[k - 1], Placed(p)[k])
                  /\ \A k \in 0 .. Len(p) : f[k] \in Seq(Results)
                  /\ Scrape(p) = f[Len(p)]
<1>1. Scrape(p) = Links!Fold(Placed(p))
  BY DEF Scrape, FoldLeft, MapThenFoldSet, Max,
         Links!Fold, Links!FoldLeft, Links!MapThenFoldSet, Links!Max, AddLink
<1>2. <<>> \in Seq(Results)
  OBVIOUS
<1>3. \A out \in Seq(Results), item \in PlacedItems : AddLink(out, item) \in Seq(Results)
  BY AddLinkIsTyped
<1>4. Placed(p) \in Seq(PlacedItems) /\ Len(Placed(p)) = Len(p)
  BY PlacedIsPlaced
<1>5. \E f : /\ f[0] = <<>>
             /\ \A k \in 1 .. Len(Placed(p)) : f[k] = AddLink(f[k - 1], Placed(p)[k])
             /\ \A k \in 0 .. Len(Placed(p)) : f[k] \in Seq(Results)
             /\ Links!Fold(Placed(p)) = f[Len(Placed(p))]
  BY Zenon, <1>2, <1>3, <1>4, Links!FoldIsALoop
<1> QED
  BY Zenon, <1>1, <1>4, <1>5

\* What results are, after n items of the payload: those of its hits, in its
\* order; a snippet stands between the result's link and the next one.
Ordered(out, p, n) ==
    /\ \A k \in DOMAIN out : out[k].rank = k /\ out[k].place \in 1 .. n /\ p[out[k].place] = "hit"
    /\ \A j, k \in DOMAIN out : j < k => out[j].place < out[k].place
    /\ \A i \in 1 .. n : p[i] = "hit" => \E k \in DOMAIN out : out[k].place = i

\* The i-th item belongs to result r: no other result starts in between.
Owns(r, p, n, i) == i \in r.place .. n /\ \A j \in r.place + 1 .. i : p[j] # "hit"

\* Each snippet stands with its own result, and none is lost.
Described(out, p, n) ==
    \A k \in DOMAIN out :
        /\ out[k].snippet # NoSnippet => Owns(out[k], p, n, out[k].snippet)
        /\ out[k].snippet = NoSnippet => \A i \in 1 .. n : Owns(out[k], p, n, i) => p[i] # "snippet"

\* A snippet is the result's own entry, or a snippet of the page.
Attributed(out, p) ==
    \A k \in DOMAIN out :
        out[k].snippet \in {NoSnippet, out[k].place} \/ p[out[k].snippet] = "snippet"

\* The results so far.
Listed(out, p, n) ==
    out \in Seq(Results) /\ Ordered(out, p, n) /\ Described(out, p, n) /\ Attributed(out, p)

\* Before the first item there are none.
LEMMA NothingIsListed ==
    ASSUME NEW p PROVE Listed(<<>>, p, 0)
<1>1. <<>> \in Seq(Results) /\ DOMAIN <<>> = {}
  OBVIOUS
<1>2. 1 .. 0 = {}
  OBVIOUS
<1> QED
  BY <1>1, <1>2 DEF Listed, Ordered, Described, Attributed

\* A hit is added at the end, with the snippet it brings along or with none.
LEMMA HitIsListed ==
    ASSUME NEW p \in Seq(Kinds), NEW n \in Nat, n + 1 <= Len(p), p[n + 1] = "hit",
           NEW out, Listed(out, p, n), NEW snippet \in {n + 1, NoSnippet}
    PROVE  Listed(Append(out, Result(Len(out) + 1, n + 1, snippet)), p, n + 1)
<1> DEFINE new == Result(Len(out) + 1, n + 1, snippet)
           all == Append(out, new)
<1>1. out \in Seq(Results) /\ Len(out) \in Nat
  BY DEF Listed
<1>2. /\ new \in Results /\ new.rank = Len(out) + 1 /\ new.place = n + 1 /\ new.snippet = snippet
  <2>1. new \in Results
    BY <1>1, ResultsAreResults DEF NoSnippet
  <2> QED
    BY <2>1 DEF Result
<1>3. /\ all \in Seq(Results) /\ DOMAIN out = 1 .. Len(out)
      /\ DOMAIN all = DOMAIN out \cup {Len(out) + 1} /\ Len(out) + 1 \notin DOMAIN out
      /\ \A k \in DOMAIN out : all[k] = out[k]
      /\ all[Len(out) + 1] = new
  <2> HIDE DEF new
  <2> QED
    BY <1>1, <1>2, Appended
<1> HIDE DEF new, all
<1>4. \A k \in DOMAIN out : out[k].place \in 1 .. n /\ out[k].place < n + 1
  BY DEF Listed, Ordered
<1>5. Ordered(all, p, n + 1)
  <2>1. \A k \in DOMAIN all : all[k].rank = k /\ all[k].place \in 1 .. n + 1 /\ p[all[k].place] = "hit"
    BY <1>2, <1>3, <1>4 DEF Listed, Ordered
  <2>2. \A j, k \in DOMAIN all : j < k => all[j].place < all[k].place
    BY <1>1, <1>2, <1>3, <1>4 DEF Listed, Ordered
  <2>3. ASSUME NEW i \in 1 .. n + 1, p[i] = "hit" PROVE \E k \in DOMAIN all : all[k].place = i
    <3>1. CASE i = n + 1
      BY <1>2, <1>3, <3>1
    <3>2. CASE i \in 1 .. n
      BY <1>3, <2>3, <3>2 DEF Listed, Ordered
    <3> QED
      BY <3>1, <3>2
  <2> QED
    BY <2>1, <2>2, <2>3 DEF Ordered
<1>6. Described(all, p, n + 1)
  <2>1. ASSUME NEW k \in DOMAIN out, NEW i \in Nat
        PROVE  Owns(out[k], p, n + 1, i) <=> Owns(out[k], p, n, i)
    <3>1. n + 1 \in out[k].place + 1 .. n + 1 /\ out[k].place \in Nat
      BY <1>4
    <3> QED
      BY <3>1 DEF Owns
  <2>2. \A k \in DOMAIN out : out[k].snippet \in Nat
    <3>1. \A k \in DOMAIN out : out[k] \in Results
      BY <1>1
    <3> QED
      BY <3>1 DEF Results
  <2>3. /\ Owns(new, p, n + 1, n + 1)
        /\ \A i \in 1 .. n + 1 : Owns(new, p, n + 1, i) => i = n + 1
    BY <1>2 DEF Owns
  <2>4. ASSUME NEW k \in DOMAIN out
        PROVE  /\ out[k].snippet # NoSnippet => Owns(out[k], p, n + 1, out[k].snippet)
               /\ out[k].snippet = NoSnippet =>
                    \A i \in 1 .. n + 1 : Owns(out[k], p, n + 1, i) => p[i] # "snippet"
    <3>1. out[k].snippet # NoSnippet => Owns(out[k], p, n + 1, out[k].snippet)
      BY <2>1, <2>2 DEF Listed, Described
    <3>2. ASSUME out[k].snippet = NoSnippet, NEW i \in 1 .. n + 1, Owns(out[k], p, n + 1, i)
          PROVE  p[i] # "snippet"
      <4>1. Owns(out[k], p, n, i)
        BY <2>1, <3>2
      <4>2. i \in 1 .. n
        BY <1>4, <4>1 DEF Owns
      <4> QED
        BY <3>2, <4>1, <4>2 DEF Listed, Described
    <3> QED
      BY <3>1, <3>2
  <2> QED
    BY <1>2, <1>3, <2>3, <2>4 DEF Described
<1>7. Attributed(all, p)
  BY <1>2, <1>3 DEF Listed, Attributed
<1> QED
  BY <1>3, <1>5, <1>6, <1>7 DEF Listed, all, new

\* What is no hit adds no result; unless it is a snippet that finds one, it changes none.
LEMMA VoidIsListed ==
    ASSUME NEW p \in Seq(Kinds), NEW n \in Nat, n + 1 <= Len(p), p[n + 1] # "hit",
           NEW out, Listed(out, p, n), p[n + 1] # "snippet" \/ out = <<>>
    PROVE  Listed(out, p, n + 1)
<1>1. 1 .. n + 1 = 1 .. n \cup {n + 1} /\ n + 1 \notin 1 .. n
  OBVIOUS
<1>2. Ordered(out, p, n + 1)
  BY <1>1 DEF Listed, Ordered
<1>3. Described(out, p, n + 1)
  <2>1. ASSUME NEW k \in DOMAIN out, NEW i \in Nat, Owns(out[k], p, n, i)
        PROVE  Owns(out[k], p, n + 1, i)
    <3>1. out[k].place \in Nat
      BY DEF Listed, Ordered
    <3> QED
      BY <2>1, <3>1 DEF Owns
  <2>2. \A k \in DOMAIN out : out[k].snippet \in Nat
    <3>1. \A k \in DOMAIN out : out[k] \in Results
      BY DEF Listed
    <3> QED
      BY <3>1 DEF Results
  <2>3. ASSUME NEW k \in DOMAIN out, out[k].snippet = NoSnippet, NEW i \in 1 .. n + 1,
               Owns(out[k], p, n + 1, i)
        PROVE  p[i] # "snippet"
    <3>1. CASE i = n + 1
      <4>1. out # <<>>
        BY <2>3
      <4> QED
        BY <3>1, <4>1
    <3>2. CASE i \in 1 .. n
      <4>1. Owns(out[k], p, n, i)
        BY <2>3, <3>2 DEF Owns, Listed, Ordered
      <4> QED
        BY <2>3, <3>2, <4>1 DEF Listed, Described
    <3> QED
      BY <1>1, <3>1, <3>2
  <2> QED
    BY <2>1, <2>2, <2>3 DEF Listed, Described
<1> QED
  BY <1>2, <1>3 DEF Listed

\* A snippet goes to the last result, whose link is the last before it.
LEMMA SnippetIsListed ==
    ASSUME NEW p \in Seq(Kinds), NEW n \in Nat, n + 1 <= Len(p), p[n + 1] = "snippet",
           NEW out, Listed(out, p, n), out # <<>>
    PROVE  Listed([out EXCEPT ![Len(out)].snippet = n + 1], p, n + 1)
<1> DEFINE last == Len(out)
           all == [out EXCEPT ![last].snippet = n + 1]
<1>1. /\ out \in Seq(Results) /\ last \in Nat /\ DOMAIN out = 1 .. last /\ last \in DOMAIN out
      /\ 1 .. n + 1 = 1 .. n \cup {n + 1} /\ n + 1 \notin 1 .. n
  BY DEF Listed
<1>2. \A k \in DOMAIN out : /\ out[k] \in Results /\ out[k].place \in 1 .. n
                            /\ out[k].snippet \in Nat
  <2>1. \A k \in DOMAIN out : out[k] \in Results /\ out[k].place \in 1 .. n
    BY <1>1 DEF Listed, Ordered
  <2> QED
    BY <2>1 DEF Results
<1>3. /\ DOMAIN all = DOMAIN out
      /\ \A k \in DOMAIN out \ {last} : all[k] = out[k]
      /\ all[last] = [out[last] EXCEPT !.snippet = n + 1]
  BY <1>1
<1>4. /\ all[last].snippet = n + 1
      /\ \A k \in DOMAIN out : all[k].place = out[k].place /\ all[k].rank = out[k].rank
  BY <1>1, <1>2, <1>3 DEF Results
<1>5. all \in Seq(Results)
  <2>1. all[last] \in Results
    <3> HIDE DEF all, last
    <3>1. out[last] \in Results
      BY <1>1, <1>2
    <3>2. [out[last] EXCEPT !.snippet = n + 1] \in Results
      <4>1. n + 1 \in Nat
        OBVIOUS
      <4> QED
        BY <3>1, <4>1 DEF Results
    <3> QED
      BY <1>3, <3>2
  <2>2. all = [k \in 1 .. last |-> IF k = last THEN all[last] ELSE out[k]]
    BY <1>1, <1>3
  <2>3. \A k \in 1 .. last : (IF k = last THEN all[last] ELSE out[k]) \in Results
    BY <1>1, <1>2, <2>1
  <2> HIDE DEF all, last
  <2> QED
    BY SMTT(30), <1>1, <2>2, <2>3
<1> HIDE DEF all
<1>6. Ordered(all, p, n + 1)
  <2> HIDE DEF last
  <2>1. \A k \in DOMAIN all :
          all[k].rank = k /\ all[k].place \in 1 .. n + 1 /\ p[all[k].place] = "hit"
    BY <1>1, <1>3, <1>4 DEF Listed, Ordered
  <2>2. \A j, k \in DOMAIN all : j < k => all[j].place < all[k].place
    BY <1>3, <1>4 DEF Listed, Ordered
  <2>3. ASSUME NEW i \in 1 .. n + 1, p[i] = "hit" PROVE \E k \in DOMAIN all : all[k].place = i
    <3>1. i \in 1 .. n
      BY <1>1, <2>3
    <3>2. PICK k \in DOMAIN out : out[k].place = i
      BY <2>3, <3>1 DEF Listed, Ordered
    <3> QED
      BY <1>3, <1>4, <3>2
  <2> QED
    BY <2>1, <2>2, <2>3 DEF Ordered
<1>7. \A j \in out[last].place + 1 .. n : p[j] # "hit"
  <2> SUFFICES ASSUME NEW j \in out[last].place + 1 .. n, p[j] = "hit" PROVE FALSE
    OBVIOUS
  <2>1. j \in 1 .. n
    BY <1>1, <1>2
  <2>2. PICK k \in DOMAIN out : out[k].place = j
    BY <2>1 DEF Listed, Ordered
  <2>3. k = last \/ out[k].place < out[last].place
    BY SMTT(30), <1>1 DEF Listed, Ordered
  <2> QED
    BY SMTT(30), <1>1, <1>2, <2>2, <2>3
<1>8. Described(all, p, n + 1)
  <2>1. Owns(all[last], p, n + 1, n + 1)
    BY <1>1, <1>2, <1>4, <1>7 DEF Owns
  <2>2. ASSUME NEW k \in DOMAIN out \ {last}, NEW i \in Nat
        PROVE  Owns(all[k], p, n + 1, i) <=> Owns(out[k], p, n, i)
    <3>1. out[k].place < out[last].place /\ p[out[last].place] = "hit"
      BY <1>1 DEF Listed, Ordered
    <3>2. out[last].place \in out[k].place + 1 .. n + 1 /\ out[last].place <= n
      BY <1>1, <1>2, <3>1
    <3> QED
      BY <1>1, <1>2, <1>3, <3>1, <3>2 DEF Owns
  <2>3. ASSUME NEW k \in DOMAIN out \ {last}
        PROVE  /\ all[k].snippet # NoSnippet => Owns(all[k], p, n + 1, all[k].snippet)
               /\ all[k].snippet = NoSnippet =>
                    \A i \in 1 .. n + 1 : Owns(all[k], p, n + 1, i) => p[i] # "snippet"
    <3>1. all[k] = out[k]
      BY <1>3
    <3>2. out[k].snippet # NoSnippet => Owns(all[k], p, n + 1, out[k].snippet)
      BY <1>2, <2>2 DEF Listed, Described
    <3>3. ASSUME out[k].snippet = NoSnippet, NEW i \in 1 .. n + 1, Owns(all[k], p, n + 1, i)
          PROVE  p[i] # "snippet"
      <4>1. Owns(out[k], p, n, i)
        BY <2>2, <3>3
      <4>2. i \in 1 .. n
        BY <1>2, <4>1 DEF Owns
      <4> QED
        BY <3>3, <4>1, <4>2 DEF Listed, Described
    <3> QED
      BY <3>1, <3>2, <3>3
  <2>4. n + 1 # NoSnippet
    BY DEF NoSnippet
  <2> QED
    BY <1>3, <1>4, <2>1, <2>3, <2>4 DEF Described
<1>9. Attributed(all, p)
  BY <1>3, <1>4 DEF Listed, Attributed
<1> QED
  BY <1>5, <1>6, <1>8, <1>9 DEF Listed, all, last

\* Whatever an adapter makes of a payload lists it, by induction over the payload.
LEMMA ParsedIsListed ==
    ASSUME NEW p \in Seq(Kinds), \A i \in DOMAIN p : p[i] # "snippet"
    PROVE  Listed(Parsed(p), p, Len(p))
<1>1. PICK f : /\ f[0] = <<>>
               /\ \A k \in 1 .. Len(p) : f[k] = AddEntry(f[k - 1], Placed(p)[k])
               /\ \A k \in 0 .. Len(p) : f[k] \in Seq(Results)
               /\ Parsed(p) = f[Len(p)]
  BY ParsedEntryByEntry
<1> DEFINE Good == {n \in Nat : n <= Len(p) => Listed(f[n], p, n)}
<1>2. Len(p) \in Nat
  OBVIOUS
<1>3. 0 \in Good
  BY <1>1, NothingIsListed
<1>4. ASSUME NEW n \in Nat, n \in Good PROVE n + 1 \in Good
  <2> SUFFICES ASSUME n + 1 <= Len(p) PROVE Listed(f[n + 1], p, n + 1)
    OBVIOUS
  <2>1. n + 1 \in 1 .. Len(p) /\ n <= Len(p) /\ (n + 1) - 1 = n
    BY <1>2
  <2>2. Listed(f[n], p, n)
    BY <1>4, <2>1
  <2>3. Placed(p)[n + 1].item = p[n + 1] /\ Placed(p)[n + 1].at = n + 1
    BY <2>1, PlacedIsPlaced
  <2>4. f[n + 1] = IF p[n + 1] = "hit" THEN Append(f[n], Result(Len(f[n]) + 1, n + 1, n + 1))
                   ELSE f[n]
    BY <1>1, <2>1, <2>3 DEF AddEntry
  <2> HIDE DEF Good
  <2>5. CASE p[n + 1] = "hit"
    BY <2>2, <2>4, <2>5, HitIsListed
  <2>6. CASE p[n + 1] # "hit"
    <3>1. p[n + 1] # "snippet"
      BY <2>1
    <3> QED
      BY <2>2, <2>4, <2>6, <3>1, VoidIsListed
  <2> QED
    BY <2>5, <2>6
<1>5. Nat \subseteq Good
  <2> HIDE DEF Good
  <2> QED
    BY <1>3, <1>4, Entries!InductionOnASet
<1> QED
  BY <1>1, <1>2, <1>5

\* And so are those of a page of links: by induction over its items.
LEMMA ScrapeIsListed ==
    ASSUME NEW p \in Seq(Kinds)
    PROVE  Listed(Scrape(p), p, Len(p))
<1>1. PICK f : /\ f[0] = <<>>
               /\ \A k \in 1 .. Len(p) : f[k] = AddLink(f[k - 1], Placed(p)[k])
               /\ \A k \in 0 .. Len(p) : f[k] \in Seq(Results)
               /\ Scrape(p) = f[Len(p)]
  BY ScrapedLinkByLink
<1> DEFINE Good == {n \in Nat : n <= Len(p) => Listed(f[n], p, n)}
<1>2. Len(p) \in Nat
  OBVIOUS
<1>3. 0 \in Good
  BY <1>1, NothingIsListed
<1>4. ASSUME NEW n \in Nat, n \in Good PROVE n + 1 \in Good
  <2> SUFFICES ASSUME n + 1 <= Len(p) PROVE Listed(f[n + 1], p, n + 1)
    OBVIOUS
  <2>1. n + 1 \in 1 .. Len(p) /\ n <= Len(p) /\ (n + 1) - 1 = n
    BY <1>2
  <2>2. Listed(f[n], p, n)
    BY <1>4, <2>1
  <2>3. Placed(p)[n + 1].item = p[n + 1] /\ Placed(p)[n + 1].at = n + 1
    BY <2>1, PlacedIsPlaced
  <2>4. f[n + 1] = AddLink(f[n], Placed(p)[n + 1])
    BY <1>1, <2>1
  <2> HIDE DEF Good
  <2>5. CASE p[n + 1] = "hit"
    <3>1. f[n + 1] = Append(f[n], Result(Len(f[n]) + 1, n + 1, NoSnippet))
      BY <2>3, <2>4, <2>5 DEF AddLink
    <3> QED
      BY <2>2, <2>5, <3>1, HitIsListed
  <2>6. CASE p[n + 1] = "snippet" /\ f[n] # <<>>
    <3>1. f[n + 1] = [f[n] EXCEPT ![Len(f[n])].snippet = n + 1]
      BY <2>3, <2>4, <2>6 DEF AddLink
    <3> QED
      BY <2>2, <2>6, <3>1, SnippetIsListed
  <2>7. CASE p[n + 1] # "hit" /\ (p[n + 1] # "snippet" \/ f[n] = <<>>)
    <3>1. f[n + 1] = f[n]
      BY <2>3, <2>4, <2>7 DEF AddLink
    <3> QED
      BY <2>2, <2>7, <3>1, VoidIsListed
  <2> QED
    BY <2>5, <2>6, <2>7
<1>5. Nat \subseteq Good
  <2> HIDE DEF Good
  <2> QED
    BY <1>3, <1>4, Links!InductionOnASet
<1> QED
  BY <1>1, <1>2, <1>5

\* capTo keeps the first results.
LEMMA CapKeepsTheFirst ==
    ASSUME NEW rs \in Seq(Results), NEW max \in Nat
    PROVE  /\ CapTo(rs, max) \in Seq(Results)
           /\ Len(CapTo(rs, max)) <= max
           /\ Len(CapTo(rs, max)) < max => Len(CapTo(rs, max)) = Len(rs)
           /\ Len(CapTo(rs, max)) <= Len(rs)
           /\ \A k \in DOMAIN CapTo(rs, max) : k \in DOMAIN rs /\ CapTo(rs, max)[k] = rs[k]
<1> DEFINE n == IF Len(rs) > max THEN max ELSE Len(rs)
<1>1. n \in Nat /\ n <= Len(rs) /\ DOMAIN rs = 1 .. Len(rs) /\ Len(rs) \in Nat
  OBVIOUS
<1>2. \A i \in 1 .. n : rs[i] \in Results
  BY <1>1
<1>3. CapTo(rs, max) = SubSeq(rs, 1, n)
  BY DEF CapTo
<1>4. n = max \/ (n = Len(rs) /\ n < max)
  OBVIOUS
<1> HIDE DEF n
<1>5. /\ SubSeq(rs, 1, n) \in Seq(Results)
      /\ Len(SubSeq(rs, 1, n)) = IF 1 <= n THEN n - 1 + 1 ELSE 0
      /\ \A i \in 1 .. n - 1 + 1 : SubSeq(rs, 1, n)[i] = rs[1 + i - 1]
  BY <1>1, <1>2, SubSeqProperties
<1> DEFINE kept == CapTo(rs, max)
<1>6. kept \in Seq(Results) /\ Len(kept) = n /\ DOMAIN kept = 1 .. n
  BY <1>1, <1>3, <1>5
<1>7. \A k \in 1 .. n : kept[k] = rs[k]
  BY <1>1, <1>3, <1>5
<1>8. n <= max
  BY <1>4
<1> HIDE DEF kept
<1>9. Len(kept) <= max /\ Len(kept) <= Len(rs)
  BY <1>1, <1>6, <1>8
<1>10. Len(kept) < max => Len(kept) = Len(rs)
  BY <1>4, <1>6
<1>11. \A k \in DOMAIN kept : k \in DOMAIN rs /\ kept[k] = rs[k]
  <2>1. \A k \in 1 .. n : k \in 1 .. Len(rs)
    BY <1>1
  <2> QED
    BY <1>1, <1>6, <1>7, <2>1
<1> QED
  BY <1>6, <1>9, <1>10, <1>11 DEF kept

\* What a search that has succeeded replies: the first of the results the payload
\* lists.
Found(p, results, max) ==
    /\ p \in Payloads \cup {<<>>}
    /\ \E rs : Listed(rs, p, Len(p)) /\ results = CapTo(rs, max)

\* What a search found, and has replied.
Ranked ==
    /\ tool = "web_search" =>
        /\ limit \in Nat \ {0}
        /\ reply.code = "OK" => Found(payload, reply.results, limit)
    /\ reply = NoReply => payload = <<>>

\* Each adapter's results are the first of those its payload lists.
LEMMA EnginesFind ==
    ASSUME NEW e, NEW p \in Payloads, ToSet(p) \subseteq Items(e), NEW max \in Nat
    PROVE  Found(p, ResultsOf(e, p, max), max)
<1>1. p \in Seq(Kinds)
  BY PayloadsAssumption DEF Kinds
<1>2. CASE e \in Scraped
  BY <1>1, <1>2, ScrapeIsListed DEF ResultsOf, Found
<1>3. CASE e \notin Scraped
  <2>1. \A i \in DOMAIN p : p[i] # "snippet"
    BY <1>1, <1>3 DEF ToSet, Items
  <2> QED
    BY <1>1, <1>3, <2>1, ParsedIsListed DEF ResultsOf, Found
<1> QED
  BY <1>2, <1>3

\* Nothing is found in nothing.
LEMMA NothingIsFound == ASSUME NEW max \in Nat PROVE Found(<<>>, <<>>, max)
<1>1. Listed(<<>>, <<>>, Len(<<>>))
  BY NothingIsListed
<1>2. CapTo(<<>>, max) = <<>>
  <2>1. <<>> \in Seq(Results) /\ Len(<<>>) = 0
    OBVIOUS
  <2>2. CapTo(<<>>, max) \in Seq(Results) /\ Len(CapTo(<<>>, max)) <= 0
    BY <2>1, CapKeepsTheFirst
  <2> QED
    BY <2>2
<1> QED
  BY <1>1, <1>2 DEF Found

\* What a search found is a list of results.
LEMMA FoundIsTyped ==
    ASSUME NEW p, NEW results, NEW max \in Nat, Found(p, results, max)
    PROVE  results \in Seq(Results)
BY CapKeepsTheFirst DEF Found, Listed

\* No step breaks the ranking.
LEMMA RankedIsKept == ASSUME Fetched, Called, Ranked, [Next]_vars PROVE Ranked'
<1>0. ASSUME Serve, UNCHANGED payload PROVE reply' = NoReply => payload' = <<>>
  BY <1>0, RepliedIsFinal DEF Ranked
<1>1. CASE UNCHANGED <<tool, limit, payload, reply>>
  BY <1>1 DEF Ranked
<1>2. ASSUME Serve, UNCHANGED payload, tool' # "web_search" PROVE Ranked'
  BY <1>0, <1>2 DEF Ranked
<1>3. ASSUME NEW n \in Limits, Serve, CallSearch(n) PROVE Ranked'
  <2>1. limit' \in Nat \ {0} /\ reply' = NoReply /\ payload' = payload
    BY <1>3, LimitsAssumption, DefaultAssumption DEF CallSearch, MaxResults, Called
  <2> QED
    BY <1>0, <1>3, <2>1 DEF Ranked, NoReply
<1>4. ASSUME Serve, NEW h, EngineFails(h) PROVE Ranked'
  <2>1. reply'.code # "OK"
    BY <1>4, ErrorCodes, ErrorsAreReplies DEF EngineFails, Replying
  <2> QED
    BY <1>0, <1>4, <2>1 DEF EngineFails, Replying, request, Ranked
<1>5. ASSUME Serve, NEW e, EngineGarbles(e) PROVE Ranked'
  <2>1. reply'.code # "OK"
    BY <1>5, ErrorCodes, ErrorsAreReplies DEF EngineGarbles, Replying
  <2> QED
    BY <1>0, <1>5, <2>1 DEF EngineGarbles, Replying, request, Ranked
<1>6. ASSUME NEW e, NEW p \in Payloads, EngineAnswers(e, p) PROVE Ranked'
  <2>1. /\ tool = "web_search" /\ limit' = limit /\ payload' = p /\ ToSet(p) \subseteq Items(e)
        /\ reply' = [Success EXCEPT !.results = ResultsOf(e, p, limit)]
    BY <1>6 DEF EngineAnswers, Replying, request
  <2>2. limit \in Nat \ {0}
    BY <2>1 DEF Ranked
  <2>3. reply'.results = ResultsOf(e, p, limit) /\ reply' # NoReply
    BY <2>1 DEF Success, NoReply
  <2> QED
    BY <2>1, <2>2, <2>3, EnginesFind DEF Ranked
<1>7. ASSUME Serve, (\E n : CallFetch(n)) \/ (\E m, t : CallResearch(m, t))
             \/ ReplyFetch \/ ResearchEnds \/ (\E h : ModelFails(h))
      PROVE  tool' # "web_search" /\ UNCHANGED payload
  BY <1>7 DEF CallFetch, CallResearch, ReplyFetch, ResearchEnds, ModelFails, Replying, request
<1>8. Configure \/ Wire \/ Fetching \/ UNCHANGED vars => UNCHANGED <<tool, limit, payload, reply>>
  BY DEF Configure, Wire, Fetching, vars, calling, request
<1>9. ASSUME Serve, BreakersOpen PROVE Ranked'
  <2>1. /\ tool' = tool /\ limit' = limit /\ UNCHANGED payload /\ reply = NoReply
        /\ tool = "web_search" => reply'.results = <<>>
    BY <1>9 DEF BreakersOpen, Searching, Replying, request, Success, NoReply
  <2>2. payload' = <<>>
    BY <2>1 DEF Ranked
  <2> QED
    BY <2>1, <2>2, NothingIsFound DEF Ranked
<1> QED
  BY <1>1, <1>2, <1>3, <1>4, <1>5, <1>6, <1>7, <1>8, <1>9 DEF Next, Serve, Call, Work

\* It is an invariant.
LEMMA RankedHolds == Spec => []Ranked
<1>1. Init => Ranked
  BY DEF Init, ToolsIdle, Ranked
<1>2. Fetched /\ Called /\ Ranked /\ [Next]_vars => Ranked'
  BY RankedIsKept
<1> QED
  BY <1>1, <1>2, CallHolds, PTL DEF Spec

\* A search returns what the engine has sent, in its order and ranked without a gap,
\* and nothing usable is left out below the limit (specs/SPEC.md:7-10); a snippet
\* between the link of a result and the next link is at that result, and none from
\* elsewhere is, save where the snippet of a left-out link follows, of which nothing
\* is said: for payloads of every length and every limit.
THEOREM RankingHasNoGaps == Spec => []RankingIsGapless
<1>1. Ranked => RankingIsGapless
  <2> SUFFICES ASSUME Ranked, tool = "web_search", reply.code = "OK" PROVE RankingIsGapless
    BY DEF RankingIsGapless
  <2> DEFINE p == payload
             n == Len(payload)
             out == reply.results
             upTo(links, k) == {i \in out[k].place .. n :
                                  \A j \in out[k].place + 1 .. i : p[j] \notin links}
             own(k) == upTo({"hit", "void"}, k)
             astray(k) == upTo({"hit"}, k) \ own(k)
  <2>1. limit \in Nat /\ Found(payload, reply.results, limit)
    BY DEF Ranked
  <2>2. PICK rs : Listed(rs, payload, Len(payload)) /\ reply.results = CapTo(rs, limit)
    BY <2>1 DEF Found
  <2>3. payload \in Seq(Kinds) /\ Len(payload) \in Nat /\ DOMAIN payload = 1 .. Len(payload)
    <3>1. <<>> \in Seq(Kinds) /\ payload \in Payloads \cup {<<>>}
      BY <2>1 DEF Found
    <3>2. payload \in Seq(Kinds)
      BY <3>1, PayloadsAssumption DEF Kinds
    <3> QED
      BY <3>2
  <2>4. rs \in Seq(Results)
    BY <2>2 DEF Listed
  <2>5. /\ out \in Seq(Results) /\ Len(out) <= limit
        /\ Len(out) < limit => Len(out) = Len(rs)
        /\ Len(out) <= Len(rs)
        /\ \A k \in DOMAIN out : k \in DOMAIN rs /\ out[k] = rs[k]
    BY <2>1, <2>2, <2>4, CapKeepsTheFirst
  <2>6. ASSUME NEW k \in DOMAIN out, NEW i
        PROVE  /\ i \in upTo({"hit"}, k) <=> Owns(rs[k], p, n, i)
               /\ i \in own(k) => i \in upTo({"hit"}, k)
    BY <2>5 DEF Owns
  <2>7. ASSUME NEW k \in DOMAIN out PROVE out[k].rank = k /\ p[out[k].place] = "hit"
    BY <2>2, <2>5 DEF Listed, Ordered
  <2>8. ASSUME NEW k \in DOMAIN out, \A i \in astray(k) : p[i] # "snippet",
               out[k].snippet # NoSnippet
        PROVE  out[k].snippet \in own(k)
    <3>1. rs[k].snippet # NoSnippet /\ k \in DOMAIN rs /\ out[k] = rs[k]
      BY <2>5, <2>8
    <3>2. Owns(rs[k], p, n, rs[k].snippet)
      BY <2>2, <3>1 DEF Listed, Described
    <3>3. out[k].snippet \in upTo({"hit"}, k)
      BY <2>6, <3>1, <3>2
    <3>4. CASE p[out[k].snippet] = "snippet"
      BY <2>8, <3>3, <3>4
    <3>5. CASE out[k].snippet = out[k].place
      <4>1. out[k].place \in 1 .. n
        BY <2>2, <3>1 DEF Listed, Ordered
      <4>2. out[k].place + 1 .. out[k].place = {} /\ out[k].place \in out[k].place .. n
        BY <2>3, <4>1
      <4> QED
        BY <3>5, <4>2
    <3> QED
      BY <2>2, <2>8, <3>1, <3>4, <3>5 DEF Listed, Attributed
  <2>9. ASSUME NEW k \in DOMAIN out, out[k].snippet = NoSnippet, NEW i \in own(k)
        PROVE  p[i] # "snippet"
    <3>1. rs[k].snippet = NoSnippet /\ k \in DOMAIN rs
      BY <2>5, <2>9
    <3>2. Owns(rs[k], p, n, i)
      BY <2>6
    <3>3. rs[k].place \in 1 .. n
      BY <2>2, <3>1 DEF Listed, Ordered
    <3>4. i \in 1 .. n
      BY <2>3, <3>2, <3>3 DEF Owns
    <3> QED
      BY <2>2, <3>1, <3>2, <3>4 DEF Listed, Described
  <2>10. \A j, k \in DOMAIN out : j < k => out[j].place < out[k].place
    BY <2>2, <2>5 DEF Listed, Ordered
  <2>11. ASSUME Len(out) < limit, NEW i \in DOMAIN payload, payload[i] = "hit"
         PROVE  \E k \in DOMAIN out : out[k].place = i
    <3>1. PICK k \in DOMAIN rs : rs[k].place = i
      BY <2>2, <2>3, <2>11 DEF Listed, Ordered
    <3>2. k \in DOMAIN out
      BY <2>4, <2>5, <2>11
    <3> QED
      BY <2>5, <3>1, <3>2
  <2> QED
    BY <2>5, <2>7, <2>8, <2>9, <2>10, <2>11 DEF RankingIsGapless
<1> QED
  BY <1>1, RankedHolds, PTL

-----------------------------------------------------------------------------
(* Types.                                                                  *)

\* Every reply there is.
Replies == [code: Codes \cup {"none", "OK"}, retryable: BOOLEAN, words: Nat,
            truncated: BOOLEAN, results: Seq(Results), parts: SUBSET {"answer", "sources"}]

\* Whatever a tool replies is one of them.
LEMMA RepliesAreTyped ==
    /\ NoReply \in Replies /\ Success \in Replies
    /\ \A code \in Codes, b \in BOOLEAN : ErrMap(code, b) \in Replies
    /\ \A w \in Nat, b \in BOOLEAN : PageReply(w, b) \in Replies
    /\ \A rs \in Seq(Results) : [Success EXCEPT !.results = rs] \in Replies
    /\ \A ps \in SUBSET {"answer", "sources"} : [Success EXCEPT !.parts = ps] \in Replies
<1> DEFINE R == [code: Codes \cup {"none", "OK"}, retryable: BOOLEAN, words: Nat,
                 truncated: BOOLEAN, results: Seq(Results), parts: SUBSET {"answer", "sources"}]
<1> HIDE DEF Results, Codes
<1>1. FALSE \in BOOLEAN /\ 0 \in Nat /\ <<>> \in Seq(Results) /\ {} \in SUBSET {"answer", "sources"}
  OBVIOUS
<1>2. NoReply \in Replies
  BY <1>1 DEF NoReply, Replies
<1>3. Success \in Replies
  BY <1>2 DEF Success, Replies
<1>4. ASSUME NEW code \in Codes, NEW b \in BOOLEAN PROVE ErrMap(code, b) \in Replies
  BY <1>2 DEF ErrMap, Replies
<1>5. ASSUME NEW w \in Nat, NEW b \in BOOLEAN PROVE PageReply(w, b) \in Replies
  BY <1>3 DEF PageReply, Replies
<1>6. ASSUME NEW rs \in Seq(Results) PROVE [Success EXCEPT !.results = rs] \in Replies
  BY <1>3 DEF Replies
<1>7. ASSUME NEW ps \in SUBSET {"answer", "sources"} PROVE [Success EXCEPT !.parts = ps] \in Replies
  BY <1>3 DEF Replies
<1> QED
  BY <1>2, <1>3, <1>4, <1>5, <1>6, <1>7

\* What the fetcher may have heard, and returned.
Heard == {Silence} \cup {Status(s) : s \in Statuses} \cup Breaks

\* Every outcome of a fetch.
Pages == {Page(w, via) : w \in Words, via \in {"static", "dynamic"}}
Errors == {Fails(ErrorOf(h)) : h \in Failures}
Outcomes == {Nothing, Fails(ErrEmpty)} \cup Errors \cup Pages

\* Whatever a fetch ends with is one of them.
LEMMA OutcomesAreOutcomes ==
    /\ \A h \in Failures : h \in Heard /\ Fails(ErrorOf(h)) \in Outcomes
    /\ \A w \in {Empty} \cup Words : Extracted(w) \in Outcomes
    /\ \A w \in Words : Page(w, "dynamic") \in Outcomes
    /\ Nothing \in Outcomes
<1>1. ASSUME NEW h \in Failures PROVE h \in Heard /\ Fails(ErrorOf(h)) \in Outcomes
  <2>1. h \in Heard
    BY DEF Failures, Heard
  <2>2. Fails(ErrorOf(h)) \in Errors
    BY DEF Errors
  <2> QED
    BY <2>1, <2>2 DEF Outcomes
<1>2. \A w \in Words : Page(w, "static") \in Pages /\ Page(w, "dynamic") \in Pages
  BY DEF Pages
<1>3. \A w \in {Empty} \cup Words : Extracted(w) \in {Fails(ErrEmpty)} \cup Pages
  BY <1>2 DEF Extracted
<1> QED
  BY <1>1, <1>2, <1>3 DEF Outcomes

\* FetcherTypeOK without the flag.
Parts ==
    /\ threshold \in {0} \cup Thresholds
    /\ stage \in {"idle", "getting", "rendering", "done"}
    /\ heard \in Heard
    /\ static \in {None, Empty} \cup Words
    /\ rendered \in {Failed, None, Empty} \cup Words
    /\ outcome \in Outcomes

\* No step breaks what is known of the parts of the fetcher.
LEMMA PartsAreKept == ASSUME Started, Fetched, Parts, [Next]_vars PROVE Parts'
<1>1. CASE UNCHANGED <<threshold, fetching>>
  BY <1>1 DEF Parts, fetching
<1>2. CASE Wire
  <2>1. Read
    BY <1>2 DEF Wire, Start!Build, Started
  <2>2. settings.threshold \in Thresholds
    BY <2>1, AtoiAssumption DEF Read, NumberOf
  <2>3. threshold' \in {threshold, 0, settings.threshold} /\ UNCHANGED fetching
    BY <1>2 DEF Wire, wiring, fetcher, calling
  <2> QED
    BY <2>2, <2>3 DEF Parts, fetching
<1>3. ASSUME NEW n, CallFetch(n) PROVE Parts'
  BY <1>3 DEF CallFetch, Fetch, fetcher, Parts
<1>4. ASSUME NEW h \in Failures, GetFails(h) PROVE Parts'
  <2>1. heard' \in Heard /\ outcome' \in Outcomes
    BY <1>4, OutcomesAreOutcomes DEF GetFails, Return
  <2> QED
    BY <1>4, <2>1 DEF GetFails, Return, fetcher, Parts
<1>5. ASSUME NEW s \in {t \in Statuses : KindOf(t) = "ok"}, NEW w \in {Empty} \cup Words,
             GetPage(s, w)
      PROVE  Parts'
  <2>1. heard' \in Heard
    BY <1>5 DEF GetPage, Heard
  <2>2. outcome' \in Outcomes
    BY <1>5, OutcomesAreOutcomes DEF GetPage, Return, Parts
  <2> QED
    BY <1>5, <2>1, <2>2 DEF GetPage, Return, fetcher, Parts
<1>6. ASSUME NEW w \in {Failed, Empty} \cup Words, Render(w) PROVE Parts'
  <2>1. static \in {Empty} \cup Words
    BY <1>6 DEF Render, Fetched, None, Empty, Words, Failures
  <2>2. outcome' \in Outcomes
    BY <1>6, <2>1, OutcomesAreOutcomes DEF Render, Return, Better
  <2> QED
    BY <1>6, <2>2 DEF Render, Return, fetcher, Parts
<1>7. ASSUME NEW h \in Failures, EngineFails(h) \/ ModelFails(h) PROVE Parts'
  <2>1. heard' \in Heard
    BY <1>7, OutcomesAreOutcomes DEF EngineFails, ModelFails
  <2> QED
    BY <1>7, <2>1 DEF EngineFails, ModelFails, fetcher, Parts
<1> QED
  BY <1>1, <1>2, <1>3, <1>4, <1>5, <1>6, <1>7
  DEF Next, Configure, Serve, Call, Work, CallSearch, CallResearch, Fetching,
      FetchStep, ReplyFetch, EngineGarbles, BreakersOpen, EngineAnswers, ResearchEnds, vars,
      wiring, calling, fetcher, fetching

\* The types of a call.
CallTypes ==
    /\ limit \in Int
    /\ mode \in Modes /\ synthesis \in Syntheses
    /\ culprit \in {"nobody", "site", "page", "engine", "breakers", "model"}
    /\ payload \in Payloads \cup {<<>>}
    /\ reply \in Replies

\* No step breaks the types of a call.
LEMMA CallTypesAreKept ==
    ASSUME Fetched, Called, Ranked, CallTypes, [Next]_vars
    PROVE  CallTypes'
<1>1. CASE UNCHANGED <<request, culprit, payload, reply>>
  BY <1>1 DEF CallTypes, request
<1>2. ASSUME NEW n \in Limits, CallFetch(n) \/ CallSearch(n) PROVE CallTypes'
  <2>1. limit' \in Int
    BY <1>2, LimitsAssumption, DefaultAssumption DEF CallFetch, CallSearch, MaxResults
  <2> QED
    BY <1>2, <2>1 DEF CallFetch, CallSearch, CallTypes
<1>3. ASSUME NEW m \in Modes, NEW s \in Syntheses, CallResearch(m, s) PROVE CallTypes'
  <2>1. mode' \in Modes
    BY <1>3 DEF CallResearch, Modes
  <2> QED
    BY <1>3, <2>1 DEF CallResearch, CallTypes
<1>4. CASE Serve /\ ReplyFetch
  <2>1. UNCHANGED <<request, payload>>
    BY <1>4 DEF ReplyFetch, Replying
  <2>2. culprit' \in {"nobody", "site", "page", "engine", "breakers", "model"}
    BY <1>4 DEF ReplyFetch, CallTypes
  <2>3. CASE reply' = ErrMap(FetchCode(outcome.err), WorthRetrying(FetchCode(outcome.err)))
    <3>1. WorthRetrying(FetchCode(outcome.err)) \in BOOLEAN
      <4> DEFINE code == FetchCode(outcome.err)
      <4> HIDE DEF code
      <4>1. WorthRetrying(code) = TRUE \/ WorthRetrying(code) = FALSE
        <5>1. code \in {"RATELIMITED", "TIMEOUT"} => WorthRetrying(code) = TRUE
          BY DEF WorthRetrying
        <5>2. code \notin {"RATELIMITED", "TIMEOUT"} => WorthRetrying(code) = FALSE
          BY DEF WorthRetrying
        <5> QED
          BY <5>1, <5>2
      <4> QED
        BY <4>1 DEF code
    <3>2. reply' \in Replies
      BY <2>3, <3>1, ErrorCodes, RepliesAreTyped
    <3> QED
      BY <2>1, <2>2, <3>2 DEF CallTypes, request
  <2>4. ASSUME outcome.err = NoError,
               reply' = PageReply(IF Truncated(outcome.words) THEN limit ELSE outcome.words,
                                  Truncated(outcome.words))
        PROVE  CallTypes'
    <3>1. Truncated(outcome.words) \in BOOLEAN
      BY Zenon DEF Truncated
    <3>2. outcome.words \in Nat
      <4>1. stage = "done"
        BY <1>4 DEF ReplyFetch
      <4>2. heard \in Failures => ErrorOf(heard) # NoError
        BY WhatAFailureShows DEF NoError, Chain
      <4>3. NoError # ErrEmpty
        BY DEF NoError, ErrEmpty, Chain
      <4> QED
        BY <2>4, <4>1, <4>2, <4>3, WordsAssumption
        DEF Fetched, Extracted, Better, Page, Fails, Failed, None, Empty, Words
    <3>3. Truncated(outcome.words) => limit \in Nat
      BY DEF Truncated, CallTypes
    <3>4. (IF Truncated(outcome.words) THEN limit ELSE outcome.words) \in Nat
      BY <3>2, <3>3
    <3>5. reply' \in Replies
      BY <2>4, <3>1, <3>4, RepliesAreTyped
    <3> QED
      BY <2>1, <2>2, <3>5 DEF CallTypes, request
  <2> QED
    BY <1>4, <2>3, <2>4, Zenon DEF ReplyFetch, Replying, PageReply
<1>5. ASSUME NEW h, EngineFails(h) \/ ModelFails(h) PROVE CallTypes'
  <2>1. TRUE \in BOOLEAN
    OBVIOUS
  <2>2. reply' \in Replies
    BY <1>5, <2>1, ErrorCodes, RepliesAreTyped DEF EngineFails, ModelFails, Replying
  <2> QED
    BY <1>5, <2>2 DEF EngineFails, ModelFails, Replying, request, CallTypes
<1>6. ASSUME NEW e, EngineGarbles(e) PROVE CallTypes'
  <2>1. TRUE \in BOOLEAN
    OBVIOUS
  <2>2. reply' \in Replies
    BY <1>6, <2>1, ErrorCodes, RepliesAreTyped DEF EngineGarbles, Replying
  <2> QED
    BY <1>6, <2>2 DEF EngineGarbles, Replying, request, CallTypes
<1>7. ASSUME NEW e, NEW p \in Payloads, EngineAnswers(e, p) PROVE CallTypes'
  <2>1. limit \in Nat /\ ToSet(p) \subseteq Items(e)
    BY <1>7 DEF EngineAnswers, Ranked
  <2>2. ResultsOf(e, p, limit) \in Seq(Results)
    BY <2>1, EnginesFind, FoundIsTyped
  <2>3. reply' \in Replies
    BY <1>7, <2>2, RepliesAreTyped DEF EngineAnswers, Replying
  <2> QED
    BY <1>7, <2>3 DEF EngineAnswers, Replying, request, CallTypes
<1>8. ASSUME ResearchEnds PROVE CallTypes'
  <2>1. \E ps \in SUBSET {"answer", "sources"} : reply' = [Success EXCEPT !.parts = ps]
    <3>1. reply' = [Success EXCEPT !.parts =
                       (IF mode \in {"answer", "both"} THEN {"answer"} ELSE {}) \cup
                       (IF mode \in {"sources", "both"} THEN {"sources"} ELSE {})]
      BY <1>8 DEF ResearchEnds, Replying
    <3>2. (IF mode \in {"answer", "both"} THEN {"answer"} ELSE {}) \cup
          (IF mode \in {"sources", "both"} THEN {"sources"} ELSE {})
             \in SUBSET {"answer", "sources"}
      OBVIOUS
    <3> QED
      BY <3>1, <3>2
  <2>2. reply' \in Replies
    BY <2>1, RepliesAreTyped
  <2> QED
    BY <1>8, <2>2 DEF ResearchEnds, Replying, request, CallTypes
<1>9. Configure \/ Wire \/ Fetching \/ UNCHANGED vars => UNCHANGED <<request, culprit, payload, reply>>
  BY DEF Configure, Wire, Fetching, vars, calling
<1>10. CASE BreakersOpen
  <2>1. Success \in Replies
    BY RepliesAreTyped
  <2>2. /\ reply' = reply \/ reply' = Success
        /\ UNCHANGED <<limit, mode, synthesis, payload>> /\ culprit' = "breakers"
    BY <1>10 DEF BreakersOpen, Replying, request
  <2>3. reply' \in Replies
    BY <2>1, <2>2 DEF CallTypes
  <2> QED
    BY <2>2, <2>3 DEF CallTypes
<1> QED
  BY <1>1, <1>2, <1>3, <1>4, <1>5, <1>6, <1>7, <1>8, <1>9, <1>10 DEF Next, Serve, Call, Work

\* The state is of the form the code gives it: for all inputs.
THEOREM TypeCorrect == Spec => []TypeOK
<1>1. Init => Parts /\ CallTypes
  <2> SUFFICES ASSUME Init PROVE Parts /\ CallTypes
    OBVIOUS
  <2>1. Parts
    BY OutcomesAreOutcomes DEF Init, ToolsIdle, FetcherIdle, Parts, Heard
  <2>2. CallTypes
    BY RepliesAreTyped DEF Init, ToolsIdle, CallTypes, Modes, Syntheses
  <2> QED
    BY <2>1, <2>2
<1>2. Started /\ Fetched /\ Called /\ Ranked /\ Parts /\ CallTypes /\ [Next]_vars
      => Parts' /\ CallTypes'
  BY PartsAreKept, CallTypesAreKept
<1>3. Started /\ Fetched /\ Called /\ Parts /\ CallTypes => TypeOK
  <2> SUFFICES ASSUME Started, Fetched, Called, Parts, CallTypes PROVE TypeOK
    OBVIOUS
  <2>1. renderer \in BOOLEAN
    BY Zenon DEF Fetched
  <2>2. contacted \in BOOLEAN
    BY Zenon DEF Called
  <2>3. outcome \in {Nothing, Fails(ErrEmpty)} \cup {Fails(ErrorOf(h)) : h \in Failures}
                   \cup {Page(w, via) : w \in Words, via \in {"static", "dynamic"}}
    BY DEF Parts, Outcomes, Errors, Pages
  <2>4. FetcherTypeOK
    <3>1. heard \in {Silence} \cup {Status(s) : s \in Statuses} \cup Breaks
      BY DEF Parts, Heard
    <3>2. /\ threshold \in {0} \cup Thresholds
          /\ stage \in {"idle", "getting", "rendering", "done"}
          /\ static \in {None, Empty} \cup Words
          /\ rendered \in {Failed, None, Empty} \cup Words
      BY DEF Parts
    <3> QED
      BY <2>1, <2>3, <3>1, <3>2 DEF FetcherTypeOK
  <2>5. tool \in {"none", "web_fetch", "web_search", "web_research"}
    BY DEF Called
  <2>6. ToolsTypeOK
    BY <2>2, <2>4, <2>5, Zenon DEF ToolsTypeOK, CallTypes, Replies
  <2> QED
    BY <2>6, StartedIsTyped DEF TypeOK, Started
<1> QED
  BY <1>1, <1>2, <1>3, CallHolds, RankedHolds, PTL DEF Spec
=============================================================================
