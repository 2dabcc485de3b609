------------------------ MODULE GeneratedCodeProofs ------------------------
(***************************************************************************)
(* Theorems about code that the generators write: the Gherkin runner of    *)
(* bddgen (Bdd), the tables, rows and documents of schemagen's versions    *)
(* (SchemaVersions), the lexer of lexgen (Lexer), and the routes and error *)
(* codes of apigen (ApiTables).  They hold for every feature file, schema, *)
(* token table, text and .api file, whatever the limits.                   *)
(***************************************************************************)
EXTENDS Bdd, SchemaVersions, Lexer, ApiTables, DataLemmas

(***************************************************************************)
(* Bdd.  The invariant of the parser's tables comes first, and what it     *)
(* says of keywords; then that of the runner, which goes by the tables.    *)
(***************************************************************************)

BddStep == [keyword : Keywords \cup Conjunctions, resolved : Keywords,
            block : Nat \X Nat, place : Nat]
BddScenario == [start : Nat, count : Nat]
BddFeature == [scenarios : Seq(BddScenario), background : Nat]
BddParserState == [scenario : Nat \X Nat, inBackground : BOOLEAN, last : Keywords,
                   refused : BOOLEAN, dropped : Nat, lost : Nat]

\* Each table is typed, and each step was counted in a block.
BddTablesTyped ==
  /\ features \in Seq(BddFeature) /\ Len(features) <= MaxFeatures
  /\ \A f \in 1..Len(features) : Len(features[f].scenarios) <= MaxScenarios
  /\ bddSteps \in Seq(BddStep) /\ Len(bddSteps) <= MaxSteps
  /\ bddParser \in BddParserState
  /\ \A i \in 1..Len(bddSteps) :
       /\ bddSteps[i].block[1] \in 1..Len(features)
       /\ bddSteps[i].block[2] \in 0..Len(features[bddSteps[i].block[1]].scenarios)

\* A range starts in the table and ends in it while the table has room.
RangesLieInTheTable ==
  \A f \in 1..Len(features) : \A s \in 1..Len(features[f].scenarios) :
    LET sc == features[f].scenarios[s]
    IN /\ sc.start \in 1..(Len(bddSteps) + 1)
       /\ bddParser.dropped = 0 => sc.start + sc.count <= Len(bddSteps) + 1

\* The scenario the parser is in is the last of its feature, and its range still grows.
OpenScenario ==
  /\ bddParser.inBackground => Len(features) >= 1 /\ bddParser.scenario = NoScenario
  /\ bddParser.scenario # NoScenario =>
       LET f == bddParser.scenario[1]
           s == bddParser.scenario[2]
       IN /\ f \in 1..Len(features) /\ s >= 1 /\ s = Len(features[f].scenarios)
          /\ bddParser.dropped = 0 =>
               features[f].scenarios[s].start + features[f].scenarios[s].count =
                 Len(bddSteps) + 1

\* A keyword is that of the line or of the step before it.
KeywordsAreResolved ==
  /\ \A i \in 1..Len(bddSteps) :
       /\ bddSteps[i].keyword \in Keywords => bddSteps[i].resolved = bddSteps[i].keyword
       /\ bddSteps[i].keyword \in Conjunctions /\ i > 1 =>
            bddSteps[i].resolved = bddSteps[i - 1].resolved
  /\ Len(bddSteps) >= 1 => bddParser.last = bddSteps[Len(bddSteps)].resolved

\* What comes before a scenario of the first feature is counted by the scenarios before
\* it or by its Background; so is the whole table while there is no second feature.
ShiftOfRanges ==
  bddParser.dropped = 0 /\ Len(features) >= 1 =>
    /\ \A n \in 1..Len(features[1].scenarios) :
         features[1].scenarios[n].start =
           1 + SumBefore[n] + Cardinality(BackgroundBefore(n))
    /\ Len(features) = 1 =>
         Len(bddSteps) = SumBefore[Len(features[1].scenarios) + 1]
                           + Cardinality(StepsOf(<<1, 0>>))

BddTablesInv ==
  /\ BddTablesTyped /\ RangesLieInTheTable /\ OpenScenario /\ KeywordsAreResolved
  /\ RangesAreScenarios /\ ShiftOfRanges

\* The recursion of SumBefore, over the rows c.
RunningSum(c) == CHOOSE f : f = [n \in Nat |-> IF n <= 1 THEN 0 ELSE f[n - 1] + c[n - 1].count]

LEMMA SumBeforeIsRunningSum == SumBefore = RunningSum(features[1].scenarios)
BY DEF SumBefore, RunningSum

\* The recursive definition defines a function: the parts of it up to n exist and agree.
LEMMA RunningSumRec ==
  ASSUME NEW c
  PROVE  \A n \in Nat :
           RunningSum(c)[n] = IF n <= 1 THEN 0 ELSE RunningSum(c)[n - 1] + c[n - 1].count
<1> DEFINE Part(f, n) == f = [m \in 0..n |-> IF m <= 1 THEN 0 ELSE f[m - 1] + c[m - 1].count]
           Has == {n \in Nat : \E f : Part(f, n)}
<1>1. 0 \in Has
  <2>1. Part([m \in 0..0 |-> 0], 0)
    OBVIOUS
  <2> QED BY <2>1
<1>2. \A n \in Has : n + 1 \in Has
  <2> SUFFICES ASSUME NEW n \in Has PROVE \E g : Part(g, n + 1)
    OBVIOUS
  <2>1. PICK f : Part(f, n)
    OBVIOUS
  <2> DEFINE g == [m \in 0..(n + 1) |->
                    IF m <= n THEN f[m] ELSE IF m <= 1 THEN 0 ELSE f[m - 1] + c[m - 1].count]
  <2>2. \A m \in 0..n : f[m] = IF m <= 1 THEN 0 ELSE f[m - 1] + c[m - 1].count
    BY <2>1
  <2>3. \A m \in 0..(n + 1) : g[m] = IF m <= 1 THEN 0 ELSE g[m - 1] + c[m - 1].count
    BY <2>2
  <2>4. Part(g, n + 1)
    BY <2>3
  <2> QED BY <2>4
<1>3. Has = Nat
  <2> HIDE DEF Part
  <2> QED BY <1>1, <1>2, SetInduction
<1> DEFINE part(n) == CHOOSE f : Part(f, n)
           F == [n \in Nat |-> part(n)[n]]
<1>4. \A n \in Nat : Part(part(n), n)
  <2> HIDE DEF Part
  <2> QED BY <1>3
<1>5. \A n \in Nat : \A m \in 0..n : part(n)[m] =
          IF m <= 1 THEN 0 ELSE part(n)[m - 1] + c[m - 1].count
  BY <1>4
<1> HIDE DEF part
<1>6. ASSUME NEW n \in Nat
      PROVE  \A m \in 0..n : part(n + 1)[m] = part(n)[m]
  <2> DEFINE Same == {m \in Nat : m <= n => part(n + 1)[m] = part(n)[m]}
  <2>1. 0 \in Same
    BY <1>5
  <2>2. \A m \in Same : m + 1 \in Same
    BY <1>5
  <2>3. Same = Nat
    <3> HIDE DEF Same
    <3>1. Same \in SUBSET Nat
      BY DEF Same
    <3> QED BY <2>1, <2>2, <3>1, SetInduction
  <2> QED BY <2>3
<1>7. \A n \in Nat : F[n] = IF n <= 1 THEN 0 ELSE F[n - 1] + c[n - 1].count
  <2> SUFFICES ASSUME NEW n \in Nat
               PROVE  part(n)[n] = IF n <= 1 THEN 0 ELSE part(n - 1)[n - 1] + c[n - 1].count
    OBVIOUS
  <2>1. CASE n <= 1
    BY <2>1, <1>5
  <2>2. CASE n > 1
    <3>1. n - 1 \in Nat /\ n - 1 \in 0..(n - 1) /\ n - 1 + 1 = n
      BY <2>2
    <3>2. part(n)[n - 1] = part(n - 1)[n - 1]
      BY <1>6, <3>1
    <3>3. part(n)[n] = part(n)[n - 1] + c[n - 1].count
      BY <1>5, <2>2
    <3> QED BY <2>2, <3>2, <3>3
  <2> QED BY <2>1, <2>2
<1>8. F = [n \in Nat |-> IF n <= 1 THEN 0 ELSE F[n - 1] + c[n - 1].count]
  BY <1>7
<1> HIDE DEF F
<1> DEFINE Q(f) == f = [n \in Nat |-> IF n <= 1 THEN 0 ELSE f[n - 1] + c[n - 1].count]
<1>9. Q(RunningSum(c))
  <2>1. RunningSum(c) = CHOOSE f : Q(f)
    BY DEF RunningSum
  <2>2. Q(F)
    BY <1>8
  <2> HIDE DEF Q
  <2> QED BY <2>1, <2>2
<1> QED BY <1>9

\* Each sum past the first adds the row before it.
LEMMA RunningSumGrows ==
  ASSUME NEW c, NEW m \in Nat \ {0}
  PROVE  RunningSum(c)[m + 1] = RunningSum(c)[m] + c[m].count
<1>1. m + 1 \in Nat /\ ~(m + 1 <= 1) /\ m + 1 - 1 = m
  OBVIOUS
<1> QED BY <1>1, RunningSumRec

SameCounts(c, d, b) == \A m \in 1..b : c[m].count = d[m].count

\* The sums up to n depend on the rows before n only.
LEMMA RunningSumAgrees ==
  ASSUME NEW c, NEW d, NEW b \in Nat, SameCounts(c, d, b)
  PROVE  \A n \in 0..(b + 1) : RunningSum(c)[n] = RunningSum(d)[n]
<1> DEFINE Same == {n \in Nat : n <= b + 1 => RunningSum(c)[n] = RunningSum(d)[n]}
<1>1. 0 \in Same
  BY RunningSumRec
<1>2. ASSUME NEW n \in Same PROVE n + 1 \in Same
  <2> SUFFICES ASSUME n + 1 <= b + 1, n + 1 > 1
               PROVE  RunningSum(c)[n + 1] = RunningSum(d)[n + 1]
    BY RunningSumRec
  <2>1. n \in 1..b /\ n + 1 \in Nat /\ n + 1 - 1 = n
    OBVIOUS
  <2>2. RunningSum(c)[n + 1] = RunningSum(c)[n] + c[n].count
    BY <2>1, RunningSumRec
  <2>3. RunningSum(d)[n + 1] = RunningSum(d)[n] + d[n].count
    BY <2>1, RunningSumRec
  <2> QED BY <2>1, <2>2, <2>3 DEF SameCounts
<1>3. Same = Nat
  <2>1. Same \in SUBSET Nat
    OBVIOUS
  <2> HIDE DEF Same
  <2> QED BY <1>1, <1>2, <2>1, SetInduction
<1> QED BY <1>3

LEMMA RunningSumNat ==
  ASSUME NEW c, NEW b \in Nat, \A m \in 1..b : c[m].count \in Nat
  PROVE  \A n \in 0..(b + 1) : RunningSum(c)[n] \in Nat
<1> DEFINE Good == {n \in Nat : n <= b + 1 => RunningSum(c)[n] \in Nat}
<1>1. 0 \in Good
  BY RunningSumRec
<1>2. ASSUME NEW n \in Good PROVE n + 1 \in Good
  <2> SUFFICES ASSUME n + 1 <= b + 1, n + 1 > 1 PROVE RunningSum(c)[n + 1] \in Nat
    BY RunningSumRec
  <2>1. n \in 1..b /\ n + 1 \in Nat /\ n + 1 - 1 = n
    OBVIOUS
  <2>2. RunningSum(c)[n + 1] = RunningSum(c)[n] + c[n].count
    BY <2>1, RunningSumRec
  <2> QED BY <2>1, <2>2
<1>3. Good = Nat
  <2>1. Good \in SUBSET Nat
    OBVIOUS
  <2> HIDE DEF Good
  <2> QED BY <1>1, <1>2, <2>1, SetInduction
<1> QED BY <1>3
-----------------------------------------------------------------------------
(* The tables. *)

LEMMA BddLimits == MaxFeatures \in Nat /\ MaxScenarios \in Nat /\ MaxSteps \in Nat
BY BddAssumption

LEMMA FeatureTypes ==
  ASSUME NEW fs \in Seq(BddFeature)
  PROVE  /\ DOMAIN fs = 1..Len(fs) /\ Len(fs) \in Nat
         /\ \A f \in 1..Len(fs) :
              /\ fs[f] \in BddFeature /\ fs[f].background \in Nat
              /\ fs[f].scenarios \in Seq(BddScenario)
              /\ DOMAIN fs[f].scenarios = 1..Len(fs[f].scenarios)
              /\ Len(fs[f].scenarios) \in Nat
              /\ \A s \in 1..Len(fs[f].scenarios) :
                   /\ fs[f].scenarios[s] \in BddScenario
                   /\ fs[f].scenarios[s].start \in Nat /\ fs[f].scenarios[s].count \in Nat
<1>1. /\ DOMAIN fs = 1..Len(fs) /\ Len(fs) \in Nat
      /\ \A f \in 1..Len(fs) : fs[f] \in BddFeature
  OBVIOUS
<1>2. \A r \in BddFeature : r.scenarios \in Seq(BddScenario) /\ r.background \in Nat
  BY DEF BddFeature
<1>3. \A ss \in Seq(BddScenario) :
        /\ DOMAIN ss = 1..Len(ss) /\ Len(ss) \in Nat
        /\ \A s \in 1..Len(ss) : ss[s] \in BddScenario
  OBVIOUS
<1>4. \A r \in BddScenario : r.start \in Nat /\ r.count \in Nat
  BY DEF BddScenario
<1> QED BY <1>1, <1>2, <1>3, <1>4

LEMMA ScenarioCounted ==
  ASSUME NEW r \in BddScenario, NEW new, new = [r EXCEPT !.count = @ + 1]
  PROVE  new \in BddScenario /\ new.start = r.start /\ new.count = r.count + 1
BY DEF BddScenario

LEMMA FeatureChanged ==
  ASSUME NEW r \in BddFeature
  PROVE  /\ \A ss \in Seq(BddScenario) : /\ [r EXCEPT !.scenarios = ss] \in BddFeature
                                        /\ [r EXCEPT !.scenarios = ss].scenarios = ss
         /\ [r EXCEPT !.background = @ + 1] \in BddFeature
         /\ [r EXCEPT !.background = @ + 1].scenarios = r.scenarios
BY DEF BddFeature

Counted(fs, f, s) == [fs EXCEPT ![f].scenarios[s].count = @ + 1]

\* The count of one scenario goes up, and nothing else changes.
LEMMA CountedInScenario ==
  ASSUME NEW fs \in Seq(BddFeature), NEW f \in 1..Len(fs), NEW s \in 1..Len(fs[f].scenarios),
         NEW new, new = Counted(fs, f, s)
  PROVE  /\ new \in Seq(BddFeature) /\ Len(new) = Len(fs)
         /\ \A g \in 1..Len(fs) :
              /\ Len(new[g].scenarios) = Len(fs[g].scenarios)
              /\ \A t \in 1..Len(fs[g].scenarios) :
                   /\ new[g].scenarios[t].start = fs[g].scenarios[t].start
                   /\ new[g].scenarios[t].count =
                        fs[g].scenarios[t].count + (IF g = f /\ t = s THEN 1 ELSE 0)
<1> DEFINE ss == fs[f].scenarios
           sc == [ss[s] EXCEPT !.count = @ + 1]
           ns == [ss EXCEPT ![s] = sc]
           nf == [fs[f] EXCEPT !.scenarios = ns]
<1>1. /\ ss \in Seq(BddScenario) /\ DOMAIN ss = 1..Len(ss) /\ Len(ss) \in Nat
      /\ ss[s] \in BddScenario /\ fs[f] \in BddFeature
      /\ \A t \in 1..Len(ss) : ss[t].start \in Nat /\ ss[t].count \in Nat
  BY FeatureTypes
<1>2. sc \in BddScenario /\ sc.start = ss[s].start /\ sc.count = ss[s].count + 1
  BY <1>1, ScenarioCounted
<1>3. new = [fs EXCEPT ![f] = nf]
  BY DEF Counted
<1> HIDE DEF sc
<1>4. /\ ns \in Seq(BddScenario) /\ Len(ns) = Len(ss) /\ ns[s] = sc
      /\ \A t \in 1..Len(ss) : t # s => ns[t] = ss[t]
  BY <1>1, <1>2, ReplacedAt
<1> HIDE DEF ns
<1>5. nf \in BddFeature /\ nf.scenarios = ns
  BY <1>1, <1>4, FeatureChanged
<1> HIDE DEF nf
<1>6. /\ new \in Seq(BddFeature) /\ Len(new) = Len(fs) /\ new[f] = nf
      /\ \A g \in 1..Len(fs) : g # f => new[g] = fs[g]
  BY <1>3, <1>5, ReplacedAt
<1>7. \A t \in 1..Len(ss) : /\ ns[t].start = ss[t].start
                            /\ ns[t].count = ss[t].count + (IF t = s THEN 1 ELSE 0)
  BY <1>1, <1>2, <1>4
<1>8. ASSUME NEW g \in 1..Len(fs)
      PROVE  /\ Len(new[g].scenarios) = Len(fs[g].scenarios)
             /\ \A t \in 1..Len(fs[g].scenarios) :
                  /\ new[g].scenarios[t].start = fs[g].scenarios[t].start
                  /\ new[g].scenarios[t].count =
                       fs[g].scenarios[t].count + (IF g = f /\ t = s THEN 1 ELSE 0)
  <2>1. CASE g = f
    BY <2>1, <1>4, <1>5, <1>6, <1>7
  <2>2. CASE g # f
    <3>1. new[g] = fs[g]
      BY <1>6, <2>2
    <3>2. \A t \in 1..Len(fs[g].scenarios) : fs[g].scenarios[t].count \in Nat
      BY FeatureTypes
    <3> QED BY <2>2, <3>1, <3>2
  <2> QED BY <2>1, <2>2
<1> QED BY <1>6, <1>8

CountedBefore(fs, f) == [fs EXCEPT ![f].background = @ + 1]

\* The Background's count goes up, and no scenario changes.
LEMMA CountedInBackground ==
  ASSUME NEW fs \in Seq(BddFeature), NEW f \in 1..Len(fs),
         NEW new, new = CountedBefore(fs, f)
  PROVE  /\ new \in Seq(BddFeature) /\ Len(new) = Len(fs)
         /\ \A g \in 1..Len(fs) : new[g].scenarios = fs[g].scenarios
<1> DEFINE nf == [fs[f] EXCEPT !.background = @ + 1]
<1>1. fs[f] \in BddFeature /\ fs[f].background \in Nat
  BY FeatureTypes
<1>2. nf \in BddFeature /\ nf.scenarios = fs[f].scenarios
  BY <1>1, FeatureChanged
<1>3. new = [fs EXCEPT ![f] = nf]
  BY DEF CountedBefore
<1> HIDE DEF nf
<1>4. /\ new \in Seq(BddFeature) /\ Len(new) = Len(fs) /\ new[f] = nf
      /\ \A g \in 1..Len(fs) : g # f => new[g] = fs[g]
  BY <1>2, <1>3, ReplacedAt
<1> QED BY <1>2, <1>4

LEMMA BddStepTypes ==
  ASSUME BddTablesTyped
  PROVE  /\ DOMAIN bddSteps = 1..Len(bddSteps) /\ Len(bddSteps) \in Nat
         /\ \A i \in 1..Len(bddSteps) :
              /\ bddSteps[i].keyword \in Keywords \cup Conjunctions
              /\ bddSteps[i].resolved \in Keywords
              /\ bddSteps[i].block \in Nat \X Nat /\ bddSteps[i].place \in Nat
         /\ \A b : StepsOf(b) = {i \in 1..Len(bddSteps) : bddSteps[i].block = b}
         /\ \A b : Cardinality(StepsOf(b)) \in Nat
<1>1. /\ DOMAIN bddSteps = 1..Len(bddSteps) /\ Len(bddSteps) \in Nat
      /\ \A i \in 1..Len(bddSteps) : bddSteps[i] \in BddStep
  BY DEF BddTablesTyped
<1>2. \A st \in BddStep : /\ st.keyword \in Keywords \cup Conjunctions
                          /\ st.resolved \in Keywords
                          /\ st.block \in Nat \X Nat /\ st.place \in Nat
  BY DEF BddStep
<1>3. \A b : StepsOf(b) = {i \in 1..Len(bddSteps) : bddSteps[i].block = b}
  BY <1>1 DEF StepsOf
<1>4. ASSUME NEW b PROVE Cardinality(StepsOf(b)) \in Nat
  <2>1. StepsOf(b) \in SUBSET (1..Len(bddSteps))
    BY <1>3
  <2> QED BY <1>1, <2>1, PartOfInterval
<1> QED BY <1>1, <1>2, <1>3, <1>4

LEMMA ParserTypes ==
  ASSUME BddTablesTyped
  PROVE  /\ bddParser.scenario \in Nat \X Nat /\ bddParser.inBackground \in BOOLEAN
         /\ bddParser.last \in Keywords /\ bddParser.dropped \in Nat
         /\ bddParser.lost \in Nat
BY DEF BddTablesTyped, BddParserState

LEMMA BddInitTables == BddInit => BddTablesInv
<1> SUFFICES ASSUME BddInit PROVE BddTablesInv
  OBVIOUS
<1>1. features = <<>> /\ bddSteps = <<>> /\ bddParser.scenario = NoScenario
      /\ bddParser.inBackground = FALSE
  BY DEF BddInit
<1>2. bddParser \in BddParserState
  BY DEF BddInit, BddParserState, NoScenario, Keywords
<1>3. BddTablesTyped /\ RangesLieInTheTable /\ OpenScenario
  BY <1>1, <1>2, BddLimits DEF BddTablesTyped, RangesLieInTheTable, OpenScenario
<1>4. KeywordsAreResolved /\ RangesAreScenarios /\ ShiftOfRanges
  BY <1>1 DEF KeywordsAreResolved, RangesAreScenarios, ShiftOfRanges
<1> QED BY <1>3, <1>4 DEF BddTablesInv

\* Nothing is written in a step that only moves the parser, and stays in its scenario
\* or leaves it.
LEMMA SameButParser ==
  ASSUME BddTablesInv, UNCHANGED <<features, bddSteps>>,
         bddParser' \in BddParserState, bddParser'.last = bddParser.last,
         bddParser'.dropped = bddParser.dropped,
         \/ /\ bddParser'.inBackground = bddParser.inBackground
            /\ bddParser'.scenario = bddParser.scenario
         \/ bddParser'.scenario = NoScenario /\ Len(features) >= 1
  PROVE  BddTablesInv'
<1>1. SumBefore' = SumBefore
  BY DEF SumBefore
<1>2. \A b : StepsOf(b)' = StepsOf(b)
  BY DEF StepsOf
<1>3. \A n : BackgroundBefore(n)' = BackgroundBefore(n)
  BY <1>2 DEF BackgroundBefore
<1>4. BddTablesTyped' /\ RangesLieInTheTable' /\ KeywordsAreResolved'
  BY DEF BddTablesInv, BddTablesTyped, RangesLieInTheTable, KeywordsAreResolved
<1>5. OpenScenario'
  BY DEF BddTablesInv, OpenScenario
<1>6. RangesAreScenarios'
  BY <1>2 DEF BddTablesInv, RangesAreScenarios
<1>7. ShiftOfRanges'
  BY <1>1, <1>2, <1>3 DEF BddTablesInv, ShiftOfRanges
<1> QED BY <1>4, <1>5, <1>6, <1>7 DEF BddTablesInv

-----------------------------------------------------------------------------
(* The lines of a file. *)

LEMMA RefuseInv ==
  ASSUME BddTablesInv, bddParser' = [bddParser EXCEPT !.refused = TRUE],
         UNCHANGED <<features, bddSteps>>
  PROVE  BddTablesInv'
<1>1. /\ bddParser' \in BddParserState /\ bddParser'.scenario = bddParser.scenario
      /\ bddParser'.inBackground = bddParser.inBackground /\ bddParser'.last = bddParser.last
      /\ bddParser'.dropped = bddParser.dropped
  BY DEF BddTablesInv, BddTablesTyped, BddParserState
<1> QED BY <1>1, SameButParser

LEMMA BackgroundLineInv ==
  ASSUME BddTablesInv, BackgroundLine PROVE BddTablesInv'
<1>1. /\ Len(features) >= 1 /\ UNCHANGED <<features, bddSteps>>
      /\ bddParser' = [bddParser EXCEPT !.inBackground = TRUE, !.scenario = NoScenario]
  <2>1. features # <<>> /\ features \in Seq(BddFeature)
    BY DEF BackgroundLine, BddTablesInv, BddTablesTyped
  <2> QED BY <2>1 DEF BackgroundLine
<1>2. /\ bddParser' \in BddParserState /\ bddParser'.scenario = NoScenario
      /\ bddParser'.inBackground = TRUE /\ bddParser'.last = bddParser.last
      /\ bddParser'.dropped = bddParser.dropped
  BY <1>1 DEF BddTablesInv, BddTablesTyped, BddParserState, NoScenario
<1> QED BY <1>1, <1>2, SameButParser

LEMMA FeatureLineInv ==
  ASSUME BddTablesInv, FeatureLine PROVE BddTablesInv'
<1>1. CASE Len(features) >= MaxFeatures
  <2>1. bddParser' = [bddParser EXCEPT !.refused = TRUE] /\ UNCHANGED <<features, bddSteps>>
    BY <1>1 DEF FeatureLine, Refuse
  <2> QED BY <2>1, RefuseInv
<1>2. CASE ~(Len(features) >= MaxFeatures)
  <2> DEFINE new == [scenarios |-> <<>>, background |-> 0]
             n == Len(features)
  <2>1. features' = Append(features, new) /\ UNCHANGED <<bddSteps, bddParser>>
    BY <1>2 DEF FeatureLine
  <2>2. new \in BddFeature /\ new.scenarios = <<>>
    BY DEF BddFeature
  <2> HIDE DEF new
  <2>3. features \in Seq(BddFeature)
    BY DEF BddTablesInv, BddTablesTyped
  <2>4. /\ features' \in Seq(BddFeature) /\ Len(features') = n + 1 /\ n \in Nat
        /\ DOMAIN features = 1..n /\ DOMAIN features' = 1..(n + 1)
        /\ \A f \in 1..n : features'[f] = features[f]
        /\ features'[n + 1].scenarios = <<>>
    BY <2>1, <2>2, <2>3, Appended
  <2>5. \A f \in 1..(n + 1) : f \in 1..n \/ f = n + 1
    BY <2>4
  <2>6. \A b : StepsOf(b)' = StepsOf(b)
    BY <2>1 DEF StepsOf
  <2>7. BddTablesTyped'
    <3>1. \A f \in 1..(n + 1) : Len(features'[f].scenarios) <= MaxScenarios
      BY <2>4, <2>5, BddLimits DEF BddTablesInv, BddTablesTyped
    <3>2. \A i \in 1..Len(bddSteps) :
            /\ bddSteps[i].block[1] \in 1..(n + 1)
            /\ bddSteps[i].block[2] \in 0..Len(features'[bddSteps[i].block[1]].scenarios)
      <4> SUFFICES ASSUME NEW i \in 1..Len(bddSteps)
                   PROVE  /\ bddSteps[i].block[1] \in 1..(n + 1)
                          /\ bddSteps[i].block[2] \in
                               0..Len(features'[bddSteps[i].block[1]].scenarios)
        OBVIOUS
      <4>1. /\ bddSteps[i].block[1] \in 1..n
            /\ bddSteps[i].block[2] \in 0..Len(features[bddSteps[i].block[1]].scenarios)
        BY DEF BddTablesInv, BddTablesTyped
      <4>2. features'[bddSteps[i].block[1]] = features[bddSteps[i].block[1]]
        BY <2>4, <4>1
      <4> QED BY <2>4, <4>1, <4>2
    <3>3. n + 1 <= MaxFeatures
      BY <1>2, <2>4, BddLimits
    <3> QED BY <2>1, <2>4, <3>1, <3>2, <3>3 DEF BddTablesInv, BddTablesTyped
  <2>8. RangesLieInTheTable'
    BY <2>1, <2>4, <2>5 DEF BddTablesInv, RangesLieInTheTable
  <2>9. OpenScenario'
    <3> DEFINE f == bddParser.scenario[1]
    <3>1. bddParser.scenario # NoScenario => f \in 1..n /\ features'[f] = features[f]
      BY <2>4 DEF BddTablesInv, OpenScenario
    <3>2. bddParser.scenario # NoScenario => f \in 1..(n + 1)
      BY <2>4, <3>1
    <3>3. bddParser.inBackground => n + 1 >= 1
      BY <2>4
    <3> HIDE DEF n
    <3> QED BY <2>1, <2>4, <3>1, <3>2, <3>3 DEF BddTablesInv, OpenScenario
  <2>10. KeywordsAreResolved'
    BY <2>1 DEF BddTablesInv, KeywordsAreResolved
  <2>11. RangesAreScenarios'
    <3> SUFFICES ASSUME bddParser.dropped = 0,
                        NEW f \in DOMAIN features', NEW s \in DOMAIN features'[f].scenarios
                 PROVE  LET sc == features'[f].scenarios[s]
                        IN /\ StepsOf(<<f, s>>) = sc.start..(sc.start + sc.count - 1)
                           /\ \A i \in StepsOf(<<f, s>>) :
                                bddSteps[i].place = i - sc.start + 1
      BY <2>1, <2>6 DEF RangesAreScenarios
    <3>1. f \in DOMAIN features /\ features'[f] = features[f]
      BY <2>4, <2>5
    <3> QED BY <3>1 DEF BddTablesInv, RangesAreScenarios
  <2>12. ShiftOfRanges'
    <3>1. CASE n = 0
      <4>1. Len(features') = 1 /\ features'[1].scenarios = <<>> /\ Len(bddSteps) = 0
        BY <2>4, <3>1, BddStepTypes DEF BddTablesInv, BddTablesTyped
      <4>2. StepsOf(<<1, 0>>)' = {}
        BY <2>6, <4>1, BddStepTypes DEF BddTablesInv
      <4>3. SumBefore'[1] = 0
        <5>1. SumBefore' = RunningSum(features'[1].scenarios)
          BY DEF SumBefore, RunningSum
        <5> QED BY <5>1, RunningSumRec
      <4>4. Cardinality({}) = 0
        BY FS_EmptySet
      <4>5. /\ Len(bddSteps') = 0 /\ Len(features'[1].scenarios) = 0
            /\ SumBefore'[Len(features'[1].scenarios) + 1] = 0
            /\ 1..Len(features'[1].scenarios) = {}
        BY <2>1, <4>1, <4>3
      <4> QED BY <4>1, <4>2, <4>3, <4>4, <4>5 DEF ShiftOfRanges
    <3>2. CASE n >= 1
      <4>1. features'[1] = features[1] /\ Len(features') # 1
        BY <2>4, <3>2
      <4>2. SumBefore' = SumBefore
        BY <4>1 DEF SumBefore
      <4>3. \A m : BackgroundBefore(m)' = BackgroundBefore(m)
        BY <2>6, <4>1 DEF BackgroundBefore
      <4> QED BY <2>1, <3>2, <4>1, <4>2, <4>3 DEF BddTablesInv, ShiftOfRanges
    <3> QED BY <2>4, <3>1, <3>2
  <2> QED BY <2>7, <2>8, <2>9, <2>10, <2>11, <2>12 DEF BddTablesInv
<1> QED BY <1>1, <1>2

WithScenario(fs, f, sc) == [fs EXCEPT ![f].scenarios = Append(@, sc)]

\* A scenario more at the end of a feature.
LEMMA ScenarioAdded ==
  ASSUME NEW fs \in Seq(BddFeature), NEW f \in 1..Len(fs), NEW sc \in BddScenario,
         NEW new, new = WithScenario(fs, f, sc),
         NEW n, n = Len(fs[f].scenarios)
  PROVE  /\ new \in Seq(BddFeature) /\ Len(new) = Len(fs)
         /\ \A g \in 1..Len(fs) : g # f => new[g] = fs[g]
         /\ n \in Nat /\ Len(new[f].scenarios) = n + 1 /\ new[f].scenarios[n + 1] = sc
         /\ DOMAIN new[f].scenarios = 1..(n + 1)
         /\ \A t \in 1..n : new[f].scenarios[t] = fs[f].scenarios[t]
<1> DEFINE ss == Append(fs[f].scenarios, sc)
           nf == [fs[f] EXCEPT !.scenarios = ss]
<1>1. fs[f] \in BddFeature /\ fs[f].scenarios \in Seq(BddScenario)
  BY FeatureTypes
<1>2. /\ ss \in Seq(BddScenario) /\ n \in Nat /\ Len(ss) = n + 1 /\ ss[n + 1] = sc
      /\ DOMAIN ss = 1..(n + 1)
      /\ \A t \in 1..n : ss[t] = fs[f].scenarios[t]
  BY <1>1, Appended
<1>3. new = [fs EXCEPT ![f] = nf]
  BY DEF WithScenario
<1> HIDE DEF ss
<1>4. nf \in BddFeature /\ nf.scenarios = ss
  BY <1>1, <1>2, FeatureChanged
<1> HIDE DEF nf
<1>5. /\ new \in Seq(BddFeature) /\ Len(new) = Len(fs) /\ new[f] = nf
      /\ \A g \in 1..Len(fs) : g # f => new[g] = fs[g]
  BY <1>3, <1>4, ReplacedAt
<1> QED BY <1>2, <1>4, <1>5

LEMMA ScenarioLineInv ==
  ASSUME BddTablesInv, ScenarioLine PROVE BddTablesInv'
<1> SUFFICES ASSUME NEW f, f = Len(features), NEW k, k = Len(features[f].scenarios),
                    NEW n, n = Len(bddSteps)
             PROVE  BddTablesInv'
  OBVIOUS
<1> DEFINE new == [start |-> n + 1, count |-> 0]
<1>1. features \in Seq(BddFeature) /\ f \in 1..f /\ f \in Nat /\ n \in Nat /\ k \in Nat
  <2>1. features # <<>> /\ features \in Seq(BddFeature)
    BY DEF ScenarioLine, BddTablesInv, BddTablesTyped
  <2>2. f \in 1..f /\ f \in Nat
    BY <2>1
  <2>3. n \in Nat
    BY BddStepTypes DEF BddTablesInv
  <2> QED BY <2>1, <2>2, <2>3, FeatureTypes
<1>2. CASE k + 1 > MaxScenarios
  <2>1. bddParser' = [bddParser EXCEPT !.refused = TRUE] /\ UNCHANGED <<features, bddSteps>>
    BY <1>2 DEF ScenarioLine, Refuse
  <2> QED BY <2>1, RefuseInv
<1>3. CASE ~(k + 1 > MaxScenarios)
  <2>1. /\ features' = [features EXCEPT ![f].scenarios = Append(@, new)]
        /\ bddParser' = [bddParser EXCEPT !.inBackground = FALSE, !.scenario = <<f, k + 1>>]
        /\ bddSteps' = bddSteps
    BY <1>3 DEF ScenarioLine
  <2>2. new \in BddScenario /\ new.start = n + 1 /\ new.count = 0
    BY <1>1 DEF BddScenario
  <2> HIDE DEF new
  <2>3. /\ features' \in Seq(BddFeature) /\ Len(features') = f
        /\ \A g \in 1..f : g # f => features'[g] = features[g]
        /\ Len(features'[f].scenarios) = k + 1 /\ features'[f].scenarios[k + 1] = new
        /\ \A t \in 1..k : features'[f].scenarios[t] = features[f].scenarios[t]
    <3>1. features' = WithScenario(features, f, new)
      BY <2>1 DEF WithScenario
    <3> QED BY <1>1, <2>2, <3>1, ScenarioAdded
  <2>4. /\ bddParser' \in BddParserState /\ bddParser'.scenario = <<f, k + 1>>
        /\ bddParser'.inBackground = FALSE /\ bddParser'.last = bddParser.last
        /\ bddParser'.dropped = bddParser.dropped
    <3>1. <<f, k + 1>> \in Nat \X Nat /\ bddParser \in BddParserState
      BY <1>1 DEF BddTablesInv, BddTablesTyped
    <3> QED BY <2>1, <3>1 DEF BddParserState
  <2>5. \A t \in 1..(k + 1) : t \in 1..k \/ t = k + 1
    BY <1>1
  <2>6. \A b : StepsOf(b)' = StepsOf(b)
    BY <2>1 DEF StepsOf
  \* Every scenario is an old one as it was, or the new one, which has no steps yet.
  <2>7. ASSUME NEW g \in 1..f, NEW t \in 1..Len(features'[g].scenarios)
        PROVE  \/ /\ t \in 1..Len(features[g].scenarios)
                  /\ features'[g].scenarios[t] = features[g].scenarios[t]
               \/ g = f /\ t = k + 1 /\ features'[g].scenarios[t] = new
    BY <2>3, <2>5
  <2>8. BddTablesTyped'
    <3>1. \A g \in 1..f : Len(features'[g].scenarios) <= MaxScenarios
      <4> SUFFICES ASSUME NEW g \in 1..f PROVE Len(features'[g].scenarios) <= MaxScenarios
        OBVIOUS
      <4>1. CASE g = f
        BY <1>1, <1>3, <2>3, <4>1, BddLimits
      <4>2. CASE g # f
        BY <2>3, <4>2 DEF BddTablesInv, BddTablesTyped
      <4> QED BY <4>1, <4>2
    <3>2. \A i \in 1..n :
            /\ bddSteps[i].block[1] \in 1..f
            /\ bddSteps[i].block[2] \in 0..Len(features'[bddSteps[i].block[1]].scenarios)
      <4> SUFFICES ASSUME NEW i \in 1..n
                   PROVE  /\ bddSteps[i].block[1] \in 1..f
                          /\ bddSteps[i].block[2] \in
                               0..Len(features'[bddSteps[i].block[1]].scenarios)
        OBVIOUS
      <4>1. /\ bddSteps[i].block[1] \in 1..f
            /\ bddSteps[i].block[2] \in 0..Len(features[bddSteps[i].block[1]].scenarios)
        BY DEF BddTablesInv, BddTablesTyped
      <4> DEFINE g == bddSteps[i].block[1]
      <4>2. CASE g # f
        BY <2>3, <4>1, <4>2
      <4>3. CASE g = f
        <5>1. bddSteps[i].block[2] \in 0..k /\ Len(features'[g].scenarios) = k + 1
          BY <2>3, <4>1, <4>3
        <5> QED BY <1>1, <4>1, <5>1
      <4> QED BY <4>2, <4>3
    <3> QED BY <2>1, <2>3, <2>4, <3>1, <3>2 DEF BddTablesInv, BddTablesTyped
  <2>9. RangesLieInTheTable'
    <3> SUFFICES ASSUME NEW g \in 1..f, NEW t \in 1..Len(features'[g].scenarios)
                 PROVE  LET sc == features'[g].scenarios[t]
                        IN /\ sc.start \in 1..(n + 1)
                           /\ bddParser.dropped = 0 => sc.start + sc.count <= n + 1
      <4>1. Len(bddSteps') = n /\ Len(features') = f /\ bddParser'.dropped = bddParser.dropped
        BY <2>1, <2>3, <2>4
      <4> QED BY <4>1 DEF RangesLieInTheTable
    <3>1. CASE /\ t \in 1..Len(features[g].scenarios)
               /\ features'[g].scenarios[t] = features[g].scenarios[t]
      BY <3>1 DEF BddTablesInv, RangesLieInTheTable
    <3>2. CASE features'[g].scenarios[t] = new
      BY <1>1, <2>2, <3>2
    <3> QED BY <2>7, <3>1, <3>2
  <2>10. OpenScenario'
    <3>1. bddParser'.scenario[1] = f /\ bddParser'.scenario[2] = k + 1
      BY <2>4
    <3>2. features'[f].scenarios[k + 1].start + features'[f].scenarios[k + 1].count = n + 1
      BY <1>1, <2>2, <2>3
    <3>3. k + 1 >= 1
      BY <1>1
    <3> QED BY <1>1, <2>1, <2>3, <2>4, <3>1, <3>2, <3>3 DEF OpenScenario
  <2>11. KeywordsAreResolved'
    BY <2>1, <2>4 DEF BddTablesInv, KeywordsAreResolved
  <2>12. RangesAreScenarios'
    <3> SUFFICES ASSUME bddParser.dropped = 0,
                        NEW g \in 1..f, NEW t \in 1..Len(features'[g].scenarios)
                 PROVE  LET sc == features'[g].scenarios[t]
                        IN /\ StepsOf(<<g, t>>) = sc.start..(sc.start + sc.count - 1)
                           /\ \A i \in StepsOf(<<g, t>>) :
                                bddSteps[i].place = i - sc.start + 1
      <4>1. /\ DOMAIN features' = 1..f
            /\ \A g \in 1..f : DOMAIN features'[g].scenarios = 1..Len(features'[g].scenarios)
        BY <2>3, FeatureTypes
      <4>2. SUFFICES ASSUME bddParser'.dropped = 0,
                            NEW g \in DOMAIN features', NEW t \in DOMAIN features'[g].scenarios
                     PROVE  LET sc == features'[g].scenarios[t]
                            IN /\ StepsOf(<<g, t>>)' = sc.start..(sc.start + sc.count - 1)
                               /\ \A i \in StepsOf(<<g, t>>)' :
                                    bddSteps'[i].place = i - sc.start + 1
        BY DEF RangesAreScenarios
      <4> QED BY <2>1, <2>4, <2>6, <4>1, <4>2
    <3>1. CASE /\ t \in 1..Len(features[g].scenarios)
               /\ features'[g].scenarios[t] = features[g].scenarios[t]
      <4>1. g \in DOMAIN features /\ t \in DOMAIN features[g].scenarios
        BY <1>1, <3>1, FeatureTypes
      <4> QED BY <3>1, <4>1 DEF BddTablesInv, RangesAreScenarios
    <3>2. CASE g = f /\ t = k + 1 /\ features'[g].scenarios[t] = new
      <4>1. StepsOf(<<f, k + 1>>) = {}
        <5> SUFFICES ASSUME NEW i \in 1..n, bddSteps[i].block = <<f, k + 1>> PROVE FALSE
          BY BddStepTypes DEF BddTablesInv
        <5>1. bddSteps[i].block[2] \in 0..Len(features[bddSteps[i].block[1]].scenarios)
          BY DEF BddTablesInv, BddTablesTyped
        <5>2. k + 1 \in 0..k
          BY <5>1
        <5> QED BY <1>1, <5>2
      <4>2. (n + 1)..(n + 1 + 0 - 1) = {}
        BY <1>1
      <4> QED BY <2>2, <3>2, <4>1, <4>2
    <3> QED BY <2>7, <3>1, <3>2
  <2>13. ShiftOfRanges'
    <3> SUFFICES ASSUME bddParser.dropped = 0
                 PROVE  /\ \A m \in 1..Len(features'[1].scenarios) :
                             features'[1].scenarios[m].start =
                               1 + SumBefore'[m] + Cardinality(BackgroundBefore(m)')
                        /\ f = 1 =>
                             n = SumBefore'[Len(features'[1].scenarios) + 1]
                                   + Cardinality(StepsOf(<<1, 0>>))
      BY <2>1, <2>3, <2>4, <2>6 DEF ShiftOfRanges
    <3>1. 1 \in 1..f
      BY <1>1
    <3>2. CASE f # 1
      <4>1. features'[1] = features[1]
        BY <2>3, <3>1, <3>2
      <4>2. SumBefore' = SumBefore
        BY <4>1 DEF SumBefore
      <4>3. \A m : BackgroundBefore(m)' = BackgroundBefore(m)
        BY <2>6, <4>1 DEF BackgroundBefore
      <4> QED BY <1>1, <3>2, <4>1, <4>2, <4>3 DEF BddTablesInv, ShiftOfRanges
    <3>3. CASE f = 1
      <4> DEFINE c == features[1].scenarios
                 d == features'[1].scenarios
      <4>1. SumBefore = RunningSum(c) /\ SumBefore' = RunningSum(d)
        BY DEF SumBefore, RunningSum
      <4>2. /\ k = Len(c) /\ Len(d) = k + 1 /\ d[k + 1] = new
            /\ \A t \in 1..k : d[t] = c[t]
        BY <2>3, <3>3
      <4>3. \A m \in 0..(k + 1) : SumBefore'[m] = SumBefore[m]
        <5>1. SameCounts(c, d, k)
          BY <1>1, <4>2 DEF SameCounts
        <5> HIDE DEF c, d
        <5>2. \A m \in 0..(k + 1) : RunningSum(c)[m] = RunningSum(d)[m]
          BY <1>1, <5>1, RunningSumAgrees
        <5> QED BY <4>1, <5>2
      <4>4. SumBefore'[k + 2] = SumBefore'[k + 1] + 0
        <5>1. k + 1 \in Nat \ {0} /\ k + 1 + 1 = k + 2
          BY <1>1
        <5>2. d[k + 1].count = 0
          BY <2>2, <4>2
        <5> HIDE DEF c, d
        <5>3. RunningSum(d)[k + 1 + 1] = RunningSum(d)[k + 1] + d[k + 1].count
          BY <5>1, RunningSumGrows
        <5> QED BY <4>1, <5>1, <5>2, <5>3
      <4>5. n = SumBefore[k + 1] + Cardinality(StepsOf(<<1, 0>>))
        BY <3>3, <4>2 DEF BddTablesInv, ShiftOfRanges
      <4>6. SumBefore[k + 1] \in Nat /\ Cardinality(StepsOf(<<1, 0>>)) \in Nat
        <5>1. \A m \in 1..k : c[m].count \in Nat
          BY <1>1, <3>1, <4>2, FeatureTypes
        <5>2. k + 1 \in 0..(k + 1)
          BY <1>1
        <5> HIDE DEF c
        <5> QED BY <1>1, <4>1, <5>1, <5>2, RunningSumNat, BddStepTypes DEF BddTablesInv
      <4>7. \A m \in 1..k : BackgroundBefore(m)' = BackgroundBefore(m)
        BY <2>6, <4>2 DEF BackgroundBefore
      <4>8. BackgroundBefore(k + 1)' = StepsOf(<<1, 0>>)
        <5>1. StepsOf(<<1, 0>>) \subseteq 1..n
          BY BddStepTypes DEF BddTablesInv
        <5>2. \A i \in 1..n : i < n + 1
          BY <1>1
        <5>3. BackgroundBefore(k + 1)' = {i \in StepsOf(<<1, 0>>) : i < n + 1}
          <6>1. features'[1].scenarios[k + 1].start = n + 1
            BY <2>2, <4>2
          <6> QED BY <2>6, <6>1 DEF BackgroundBefore
        <5> QED BY <5>1, <5>2, <5>3
      <4>9. \A m \in 1..k : c[m].start = 1 + SumBefore[m] + Cardinality(BackgroundBefore(m))
        BY <3>3, <4>2 DEF BddTablesInv, ShiftOfRanges
      <4>10. ASSUME NEW m \in 1..(k + 1)
             PROVE  d[m].start = 1 + SumBefore'[m] + Cardinality(BackgroundBefore(m)')
        <5>1. CASE m \in 1..k
          <6>1. m \in 0..(k + 1)
            BY <1>1, <5>1
          <6> QED BY <4>2, <4>3, <4>7, <4>9, <5>1, <6>1
        <5>2. CASE m = k + 1
          <6>1. k + 1 \in 0..(k + 1)
            BY <1>1
          <6>2. SumBefore'[k + 1] = SumBefore[k + 1]
            BY <4>3, <6>1
          <6>3. d[m].start = n + 1
            BY <2>2, <4>2, <5>2
          <6>4. Cardinality(BackgroundBefore(m)') = Cardinality(StepsOf(<<1, 0>>))
            <7> QED BY <4>8, <5>2
          <6>5. SumBefore'[m] = SumBefore[k + 1]
            BY <5>2, <6>2
          <6> HIDE DEF d
          <6> QED BY <1>1, <4>5, <4>6, <6>3, <6>4, <6>5
        <5> QED BY <2>5, <5>1, <5>2
      <4>11. n = SumBefore'[k + 1 + 1] + Cardinality(StepsOf(<<1, 0>>))
        <5>1. k + 1 \in 0..(k + 1) /\ k + 1 + 1 = k + 2
          BY <1>1
        <5>2. SumBefore'[k + 2] = SumBefore[k + 1]
          BY <4>3, <4>4, <4>6, <5>1
        <5> QED BY <4>5, <5>1, <5>2
      <4> QED BY <4>2, <4>10, <4>11
    <3> QED BY <3>2, <3>3
  <2> QED BY <2>8, <2>9, <2>10, <2>11, <2>12, <2>13 DEF BddTablesInv
<1> QED BY <1>2, <1>3

\* Where a step is counted: in the last scenario, whose range still grows, or in the
\* Background of the last feature.
LEMMA BlockOfStepIsOpen ==
  ASSUME BddTablesInv, NEW b, b = BlockOfStep, b # NoScenario
  PROVE  /\ b \in Nat \X Nat /\ b = <<b[1], b[2]>> /\ b[1] \in 1..Len(features)
         /\ b[2] \in 0..Len(features[b[1]].scenarios)
         /\ b[2] # 0 =>
              /\ b[2] = Len(features[b[1]].scenarios)
              /\ bddParser.dropped = 0 =>
                   features[b[1]].scenarios[b[2]].start
                     + features[b[1]].scenarios[b[2]].count = Len(bddSteps) + 1
         /\ bddParser.scenario = NoScenario \/ bddParser.scenario = b
         /\ bddParser.scenario # NoScenario => b[2] # 0
<1>1. features \in Seq(BddFeature) /\ Len(features) \in Nat
  BY DEF BddTablesInv, BddTablesTyped
<1>2. CASE bddParser.inBackground
  <2>1. b = <<Len(features), 0>> /\ Len(features) >= 1 /\ bddParser.scenario = NoScenario
    BY <1>2 DEF BlockOfStep, BddTablesInv, OpenScenario
  <2>2. Len(features[b[1]].scenarios) \in Nat
    BY <1>1, <2>1, FeatureTypes
  <2> QED BY <1>1, <2>1, <2>2
<1>3. CASE ~bddParser.inBackground
  <2>1. b = bddParser.scenario
    BY <1>3 DEF BlockOfStep
  <2>2. b \in Nat \X Nat
    BY <2>1, ParserTypes DEF BddTablesInv
  <2>3. /\ b[1] \in 1..Len(features) /\ b[2] >= 1 /\ b[2] = Len(features[b[1]].scenarios)
        /\ bddParser.dropped = 0 =>
             features[b[1]].scenarios[b[2]].start
               + features[b[1]].scenarios[b[2]].count = Len(bddSteps) + 1
    BY <2>1 DEF BddTablesInv, OpenScenario
  <2>4. b[2] \in 0..Len(features[b[1]].scenarios)
    BY <2>2, <2>3
  <2> QED BY <2>1, <2>2, <2>3, <2>4
<1> QED BY <1>2, <1>3

\* CountStep changes one count at most.
LEMMA StepCounted ==
  ASSUME BddTablesInv, NEW b, b = BlockOfStep, b # NoScenario, CountStep(b)
  PROVE  /\ features' \in Seq(BddFeature) /\ Len(features') = Len(features)
         /\ \A g \in 1..Len(features) :
              /\ Len(features'[g].scenarios) = Len(features[g].scenarios)
              /\ \A t \in 1..Len(features[g].scenarios) :
                   /\ features'[g].scenarios[t].start = features[g].scenarios[t].start
                   /\ b = <<g, t>> => features'[g].scenarios[t].count =
                                        features[g].scenarios[t].count + 1
                   /\ b # <<g, t>> => features'[g].scenarios[t].count =
                                        features[g].scenarios[t].count
<1>1. features \in Seq(BddFeature)
  BY DEF BddTablesInv, BddTablesTyped
<1>2. /\ b = <<b[1], b[2]>> /\ b[1] \in 1..Len(features)
      /\ b[2] \in 0..Len(features[b[1]].scenarios)
  BY BlockOfStepIsOpen
<1>3. \A g \in 1..Len(features) : \A t \in 1..Len(features[g].scenarios) :
        features[g].scenarios[t].count \in Nat
  BY <1>1, FeatureTypes
<1>4. CASE b[2] = 0
  <2>1. features' = CountedBefore(features, b[1])
    BY <1>4 DEF CountStep, CountedBefore
  <2>2. /\ features' \in Seq(BddFeature) /\ Len(features') = Len(features)
        /\ \A g \in 1..Len(features) : features'[g].scenarios = features[g].scenarios
    BY <1>1, <1>2, <2>1, CountedInBackground
  <2>3. \A g \in 1..Len(features) : \A t \in 1..Len(features[g].scenarios) : b # <<g, t>>
    BY <1>4
  <2> QED BY <1>3, <2>2, <2>3
<1>5. CASE b[2] # 0
  <2>1. features' = Counted(features, b[1], b[2])
    BY <1>5 DEF CountStep, Counted
  <2>2. b[2] \in 1..Len(features[b[1]].scenarios)
    BY <1>2, <1>5
  <2>3. /\ features' \in Seq(BddFeature) /\ Len(features') = Len(features)
        /\ \A g \in 1..Len(features) :
              /\ Len(features'[g].scenarios) = Len(features[g].scenarios)
              /\ \A t \in 1..Len(features[g].scenarios) :
                   /\ features'[g].scenarios[t].start = features[g].scenarios[t].start
                   /\ features'[g].scenarios[t].count =
                        features[g].scenarios[t].count
                          + (IF g = b[1] /\ t = b[2] THEN 1 ELSE 0)
    BY <1>1, <1>2, <2>1, <2>2, CountedInScenario
  <2>4. ASSUME NEW g \in 1..Len(features), NEW t \in 1..Len(features[g].scenarios)
        PROVE  /\ b = <<g, t>> => features'[g].scenarios[t].count =
                                    features[g].scenarios[t].count + 1
               /\ b # <<g, t>> => features'[g].scenarios[t].count =
                                    features[g].scenarios[t].count
    <3>1. /\ g = b[1] /\ t = b[2] => features'[g].scenarios[t].count =
                                       features[g].scenarios[t].count + 1
          /\ ~(g = b[1] /\ t = b[2]) => features'[g].scenarios[t].count =
                                       features[g].scenarios[t].count + 0
      BY <2>3
    <3>2. features[g].scenarios[t].count \in Nat
      BY <1>3
    <3>3. (b = <<g, t>>) <=> (g = b[1] /\ t = b[2])
      BY <1>2
    <3> QED BY <3>1, <3>2, <3>3
  <2> QED BY <2>3, <2>4
<1> QED BY <1>4, <1>5

LEMMA ParserChanged ==
  ASSUME NEW p \in BddParserState, NEW k \in Keywords
  PROVE  /\ [p EXCEPT !.last = k] \in BddParserState
         /\ [p EXCEPT !.last = k].scenario = p.scenario
         /\ [p EXCEPT !.last = k].inBackground = p.inBackground
         /\ [p EXCEPT !.last = k].dropped = p.dropped
         /\ [p EXCEPT !.last = k].last = k
         /\ [p EXCEPT !.dropped = @ + 1] \in BddParserState
         /\ [p EXCEPT !.dropped = @ + 1].scenario = p.scenario
         /\ [p EXCEPT !.dropped = @ + 1].inBackground = p.inBackground
         /\ [p EXCEPT !.dropped = @ + 1].dropped # 0
         /\ [p EXCEPT !.dropped = @ + 1].last = p.last
         /\ [p EXCEPT !.lost = @ + 1] \in BddParserState
         /\ [p EXCEPT !.lost = @ + 1].scenario = p.scenario
         /\ [p EXCEPT !.lost = @ + 1].inBackground = p.inBackground
         /\ [p EXCEPT !.lost = @ + 1].dropped = p.dropped
         /\ [p EXCEPT !.lost = @ + 1].last = p.last
BY DEF BddParserState

\* A step that is counted and for which there is no room.
LEMMA DroppedStepInv ==
  ASSUME BddTablesInv, NEW b, b = BlockOfStep, b # NoScenario, CountStep(b),
         bddParser' = [bddParser EXCEPT !.dropped = @ + 1], bddSteps' = bddSteps
  PROVE  BddTablesInv'
<1>1. /\ features' \in Seq(BddFeature) /\ Len(features') = Len(features)
      /\ \A g \in 1..Len(features) :
           /\ Len(features'[g].scenarios) = Len(features[g].scenarios)
           /\ \A t \in 1..Len(features[g].scenarios) :
                features'[g].scenarios[t].start = features[g].scenarios[t].start
  BY StepCounted
<1>2. /\ bddParser' \in BddParserState /\ bddParser'.scenario = bddParser.scenario
      /\ bddParser'.inBackground = bddParser.inBackground /\ bddParser'.last = bddParser.last
      /\ bddParser'.dropped # 0
  <2>1. bddParser \in BddParserState /\ bddParser.last \in Keywords
    BY ParserTypes DEF BddTablesInv, BddTablesTyped
  <2> QED BY <2>1, ParserChanged
<1>3. BddTablesTyped'
  <2>1. \A i \in 1..Len(bddSteps) :
          /\ bddSteps[i].block[1] \in 1..Len(features)
          /\ bddSteps[i].block[2] \in 0..Len(features'[bddSteps[i].block[1]].scenarios)
    BY <1>1 DEF BddTablesInv, BddTablesTyped
  <2> QED BY <1>1, <1>2, <2>1 DEF BddTablesInv, BddTablesTyped
<1>4. RangesLieInTheTable'
  BY <1>1, <1>2 DEF BddTablesInv, RangesLieInTheTable
<1>5. OpenScenario'
  BY <1>1, <1>2 DEF BddTablesInv, OpenScenario
<1>6. KeywordsAreResolved' /\ RangesAreScenarios' /\ ShiftOfRanges'
  BY <1>2 DEF BddTablesInv, KeywordsAreResolved, RangesAreScenarios, ShiftOfRanges
<1> QED BY <1>3, <1>4, <1>5, <1>6 DEF BddTablesInv

\* A range with one step more.
LEMMA RangeGrows ==
  ASSUME NEW start \in Nat, NEW count \in Nat, NEW n \in Nat, start + count = n + 1
  PROVE  /\ start..(start + (count + 1) - 1) = (start..(start + count - 1)) \cup {n + 1}
         /\ Cardinality(start..(start + count - 1)) = count
         /\ n + 1 - start + 1 = count + 1
<1>1. start..(start + (count + 1) - 1) = (start..(start + count - 1)) \cup {n + 1}
  OBVIOUS
<1>2. Cardinality(start..(start + count - 1)) = count
  <2>1. CASE count = 0
    <3>1. start..(start + count - 1) = {}
      BY <2>1
    <3> QED BY <2>1, <3>1, FS_EmptySet
  <2>2. CASE count # 0
    <3>1. start + count - 1 \in Nat
      BY <2>2
    <3> QED BY <2>2, <3>1, FS_Interval
  <2> QED BY <2>1, <2>2
<1> QED BY <1>1, <1>2

\* A step that is counted and written at the end of the table.
WritesStep(b, keyword, r) ==
  /\ Len(bddSteps) < MaxSteps
  /\ CountStep(b)
  /\ bddParser' = [bddParser EXCEPT !.last = r]
  /\ bddSteps' = Append(bddSteps, [keyword |-> keyword, resolved |-> r, block |-> b,
                                   place |-> Cardinality(StepsOf(b)) + 1])

LEMMA WrittenStepInv ==
  ASSUME BddTablesInv, NEW b, b = BlockOfStep, b # NoScenario,
         NEW keyword \in Keywords \cup Conjunctions, NEW r, r = Resolved(keyword),
         WritesStep(b, keyword, r)
  PROVE  BddTablesInv'
<1> DEFINE n == Len(bddSteps)
           st == [keyword |-> keyword, resolved |-> r, block |-> b,
                  place |-> Cardinality(StepsOf(b)) + 1]
<1>0. /\ n < MaxSteps
      /\ CountStep(b) /\ bddParser' = [bddParser EXCEPT !.last = r]
      /\ bddSteps' = Append(bddSteps, st)
  BY DEF WritesStep
<1> HIDE DEF st, n
<1>1. r \in Keywords /\ (keyword \in Keywords => r = keyword)
      /\ (keyword \in Conjunctions => r = bddParser.last)
  BY ParserTypes DEF Resolved, Keywords, Conjunctions, BddTablesInv
<1>2. /\ b \in Nat \X Nat /\ b = <<b[1], b[2]>> /\ b[1] \in 1..Len(features)
      /\ b[2] \in 0..Len(features[b[1]].scenarios)
      /\ b[2] # 0 =>
           /\ b[2] = Len(features[b[1]].scenarios)
           /\ bddParser.dropped = 0 =>
                features[b[1]].scenarios[b[2]].start
                  + features[b[1]].scenarios[b[2]].count = n + 1
      /\ bddParser.scenario = NoScenario \/ bddParser.scenario = b
      /\ bddParser.scenario # NoScenario => b[2] # 0
  BY BlockOfStepIsOpen DEF n
<1>3. /\ features' \in Seq(BddFeature) /\ Len(features') = Len(features)
      /\ \A g \in 1..Len(features) :
           /\ Len(features'[g].scenarios) = Len(features[g].scenarios)
           /\ \A t \in 1..Len(features[g].scenarios) :
                /\ features'[g].scenarios[t].start = features[g].scenarios[t].start
                /\ b = <<g, t>> => features'[g].scenarios[t].count =
                                     features[g].scenarios[t].count + 1
                /\ b # <<g, t>> => features'[g].scenarios[t].count =
                                     features[g].scenarios[t].count
  BY <1>0, StepCounted
<1>4. /\ bddParser' \in BddParserState /\ bddParser'.scenario = bddParser.scenario
      /\ bddParser'.inBackground = bddParser.inBackground /\ bddParser'.last = r
      /\ bddParser'.dropped = bddParser.dropped
  <2>1. bddParser \in BddParserState
    BY DEF BddTablesInv, BddTablesTyped
  <2> QED BY <1>0, <1>1, <2>1, ParserChanged
<1>5. /\ st \in BddStep /\ st.keyword = keyword /\ st.resolved = r /\ st.block = b
      /\ st.place = Cardinality(StepsOf(b)) + 1
  <2>1. Cardinality(StepsOf(b)) \in Nat
    BY BddStepTypes DEF BddTablesInv
  <2> QED BY <1>1, <1>2, <2>1 DEF BddStep, st
<1>7. /\ bddSteps' \in Seq(BddStep) /\ Len(bddSteps') = n + 1 /\ n \in Nat
      /\ DOMAIN bddSteps = 1..n /\ DOMAIN bddSteps' = 1..(n + 1)
      /\ \A i \in 1..n : bddSteps'[i] = bddSteps[i]
      /\ bddSteps'[n + 1] = st
  <2>1. bddSteps \in Seq(BddStep)
    BY DEF BddTablesInv, BddTablesTyped
  <2> QED BY <1>0, <1>5, <2>1, Appended DEF n
<1>8. \A i \in 1..(n + 1) : i \in 1..n \/ i = n + 1
  BY <1>7
<1>9. /\ \A c : c # b => StepsOf(c)' = StepsOf(c)
      /\ StepsOf(b)' = StepsOf(b) \cup {n + 1}
      /\ \A c : StepsOf(c) \subseteq 1..n
  BY <1>5, <1>7, <1>8, BddStepTypes DEF StepsOf, n, BddTablesInv
<1>10. BddTablesTyped'
  <2>1. ASSUME NEW i \in 1..(n + 1)
        PROVE  /\ bddSteps'[i].block[1] \in 1..Len(features)
               /\ bddSteps'[i].block[2] \in 0..Len(features'[bddSteps'[i].block[1]].scenarios)
    <3>1. CASE i \in 1..n
      <4>1. /\ bddSteps[i].block[1] \in 1..Len(features)
            /\ bddSteps[i].block[2] \in 0..Len(features[bddSteps[i].block[1]].scenarios)
        BY <3>1 DEF BddTablesInv, BddTablesTyped, n
      <4> QED BY <1>3, <1>7, <3>1, <4>1
    <3>2. CASE i = n + 1
      BY <1>2, <1>3, <1>5, <1>7, <3>2
    <3> QED BY <1>8, <3>1, <3>2
  <2>2. n + 1 <= MaxSteps
    BY <1>0, <1>7, BddLimits
  <2>3. \A g \in 1..Len(features) : Len(features'[g].scenarios) <= MaxScenarios
    BY <1>3 DEF BddTablesInv, BddTablesTyped
  <2>4. Len(features) <= MaxFeatures
    BY DEF BddTablesInv, BddTablesTyped
  <2> QED BY <1>3, <1>4, <1>7, <2>1, <2>2, <2>3, <2>4 DEF BddTablesTyped
<1>11. RangesLieInTheTable'
  <2> SUFFICES ASSUME NEW g \in 1..Len(features), NEW t \in 1..Len(features[g].scenarios)
               PROVE  LET sc == features'[g].scenarios[t]
                      IN /\ sc.start \in 1..(n + 2)
                         /\ bddParser.dropped = 0 => sc.start + sc.count <= n + 2
    <3>1. Len(bddSteps') + 1 = n + 2
      BY <1>7
    <3> QED BY <1>3, <1>4, <3>1 DEF RangesLieInTheTable
  <2>1. /\ features[g].scenarios[t].start \in 1..(n + 1)
        /\ bddParser.dropped = 0 =>
             features[g].scenarios[t].start + features[g].scenarios[t].count <= n + 1
    BY DEF BddTablesInv, RangesLieInTheTable, n
  <2>2. features[g].scenarios[t].start \in Nat /\ features[g].scenarios[t].count \in Nat
    <3>1. features \in Seq(BddFeature)
      BY DEF BddTablesInv, BddTablesTyped
    <3> QED BY <3>1, FeatureTypes
  <2>3. /\ features'[g].scenarios[t].start = features[g].scenarios[t].start
        /\ \/ features'[g].scenarios[t].count = features[g].scenarios[t].count
           \/ features'[g].scenarios[t].count = features[g].scenarios[t].count + 1
    BY <1>3
  <2> DEFINE s == features[g].scenarios[t].start
             c == features[g].scenarios[t].count
             s2 == features'[g].scenarios[t].start
             c2 == features'[g].scenarios[t].count
  <2>4. n \in Nat /\ s \in Nat /\ c \in Nat /\ s2 = s /\ (c2 = c \/ c2 = c + 1)
    BY <1>7, <2>2, <2>3
  <2>5. s \in 1..(n + 1) /\ (bddParser.dropped = 0 => s + c <= n + 1)
    BY <2>1
  <2> HIDE DEF s, c, s2, c2
  <2>6. s2 \in 1..(n + 2) /\ (bddParser.dropped = 0 => s2 + c2 <= n + 2)
    BY <2>4, <2>5
  <2> QED BY <2>6 DEF s2, c2
<1>12. OpenScenario'
  <2>1. ASSUME bddParser.scenario # NoScenario
        PROVE  /\ b[2] >= 1 /\ b[2] = Len(features'[b[1]].scenarios)
               /\ bddParser.dropped = 0 =>
                    features'[b[1]].scenarios[b[2]].start
                      + features'[b[1]].scenarios[b[2]].count = n + 2
    <3>1. b[2] # 0 /\ b[2] = Len(features[b[1]].scenarios) /\ b[2] \in Nat /\ b[2] >= 1
      BY <1>2, <2>1
    <3>2. PICK g \in 1..Len(features) :
            \E t \in 1..Len(features[g].scenarios) : b = <<g, t>>
      BY <1>2, <3>1
    <3>3. PICK t \in 1..Len(features[g].scenarios) : b = <<g, t>>
      BY <3>2
    <3>4. b[1] = g /\ b[2] = t
      BY <3>3
    <3>5. features[g].scenarios[t].start \in Nat /\ features[g].scenarios[t].count \in Nat
      <4>1. features \in Seq(BddFeature)
        BY DEF BddTablesInv, BddTablesTyped
      <4> QED BY <4>1, FeatureTypes
    <3>6. /\ features'[g].scenarios[t].start = features[g].scenarios[t].start
          /\ features'[g].scenarios[t].count = features[g].scenarios[t].count + 1
          /\ Len(features'[g].scenarios) = Len(features[g].scenarios)
      BY <1>3, <3>3
    <3>7. ASSUME bddParser.dropped = 0
          PROVE  features'[g].scenarios[t].start + features'[g].scenarios[t].count = n + 2
      <4> DEFINE a == features[g].scenarios[t].start
                 c == features[g].scenarios[t].count
                 a2 == features'[g].scenarios[t].start
                 c2 == features'[g].scenarios[t].count
      <4>1. a + c = n + 1
        BY <1>2, <3>1, <3>4, <3>7
      <4>2. a \in Nat /\ c \in Nat /\ a2 = a /\ c2 = c + 1
        BY <3>5, <3>6
      <4>3. n \in Nat
        BY <1>7
      <4> HIDE DEF a, c, a2, c2
      <4>4. a2 + c2 = n + 2
        BY <4>1, <4>2, <4>3
      <4> QED BY <4>4 DEF a2, c2
    <3> QED BY <3>1, <3>4, <3>6, <3>7
  <2>2. Len(bddSteps') + 1 = n + 2
    BY <1>7
  <2>3. bddParser.scenario # NoScenario => bddParser.scenario = b
    BY <1>2
  <2>4. bddParser.inBackground => Len(features) >= 1 /\ bddParser.scenario = NoScenario
    BY DEF BddTablesInv, OpenScenario
  <2> QED BY <1>2, <1>3, <1>4, <2>1, <2>2, <2>3, <2>4 DEF OpenScenario
<1>13. KeywordsAreResolved'
  <2>1. bddSteps'[n + 1].resolved = r /\ bddSteps'[n + 1].keyword = keyword
    BY <1>5, <1>7
  <2>2. ASSUME NEW i \in 1..(n + 1)
        PROVE  /\ bddSteps'[i].keyword \in Keywords =>
                    bddSteps'[i].resolved = bddSteps'[i].keyword
               /\ bddSteps'[i].keyword \in Conjunctions /\ i > 1 =>
                    bddSteps'[i].resolved = bddSteps'[i - 1].resolved
    <3>1. CASE i \in 1..n
      <4>1. bddSteps'[i] = bddSteps[i]
        BY <1>7, <3>1
      <4>2. i > 1 => bddSteps'[i - 1] = bddSteps[i - 1]
        <5>1. i > 1 => i - 1 \in 1..n
          BY <1>7, <3>1
        <5> QED BY <1>7, <5>1
      <4> QED BY <3>1, <4>1, <4>2 DEF BddTablesInv, KeywordsAreResolved, n
    <3>2. CASE i = n + 1
      <4>1. i > 1 => bddSteps'[i - 1] = bddSteps[n] /\ bddParser.last = bddSteps[n].resolved
        <5>1. i > 1 => n \in 1..n /\ i - 1 = n /\ n >= 1
          BY <1>7, <3>2
        <5> QED BY <1>7, <5>1 DEF BddTablesInv, KeywordsAreResolved, n
      <4> QED BY <1>1, <2>1, <3>2, <4>1
    <3> QED BY <1>8, <3>1, <3>2
  <2> QED BY <1>4, <1>7, <2>1, <2>2 DEF KeywordsAreResolved

<1>14. RangesAreScenarios'
  <2> SUFFICES ASSUME bddParser.dropped = 0,
                      NEW g \in 1..Len(features), NEW t \in 1..Len(features[g].scenarios)
               PROVE  LET sc == features'[g].scenarios[t]
                      IN /\ StepsOf(<<g, t>>)' = sc.start..(sc.start + sc.count - 1)
                         /\ \A i \in StepsOf(<<g, t>>)' :
                              bddSteps'[i].place = i - sc.start + 1
    <3>1. DOMAIN features' = 1..Len(features)
      BY <1>3
    <3>2. \A g \in 1..Len(features) :
            DOMAIN features'[g].scenarios = 1..Len(features[g].scenarios)
      BY <1>3, FeatureTypes
    <3> QED BY <1>4, <3>1, <3>2 DEF RangesAreScenarios
  <2> DEFINE start == features[g].scenarios[t].start
             count == features[g].scenarios[t].count
             count2 == features'[g].scenarios[t].count
  <2> SUFFICES /\ StepsOf(<<g, t>>)' = start..(start + count2 - 1)
               /\ \A i \in start..(start + count2 - 1) :
                    bddSteps'[i].place = i - start + 1
    BY <1>3
  <2>1. start \in Nat /\ count \in Nat
    <3>1. features \in Seq(BddFeature)
      BY DEF BddTablesInv, BddTablesTyped
    <3> QED BY <3>1, FeatureTypes
  <2>2. /\ StepsOf(<<g, t>>) = start..(start + count - 1)
        /\ \A i \in start..(start + count - 1) : bddSteps[i].place = i - start + 1
    <3>1. DOMAIN features = 1..Len(features)
          /\ DOMAIN features[g].scenarios = 1..Len(features[g].scenarios)
      BY FeatureTypes DEF BddTablesInv, BddTablesTyped
    <3> QED BY <3>1 DEF BddTablesInv, RangesAreScenarios
  <2>3. \A i \in StepsOf(<<g, t>>) : bddSteps'[i].place = i - start + 1
    BY <1>7, <1>9, <2>2
  <2>4. CASE b # <<g, t>>
    <3>1. count2 = count
      BY <1>3, <2>4
    <3> HIDE DEF start, count, count2
    <3> QED BY <1>9, <2>2, <2>3, <2>4, <3>1
  <2>5. CASE b = <<g, t>>
    <3>1. count2 = count + 1
      BY <1>3, <2>5
    <3>2. start + count = n + 1
      <4>1. b[1] = g /\ b[2] = t /\ t # 0
        BY <2>5
      <4> QED BY <1>2, <4>1
    <3> HIDE DEF start, count, count2
    <3>3. /\ start..(start + (count + 1) - 1) = (start..(start + count - 1)) \cup {n + 1}
          /\ Cardinality(start..(start + count - 1)) = count
          /\ n + 1 - start + 1 = count + 1
      <4>1. n \in Nat /\ start \in Nat /\ count \in Nat
        BY <1>7, <2>1
      <4> QED BY <3>2, <4>1, RangeGrows
    <3>4. start..(start + count2 - 1) = (start..(start + count - 1)) \cup {n + 1}
      BY <3>1, <3>3
    <3>5. bddSteps'[n + 1].place = n + 1 - start + 1
      BY <1>5, <1>7, <2>2, <2>5, <3>3
    <3>6. StepsOf(<<g, t>>)' = StepsOf(<<g, t>>) \cup {n + 1}
      BY <1>9, <2>5
    <3>7. start..(start + count2 - 1) = StepsOf(<<g, t>>) \cup {n + 1}
      BY <2>2, <3>4
    <3>8. \A i \in start..(start + count2 - 1) : i \in StepsOf(<<g, t>>) \/ i = n + 1
      BY <3>7
    <3>9. \A i \in start..(start + count2 - 1) : bddSteps'[i].place = i - start + 1
      <4> SUFFICES ASSUME NEW i \in start..(start + count2 - 1)
                   PROVE  bddSteps'[i].place = i - start + 1
        OBVIOUS
      <4>1. CASE i = n + 1
        BY <1>7, <2>1, <3>5, <4>1
      <4>2. CASE i \in StepsOf(<<g, t>>)
        BY <2>3, <4>2
      <4> QED BY <3>8, <4>1, <4>2
    <3> QED BY <3>6, <3>7, <3>9
  <2> QED BY <2>4, <2>5
<1>15. ShiftOfRanges'
  <2> SUFFICES ASSUME bddParser.dropped = 0, Len(features) >= 1,
                      NEW k, k = Len(features[1].scenarios)
               PROVE  /\ \A m \in 1..k :
                           features'[1].scenarios[m].start =
                             1 + SumBefore'[m] + Cardinality(BackgroundBefore(m)')
                      /\ Len(features) = 1 =>
                           n + 1 = SumBefore'[k + 1] + Cardinality(StepsOf(<<1, 0>>)')
    <3> SUFFICES ASSUME bddParser.dropped = 0, Len(features) >= 1
                 PROVE  /\ \A m \in DOMAIN features'[1].scenarios :
                             features'[1].scenarios[m].start =
                               1 + SumBefore'[m] + Cardinality(BackgroundBefore(m)')
                        /\ Len(features) = 1 =>
                             n + 1 = SumBefore'[Len(features[1].scenarios) + 1]
                                       + Cardinality(StepsOf(<<1, 0>>)')
      <4>1. Len(features) >= 1 =>
              Len(features'[1].scenarios) = Len(features[1].scenarios)
        BY <1>3, FeatureTypes DEF BddTablesInv, BddTablesTyped
      <4> QED BY <1>3, <1>4, <1>7, <4>1 DEF ShiftOfRanges
    <3>1. 1 \in 1..Len(features) /\ 1 \in 1..Len(features')
      BY <1>3, FeatureTypes DEF BddTablesInv, BddTablesTyped
    <3>2. DOMAIN features'[1].scenarios = 1..Len(features[1].scenarios)
      BY <1>3, <3>1, FeatureTypes
    <3> QED BY <3>2
  <2> DEFINE c == features[1].scenarios
             d == features'[1].scenarios
  <2>1. 1 \in 1..Len(features) /\ features \in Seq(BddFeature) /\ Len(features) \in Nat
    BY DEF BddTablesInv, BddTablesTyped
  <2>2. k \in Nat /\ \A m \in 1..k : c[m].count \in Nat /\ c[m].start \in Nat
    BY <2>1, FeatureTypes
  <2>3. SumBefore = RunningSum(c) /\ SumBefore' = RunningSum(d)
    BY DEF SumBefore, RunningSum
  <2>4. \A m \in 1..k : d[m].start = c[m].start
    BY <1>3, <2>1
  <2>5. \A m \in 1..k : /\ b = <<1, m>> => d[m].count = c[m].count + 1
                        /\ b # <<1, m>> => d[m].count = c[m].count
    BY <1>3, <2>1
  <2>6. \A m \in 1..k : b = <<1, m>> => m = k
    BY <1>2
  <2>7. \A m \in 1..k : SumBefore'[m] = SumBefore[m]
    <3>1. CASE k = 0
      BY <3>1
    <3>2. CASE k # 0
      <4>1. k - 1 \in Nat /\ 1..k \subseteq 0..(k - 1 + 1)
        BY <2>2, <3>2
      <4>2. SameCounts(d, c, k - 1)
        <5>1. \A m \in 1..(k - 1) : m \in 1..k /\ m # k
          BY <2>2
        <5> QED BY <2>5, <2>6, <5>1 DEF SameCounts
      <4> HIDE DEF c, d
      <4> QED BY <2>3, <4>1, <4>2, RunningSumAgrees
    <3> QED BY <3>1, <3>2
  <2>8. \A m \in 1..k : BackgroundBefore(m)' = BackgroundBefore(m)
    <3>1. \A m \in 1..k : c[m].start \in 1..(n + 1)
      BY <2>1 DEF BddTablesInv, RangesLieInTheTable, n
    <3>2. \A m \in 1..k : ~(n + 1 < d[m].start)
      BY <1>7, <2>4, <3>1
    <3>3. StepsOf(<<1, 0>>)' = StepsOf(<<1, 0>>) \/ StepsOf(<<1, 0>>)' = StepsOf(<<1, 0>>) \cup {n + 1}
      BY <1>9
    <3> QED BY <2>4, <3>2, <3>3 DEF BackgroundBefore
  <2>9. \A m \in 1..k : c[m].start = 1 + SumBefore[m] + Cardinality(BackgroundBefore(m))
    <3>1. DOMAIN c = 1..k
      BY <2>1, FeatureTypes
    <3> QED BY <3>1 DEF BddTablesInv, ShiftOfRanges
  <2>10. ASSUME Len(features) = 1
         PROVE  n + 1 = SumBefore'[k + 1] + Cardinality(StepsOf(<<1, 0>>)')
    <3> DEFINE bg == Cardinality(StepsOf(<<1, 0>>))
               bg2 == Cardinality(StepsOf(<<1, 0>>)')
               s == SumBefore[k + 1]
               s2 == SumBefore'[k + 1]
    <3> SUFFICES n + 1 = s2 + bg2
      OBVIOUS
    <3>1. n = s + bg
      BY <2>10 DEF BddTablesInv, ShiftOfRanges, n
    <3>2. bg \in Nat
      BY BddStepTypes DEF BddTablesInv
    <3>3. s \in Nat
      <4>1. k + 1 \in 0..(k + 1) /\ \A m \in 1..k : c[m].count \in Nat
        BY <2>2
      <4> HIDE DEF c
      <4> QED BY <2>2, <2>3, <4>1, RunningSumNat
    <3>4. b = <<1, 0>> \/ (k >= 1 /\ b = <<1, k>>)
      BY <1>2, <2>2, <2>10
    <3>5. CASE b = <<1, 0>>
      <4>1. bg2 = bg + 1
        <5>1. StepsOf(<<1, 0>>) \subseteq 1..n
          BY <1>9
        <5>2. StepsOf(<<1, 0>>)' = StepsOf(<<1, 0>>) \cup {n + 1}
          BY <1>9, <3>5
        <5>3. Cardinality(StepsOf(<<1, 0>>) \cup {n + 1}) = Cardinality(StepsOf(<<1, 0>>)) + 1
          BY <1>7, <5>1, PartOfInterval
        <5> QED BY <5>2, <5>3
      <4>2. SameCounts(d, c, k)
        BY <2>5, <3>5 DEF SameCounts
      <4>3. s2 = s
        <5>1. k + 1 \in 0..(k + 1)
          BY <2>2
        <5> HIDE DEF c, d
        <5> QED BY <2>2, <2>3, <4>2, <5>1, RunningSumAgrees
      <4>4. n \in Nat
        BY <1>7
      <4> HIDE DEF c, d, s, s2, bg, bg2
      <4> QED BY <3>1, <3>2, <3>3, <4>1, <4>3, <4>4
    <3>6. CASE k >= 1 /\ b = <<1, k>>
      <4>1. bg2 = bg
        BY <1>9, <2>2, <3>6
      <4>2. s2 = SumBefore'[k] + d[k].count
        <5> HIDE DEF d
        <5>1. k + 1 \in Nat /\ ~(k + 1 <= 1) /\ k + 1 - 1 = k
          BY <2>2, <3>6
        <5> QED BY <2>3, <5>1, RunningSumRec
      <4>3. s = SumBefore[k] + c[k].count
        <5> HIDE DEF c
        <5>1. k + 1 \in Nat /\ ~(k + 1 <= 1) /\ k + 1 - 1 = k
          BY <2>2, <3>6
        <5> QED BY <2>3, <5>1, RunningSumRec
      <4>4. SumBefore'[k] = SumBefore[k] /\ d[k].count = c[k].count + 1 /\ c[k].count \in Nat
        BY <2>2, <2>5, <2>7, <3>6
      <4>5. SumBefore[k] \in Nat
        <5>1. k \in 0..(k + 1) /\ \A m \in 1..k : c[m].count \in Nat
          BY <2>2
        <5> HIDE DEF c
        <5> QED BY <2>2, <2>3, <5>1, RunningSumNat
      <4> HIDE DEF c, d
      <4>6. s2 = s + 1
        BY <4>2, <4>3, <4>4, <4>5
      <4> QED BY <1>7, <3>1, <3>2, <3>3, <4>1, <4>6
    <3> QED BY <3>4, <3>5, <3>6
  <2> QED BY <2>4, <2>7, <2>8, <2>9, <2>10
<1> QED BY <1>10, <1>11, <1>12, <1>13, <1>14, <1>15 DEF BddTablesInv

LEMMA StepLineInv ==
  ASSUME BddTablesInv, NEW keyword \in Keywords \cup Conjunctions, StepLine(keyword)
  PROVE  BddTablesInv'
<1> DEFINE b == BlockOfStep
<1> HIDE DEF b
<1>1. CASE b = NoScenario
  <2>1. bddParser' = [bddParser EXCEPT !.lost = @ + 1] /\ UNCHANGED <<features, bddSteps>>
    BY <1>1 DEF StepLine, b
  <2>2. bddParser \in BddParserState /\ bddParser.last \in Keywords
    BY ParserTypes DEF BddTablesInv, BddTablesTyped
  <2>3. /\ bddParser' \in BddParserState /\ bddParser'.scenario = bddParser.scenario
        /\ bddParser'.inBackground = bddParser.inBackground
        /\ bddParser'.dropped = bddParser.dropped /\ bddParser'.last = bddParser.last
    BY <2>1, <2>2, ParserChanged
  <2> QED BY <2>1, <2>3, SameButParser
<1>2. CASE b # NoScenario /\ ~(Len(bddSteps) < MaxSteps)
  <2>1. /\ CountStep(b) /\ bddParser' = [bddParser EXCEPT !.dropped = @ + 1]
        /\ bddSteps' = bddSteps
    BY <1>2 DEF StepLine, b
  <2> QED BY <1>2, <2>1, DroppedStepInv DEF b
<1>3. CASE b # NoScenario /\ Len(bddSteps) < MaxSteps
  <2>1. WritesStep(b, keyword, Resolved(keyword))
    BY <1>3 DEF StepLine, WritesStep, b
  <2> QED BY <1>3, <2>1, WrittenStepInv DEF b
<1> QED BY <1>1, <1>2, <1>3

BddRuns ==
  RunAll \/ (\E passes \in BOOLEAN : RunStep(passes)) \/ EndScenario \/ EndRun

LEMMA TablesUnchanged ==
  ASSUME BddTablesInv, UNCHANGED <<features, bddSteps, bddParser>> PROVE BddTablesInv'
<1>1. /\ bddParser' \in BddParserState /\ bddParser'.last = bddParser.last
      /\ bddParser'.dropped = bddParser.dropped
      /\ bddParser'.inBackground = bddParser.inBackground
      /\ bddParser'.scenario = bddParser.scenario
  BY DEF BddTablesInv, BddTablesTyped
<1> QED BY <1>1, SameButParser

LEMMA BddTablesAlways == BddSpec => []BddTablesInv
<1>1. BddInit => BddTablesInv
  BY BddInitTables
<1>2. BddTablesInv /\ [BddNext]_bddVars => BddTablesInv'
  <2> SUFFICES ASSUME BddTablesInv, [BddNext]_bddVars PROVE BddTablesInv'
    OBVIOUS
  <2>1. CASE FeatureLine
    BY <2>1, FeatureLineInv
  <2>2. CASE BackgroundLine
    BY <2>2, BackgroundLineInv
  <2>3. CASE ScenarioLine
    BY <2>3, ScenarioLineInv
  <2>4. CASE \E keyword \in Keywords \cup Conjunctions : StepLine(keyword)
    BY <2>4, StepLineInv
  <2>5. CASE BddRuns
    <3>1. UNCHANGED <<features, bddSteps, bddParser>>
      BY <2>5 DEF BddRuns, RunAll, RunStep, EndScenario, EndRun
    <3> QED BY <3>1, TablesUnchanged
  <2>6. CASE UNCHANGED bddVars
    BY <2>6, TablesUnchanged DEF bddVars
  <2> QED BY <2>1, <2>2, <2>3, <2>4, <2>5, <2>6 DEF BddNext, BddRuns
<1> QED BY <1>1, <1>2, PTL DEF BddSpec

\* A conjunction takes its keyword from the step before it, and that from the one before:
\* back to the last step that has a keyword of its own.
LEMMA ConjunctionsLookBack ==
  ASSUME BddTablesTyped, KeywordsAreResolved PROVE AndKeepsToItsScenario
<1> DEFINE Own(j, i) == bddSteps[j].keyword \in Keywords
                          /\ \A k \in j..i : bddSteps[k].block = bddSteps[i].block
           before(i) == {j \in 1..(i - 1) : Own(j, i)}
<1>1. /\ DOMAIN bddSteps = 1..Len(bddSteps) /\ Len(bddSteps) \in Nat
      /\ \A i \in 1..Len(bddSteps) : bddSteps[i].keyword \in Keywords \cup Conjunctions
  BY BddStepTypes
<1>2. \A k \in Keywords : k \notin Conjunctions
  BY DEF Keywords, Conjunctions
<1> SUFFICES ASSUME NEW i \in 1..Len(bddSteps), bddSteps[i].keyword \in Conjunctions,
                    before(i) # {}
             PROVE  \E j \in before(i) : /\ \A k \in before(i) : k <= j
                                         /\ bddSteps[i].resolved = bddSteps[j].keyword
  BY <1>1 DEF AndKeepsToItsScenario
<1>3. i \in Nat /\ before(i) \in SUBSET (0..i)
  BY <1>1
<1>4. PICK j \in before(i) : \A k \in before(i) : k <= j
  <2> HIDE DEF before
  <2> QED BY <1>3, Greatest
<1>5. j \in 1..(i - 1) /\ Own(j, i)
  OBVIOUS
<1>6. ASSUME NEW k \in (j + 1)..i PROVE bddSteps[k].keyword \in Conjunctions
  <2>1. k \in 1..Len(bddSteps)
    BY <1>1, <1>5
  <2>2. CASE k = i
    BY <2>2
  <2>3. CASE k # i
    <3>1. k \in 1..(i - 1) /\ ~(k <= j) /\ \A m \in k..i : m \in j..i
      BY <1>1, <1>5, <2>3
    <3>2. k \notin before(i)
      <4> HIDE DEF before
      <4> QED BY <1>4, <3>1
    <3>3. \A m \in k..i : bddSteps[m].block = bddSteps[i].block
      BY <1>5, <3>1
    <3>4. bddSteps[k].keyword \notin Keywords
      BY <3>1, <3>2, <3>3
    <3> QED BY <1>1, <2>1, <3>4
  <2> QED BY <2>2, <2>3
<1>7. ASSUME NEW k \in (j + 1)..i PROVE bddSteps[k].resolved = bddSteps[k - 1].resolved
  <2>1. k \in 1..Len(bddSteps) /\ k > 1
    BY <1>1, <1>5
  <2> QED BY <1>6, <2>1 DEF KeywordsAreResolved
<1> DEFINE Same == {k \in Nat : j <= k /\ k <= i => bddSteps[k].resolved = bddSteps[j].resolved}
<1>8. Same = Nat
  <2>1. Same \in SUBSET Nat /\ 0 \in Same
    BY <1>5
  <2>2. ASSUME NEW k \in Same PROVE k + 1 \in Same
    <3> SUFFICES ASSUME j <= k + 1, k + 1 <= i
                 PROVE  bddSteps[k + 1].resolved = bddSteps[j].resolved
      OBVIOUS
    <3>1. CASE k + 1 = j
      BY <3>1
    <3>2. CASE k + 1 # j
      <4>1. k + 1 \in (j + 1)..i /\ k + 1 - 1 = k /\ j <= k /\ k <= i
        BY <1>3, <1>5, <3>2
      <4>2. bddSteps[k + 1].resolved = bddSteps[k].resolved
        BY <1>7, <4>1
      <4> QED BY <4>1, <4>2
    <3> QED BY <3>1, <3>2
  <2> HIDE DEF Same
  <2> QED BY <2>1, <2>2, SetInduction
<1>9. bddSteps[i].resolved = bddSteps[j].resolved
  BY <1>3, <1>5, <1>8
<1>10. bddSteps[j].resolved = bddSteps[j].keyword
  <2>1. j \in 1..Len(bddSteps)
    BY <1>1, <1>5
  <2> QED BY <1>5, <2>1 DEF KeywordsAreResolved
<1> QED BY <1>4, <1>9, <1>10

\* As long as the table has room the range the parser keeps of a scenario is that
\* scenario, and a conjunction means the last keyword before it in its block: a
\* Background line, another Scenario or a Feature in between does not change that
\* (bddgen.c:176-182, :282-285, :306-312).
THEOREM StepsComeAsWritten == BddSpec => []StepsAreAsWritten
<1>1. BddTablesInv => StepsAreAsWritten
  BY ConjunctionsLookBack DEF BddTablesInv, StepsAreAsWritten
<1> QED BY <1>1, BddTablesAlways, PTL

-----------------------------------------------------------------------------
(* The runner. *)

RunEntry == [scenario : Nat, step : Nat, passes : BOOLEAN]
BddRun == [state : {"none", "running", "done"}, scenario : Nat, step : Nat,
           passed : BOOLEAN, log : Seq(RunEntry), scenarios : Nat,
           failedScenarios : Nat, steps : Nat, failedSteps : Nat]

\* Among the first k entries of a log, those of scenario n; those that did not pass.
CountIn(log, n, k) == Cardinality({j \in 1..k : log[j].scenario = n})
FailedIn(log) == Cardinality({j \in 1..Len(log) : ~log[j].passes})
FailsIn(log, n) == \E j \in 1..Len(log) : log[j].scenario = n /\ ~log[j].passes

RunIsFresh ==
  run.state = "none" =>
    /\ run.scenario = 0 /\ run.step = 0 /\ run.log = <<>> /\ run.scenarios = 0
    /\ run.failedScenarios = 0 /\ run.steps = 0 /\ run.failedSteps = 0 /\ run.passed

RunIsInTheTables ==
  /\ Len(features) >= 1
  /\ run.scenario \in 1..(ScenarioCount + 1) /\ run.scenarios = run.scenario - 1
  /\ run.state = "done" => run.scenario = ScenarioCount + 1
  /\ run.scenario <= ScenarioCount => run.step <= StepTotal(run.scenario)

\* An entry is as far from the sum of the counts before its scenario as there are entries
\* of that scenario; scenarios that are over were run to their last step.
LogFollowsTheRanges ==
  /\ \A k \in 1..Len(run.log) :
       LET e == run.log[k]
           c == CountIn(run.log, e.scenario, k)
       IN /\ e.scenario \in 1..ScenarioCount /\ e.scenario <= run.scenario
          /\ c \in 1..StepTotal(e.scenario)
          /\ e.step = SumBefore[e.scenario] + c /\ e.step \in 1..Len(bddSteps)
  /\ CountIn(run.log, run.scenario, Len(run.log)) = run.step
  /\ bddParser.dropped = 0 =>
       \A n \in 1..(run.scenario - 1) : CountIn(run.log, n, Len(run.log)) = StepTotal(n)

FailuresAreCounted ==
  /\ run.steps = Len(run.log) /\ run.failedSteps = FailedIn(run.log)
  /\ run.failedScenarios = Cardinality({n \in 1..(run.scenario - 1) : FailsIn(run.log, n)})
  /\ run.passed <=> ~FailsIn(run.log, run.scenario)

BddRunInv ==
  /\ run \in BddRun /\ RunIsFresh
  /\ run.state # "none" => RunIsInTheTables /\ LogFollowsTheRanges /\ FailuresAreCounted

LEMMA LogTypes ==
  ASSUME NEW log \in Seq(RunEntry)
  PROVE  /\ DOMAIN log = 1..Len(log) /\ Len(log) \in Nat
         /\ \A k \in 1..Len(log) : /\ log[k] \in RunEntry /\ log[k].scenario \in Nat
                                   /\ log[k].step \in Nat /\ log[k].passes \in BOOLEAN
<1>1. /\ DOMAIN log = 1..Len(log) /\ Len(log) \in Nat
      /\ \A k \in 1..Len(log) : log[k] \in RunEntry
  OBVIOUS
<1>2. \A e \in RunEntry : e.scenario \in Nat /\ e.step \in Nat /\ e.passes \in BOOLEAN
  BY DEF RunEntry
<1> QED BY <1>1, <1>2

\* A log with an entry more.
LogGrown(log, e, new, m) ==
  /\ new \in Seq(RunEntry) /\ m \in Nat /\ Len(new) = m + 1
  /\ \A k \in 1..m : new[k] = log[k]
  /\ new[m + 1] = e
  /\ \A n : CountIn(log, n, m) \in Nat
  /\ \A n : \A k \in 1..m : CountIn(new, n, k) = CountIn(log, n, k)
  /\ \A n : e.scenario = n => CountIn(new, n, m + 1) = CountIn(log, n, m) + 1
  /\ \A n : e.scenario # n => CountIn(new, n, m + 1) = CountIn(log, n, m)
  /\ FailedIn(log) \in Nat
  /\ ~e.passes => FailedIn(new) = FailedIn(log) + 1
  /\ e.passes => FailedIn(new) = FailedIn(log)
  /\ \A n : FailsIn(new, n) <=> FailsIn(log, n) \/ (e.scenario = n /\ ~e.passes)

LEMMA LogGrows ==
  ASSUME NEW log \in Seq(RunEntry), NEW e \in RunEntry, NEW new, new = Append(log, e),
         NEW m, m = Len(log)
  PROVE  LogGrown(log, e, new, m)
<1>1. /\ new \in Seq(RunEntry) /\ m \in Nat /\ Len(new) = m + 1
      /\ \A k \in 1..m : new[k] = log[k]
      /\ new[m + 1] = e
  BY Appended
<1>2. \A k \in 1..(m + 1) : k \in 1..m \/ k = m + 1
  BY <1>1
<1> DEFINE Own(l, n, k) == {j \in 1..k : l[j].scenario = n}
           Bad(l, k) == {j \in 1..k : ~l[j].passes}
<1>3. ASSUME NEW n
      PROVE  /\ CountIn(log, n, m) \in Nat
             /\ \A k \in 1..m : CountIn(new, n, k) = CountIn(log, n, k)
             /\ e.scenario = n => CountIn(new, n, m + 1) = CountIn(log, n, m) + 1
             /\ e.scenario # n => CountIn(new, n, m + 1) = CountIn(log, n, m)
  <2>1. /\ Own(log, n, m) \in SUBSET (1..m)
        /\ \A k \in 1..m : Own(new, n, k) = Own(log, n, k)
    BY <1>1
  <2>2. /\ e.scenario = n => Own(new, n, m + 1) = Own(log, n, m) \cup {m + 1}
        /\ e.scenario # n => Own(new, n, m + 1) = Own(log, n, m)
    BY <1>1, <1>2
  <2>3. \A l, k : CountIn(l, n, k) = Cardinality(Own(l, n, k))
    BY DEF CountIn
  <2> HIDE DEF Own
  <2>4. /\ Cardinality(Own(log, n, m)) \in Nat
        /\ Cardinality(Own(log, n, m) \cup {m + 1}) = Cardinality(Own(log, n, m)) + 1
    BY <1>1, <2>1, PartOfInterval
  <2>5. \A k \in 1..m : CountIn(new, n, k) = CountIn(log, n, k)
    BY <2>1, <2>3
  <2>6. ASSUME e.scenario = n PROVE CountIn(new, n, m + 1) = CountIn(log, n, m) + 1
    <3>1. Own(new, n, m + 1) = Own(log, n, m) \cup {m + 1}
      BY <2>2, <2>6
    <3>2. CountIn(new, n, m + 1) = Cardinality(Own(new, n, m + 1))
      BY <2>3
    <3>3. CountIn(log, n, m) = Cardinality(Own(log, n, m))
      BY <2>3
    <3> QED BY <2>4, <3>1, <3>2, <3>3
  <2>7. e.scenario # n => CountIn(new, n, m + 1) = CountIn(log, n, m)
    BY <2>2, <2>3
  <2> QED BY <2>3, <2>4, <2>5, <2>6, <2>7
<1>4. /\ FailedIn(log) \in Nat
      /\ ~e.passes => FailedIn(new) = FailedIn(log) + 1
      /\ e.passes => FailedIn(new) = FailedIn(log)
  <2>1. Bad(log, m) \in SUBSET (1..m)
    OBVIOUS
  <2>2. /\ ~e.passes => Bad(new, m + 1) = Bad(log, m) \cup {m + 1}
        /\ e.passes => Bad(new, m + 1) = Bad(log, m)
    BY <1>1, <1>2
  <2>3. FailedIn(log) = Cardinality(Bad(log, m)) /\ FailedIn(new) = Cardinality(Bad(new, m + 1))
    BY <1>1 DEF FailedIn
  <2> HIDE DEF Bad
  <2>4. /\ Cardinality(Bad(log, m)) \in Nat
        /\ Cardinality(Bad(log, m) \cup {m + 1}) = Cardinality(Bad(log, m)) + 1
    BY <1>1, <2>1, PartOfInterval
  <2> QED BY <2>2, <2>3, <2>4
<1>5. ASSUME NEW n
      PROVE  FailsIn(new, n) <=> FailsIn(log, n) \/ (e.scenario = n /\ ~e.passes)
  BY <1>1, <1>2 DEF FailsIn
<1> QED BY <1>1, <1>3, <1>4, <1>5 DEF LogGrown

LEMMA RunTypes ==
  ASSUME run \in BddRun
  PROVE  /\ run.scenario \in Nat /\ run.step \in Nat /\ run.passed \in BOOLEAN
         /\ run.log \in Seq(RunEntry) /\ run.scenarios \in Nat
         /\ run.failedScenarios \in Nat /\ run.steps \in Nat /\ run.failedSteps \in Nat
         /\ run.state \in {"none", "running", "done"}
BY DEF BddRun

\* What the generated loops make of their local variables.
StepCarriedOut(r, e, passes) ==
  [r EXCEPT !.step = @ + 1, !.log = Append(@, e), !.steps = @ + 1,
            !.failedSteps = IF passes THEN @ ELSE @ + 1, !.passed = @ /\ passes]

ScenarioOver(r) ==
  [r EXCEPT !.scenario = @ + 1, !.step = 0, !.passed = TRUE, !.scenarios = @ + 1,
            !.failedScenarios = IF r.passed THEN @ ELSE @ + 1]

LEMMA StepCarriedOutRun ==
  ASSUME NEW r \in BddRun, NEW e \in RunEntry, NEW passes \in BOOLEAN,
         NEW new, new = StepCarriedOut(r, e, passes)
  PROVE  /\ new \in BddRun
         /\ new.state = r.state /\ new.scenario = r.scenario
         /\ new.step = r.step + 1 /\ new.log = Append(r.log, e)
         /\ new.steps = r.steps + 1 /\ new.scenarios = r.scenarios
         /\ passes => new.failedSteps = r.failedSteps
         /\ ~passes => new.failedSteps = r.failedSteps + 1
         /\ new.failedScenarios = r.failedScenarios
         /\ (new.passed <=> r.passed /\ passes)
<1> DEFINE failed == IF passes THEN r.failedSteps ELSE r.failedSteps + 1
           ok == r.passed /\ passes
           log == Append(r.log, e)
<1>1. new = [r EXCEPT !.step = r.step + 1, !.log = log, !.steps = r.steps + 1,
                      !.failedSteps = failed, !.passed = ok]
  BY DEF StepCarriedOut
<1>2. /\ r.step + 1 \in Nat /\ r.steps + 1 \in Nat
      /\ r.log \in Seq(RunEntry) /\ r.failedSteps \in Nat
  BY DEF BddRun
<1>3. failed \in Nat /\ log \in Seq(RunEntry)
      /\ (passes => failed = r.failedSteps) /\ (~passes => failed = r.failedSteps + 1)
  BY <1>2, Appended
<1>4. ok \in BOOLEAN
  OBVIOUS
<1> HIDE DEF failed, ok, log
<1>5. new \in BddRun
  BY <1>1, <1>2, <1>3, <1>4 DEF BddRun
<1>6. /\ new.state = r.state /\ new.scenario = r.scenario
      /\ new.step = r.step + 1 /\ new.log = log
      /\ new.steps = r.steps + 1 /\ new.scenarios = r.scenarios
      /\ new.failedSteps = failed
      /\ new.failedScenarios = r.failedScenarios /\ new.passed = ok
  BY <1>1 DEF BddRun
<1>7. new.passed <=> r.passed /\ passes
  BY <1>6, Zenon DEF ok
<1> QED BY <1>3, <1>5, <1>6, <1>7 DEF log

LEMMA RecordOfScenarioOver ==
  ASSUME NEW r \in BddRun, NEW next \in Nat, NEW zero \in Nat, NEW yes \in BOOLEAN,
         NEW over \in Nat, NEW failed \in Nat, NEW new,
         new = [r EXCEPT !.scenario = next, !.step = zero, !.passed = yes,
                         !.scenarios = over, !.failedScenarios = failed]
  PROVE  new \in BddRun
BY DEF BddRun

LEMMA ScenarioOverRun ==
  ASSUME NEW r \in BddRun, NEW new, new = ScenarioOver(r)
  PROVE  /\ new \in BddRun
         /\ new.state = r.state /\ new.scenario = r.scenario + 1 /\ new.step = 0
         /\ new.log = r.log /\ new.steps = r.steps /\ new.scenarios = r.scenarios + 1
         /\ new.failedSteps = r.failedSteps /\ new.passed
         /\ r.passed => new.failedScenarios = r.failedScenarios
         /\ ~r.passed => new.failedScenarios = r.failedScenarios + 1
<1> DEFINE failed == IF r.passed THEN r.failedScenarios ELSE r.failedScenarios + 1
           yes == TRUE
           next == r.scenario + 1
           over == r.scenarios + 1
<1>1. new = [r EXCEPT !.scenario = next, !.step = 0, !.passed = yes,
                      !.scenarios = over, !.failedScenarios = failed]
  BY DEF ScenarioOver
<1>2. next \in Nat /\ over \in Nat /\ yes \in BOOLEAN /\ r.failedScenarios \in Nat
  BY DEF BddRun
<1>3. failed \in Nat
      /\ (r.passed => failed = r.failedScenarios)
      /\ (~r.passed => failed = r.failedScenarios + 1)
  BY <1>2
<1> HIDE DEF failed, yes, next, over
<1>4. new \in BddRun
  BY <1>1, <1>2, <1>3, RecordOfScenarioOver
<1>5. /\ new.state = r.state /\ new.scenario = next /\ new.step = 0
      /\ new.log = r.log /\ new.steps = r.steps /\ new.scenarios = over
      /\ new.failedSteps = r.failedSteps /\ new.passed = yes
      /\ new.failedScenarios = failed
  BY <1>1 DEF BddRun
<1> QED BY <1>3, <1>4, <1>5 DEF yes, next, over

LEMMA RunBegun ==
  ASSUME NEW r \in BddRun, NEW new, new = [r EXCEPT !.state = "running", !.scenario = 1]
  PROVE  /\ new \in BddRun /\ new.state = "running" /\ new.scenario = 1
         /\ new.step = r.step /\ new.log = r.log /\ new.passed = r.passed
         /\ new.scenarios = r.scenarios /\ new.failedScenarios = r.failedScenarios
         /\ new.steps = r.steps /\ new.failedSteps = r.failedSteps
BY DEF BddRun

LEMMA RunDone ==
  ASSUME NEW r \in BddRun, NEW new, new = [r EXCEPT !.state = "done"]
  PROVE  /\ new \in BddRun /\ new.state = "done" /\ new.scenario = r.scenario
         /\ new.step = r.step /\ new.log = r.log /\ new.passed = r.passed
         /\ new.scenarios = r.scenarios /\ new.failedScenarios = r.failedScenarios
         /\ new.steps = r.steps /\ new.failedSteps = r.failedSteps
BY DEF BddRun

\* The tables while the runner runs.
LEMMA ScenariosOfTheFirst ==
  ASSUME BddTablesInv
  PROVE  /\ ScenarioCount \in Nat /\ Len(features) \in Nat
         /\ Len(features) >= 1 =>
              /\ ScenarioCount = Len(features[1].scenarios)
              /\ DOMAIN features = 1..Len(features) /\ 1 \in 1..Len(features)
              /\ DOMAIN features[1].scenarios = 1..ScenarioCount
         /\ \A n \in 1..ScenarioCount :
              /\ Len(features) >= 1
              /\ StepTotal(n) = features[1].scenarios[n].count /\ StepTotal(n) \in Nat
              /\ features[1].scenarios[n].start \in Nat
              /\ SumBefore[n] \in Nat
<1>1. /\ features \in Seq(BddFeature) /\ Len(features) \in Nat
      /\ features = <<>> <=> Len(features) = 0
  BY DEF BddTablesInv, BddTablesTyped
<1>2. CASE Len(features) = 0
  <2>1. ScenarioCount = 0
    BY <1>1, <1>2 DEF ScenarioCount
  <2> QED BY <1>1, <1>2, <2>1
<1>3. CASE Len(features) >= 1
  <2>1. ScenarioCount = Len(features[1].scenarios) /\ 1 \in 1..Len(features)
        /\ DOMAIN features = 1..Len(features)
    BY <1>1, <1>3 DEF ScenarioCount
  <2>2. /\ ScenarioCount \in Nat /\ DOMAIN features[1].scenarios = 1..ScenarioCount
        /\ \A n \in 1..ScenarioCount : /\ features[1].scenarios[n].count \in Nat
                                       /\ features[1].scenarios[n].start \in Nat
    BY <1>1, <2>1, FeatureTypes
  <2>3. \A n \in 1..ScenarioCount : SumBefore[n] \in Nat
    <3>1. \A n \in 0..(ScenarioCount + 1) : RunningSum(features[1].scenarios)[n] \in Nat
      BY <2>2, RunningSumNat
    <3>2. 1..ScenarioCount \subseteq 0..(ScenarioCount + 1)
      BY <2>2
    <3> QED BY <3>1, <3>2, SumBeforeIsRunningSum
  <2> QED BY <1>1, <1>3, <2>1, <2>2, <2>3 DEF StepTotal
<1> QED BY <1>1, <1>2, <1>3

\* Where the range of a scenario lies, when no step was dropped.
LEMMA RangeOfScenario ==
  ASSUME BddTablesInv, bddParser.dropped = 0, NEW n \in 1..ScenarioCount
  PROVE  /\ features[1].scenarios[n].start =
              1 + SumBefore[n] + Cardinality(BackgroundBefore(n))
         /\ Cardinality(BackgroundBefore(n)) \in Nat
         /\ features[1].scenarios[n].start + StepTotal(n) <= Len(bddSteps) + 1
<1>1. /\ Len(features) >= 1 /\ 1 \in 1..Len(features)
      /\ DOMAIN features[1].scenarios = 1..ScenarioCount
      /\ ScenarioCount = Len(features[1].scenarios)
  BY ScenariosOfTheFirst
<1>2. features[1].scenarios[n].start = 1 + SumBefore[n] + Cardinality(BackgroundBefore(n))
  BY <1>1 DEF BddTablesInv, ShiftOfRanges
<1>3. Cardinality(BackgroundBefore(n)) \in Nat
  <2>1. BackgroundBefore(n) \in SUBSET (1..Len(bddSteps)) /\ Len(bddSteps) \in Nat
    BY BddStepTypes DEF BackgroundBefore, BddTablesInv
  <2> QED BY <2>1, PartOfInterval
<1>4. features[1].scenarios[n].start + StepTotal(n) <= Len(bddSteps) + 1
  BY <1>1 DEF BddTablesInv, RangesLieInTheTable, StepTotal
<1> QED BY <1>2, <1>3, <1>4

LEMMA TablesStay ==
  ASSUME UNCHANGED <<features, bddSteps, bddParser>>
  PROVE  /\ SumBefore' = SumBefore /\ ScenarioCount' = ScenarioCount
         /\ \A n : StepTotal(n)' = StepTotal(n)
BY DEF SumBefore, ScenarioCount, StepTotal

LEMMA EmptyLog ==
  /\ \A n : \A k \in {0} : CountIn(<<>>, n, k) = 0
  /\ FailedIn(<<>>) = 0 /\ \A n : ~FailsIn(<<>>, n)
<1>1. \A n : {j \in 1..0 : <<>>[j].scenario = n} = {}
  OBVIOUS
<1>2. {j \in 1..Len(<<>>) : ~<<>>[j].passes} = {}
  OBVIOUS
<1> QED BY <1>1, <1>2, FS_EmptySet DEF CountIn, FailedIn, FailsIn

LEMMA RunAllInv ==
  ASSUME BddTablesInv, BddRunInv, RunAll PROVE BddRunInv'
<1>1. /\ run.state = "none" /\ features # <<>>
      /\ UNCHANGED <<features, bddSteps, bddParser>>
      /\ run' = [run EXCEPT !.state = "running", !.scenario = 1]
  BY DEF RunAll
<1>2. /\ run.step = 0 /\ run.log = <<>> /\ run.scenarios = 0 /\ run.failedScenarios = 0
      /\ run.steps = 0 /\ run.failedSteps = 0 /\ run.passed /\ run \in BddRun
  BY <1>1 DEF BddRunInv, RunIsFresh
<1>3. /\ run' \in BddRun /\ run'.state = "running" /\ run'.scenario = 1
      /\ run'.step = 0 /\ run'.log = <<>> /\ run'.passed /\ run'.scenarios = 0
      /\ run'.failedScenarios = 0 /\ run'.steps = 0 /\ run'.failedSteps = 0
  BY <1>1, <1>2, RunBegun
<1>4. Len(features) >= 1 /\ ScenarioCount \in Nat /\ ScenarioCount' = ScenarioCount
  <2>1. features \in Seq(BddFeature)
    BY DEF BddTablesInv, BddTablesTyped
  <2> QED BY <1>1, <2>1, ScenariosOfTheFirst, TablesStay
<1>5. RunIsInTheTables'
  <2>1. 1 <= ScenarioCount => 0 <= StepTotal(1)
    <3>1. 1 <= ScenarioCount => 1 \in 1..ScenarioCount
      BY <1>4
    <3> QED BY <3>1, ScenariosOfTheFirst
  <2>2. \A n : StepTotal(n)' = StepTotal(n)
    BY <1>1, TablesStay
  <2> QED BY <1>1, <1>3, <1>4, <2>1, <2>2 DEF RunIsInTheTables
<1>6. LogFollowsTheRanges'
  <2>1. Len(run'.log) = 0 /\ 1..0 = {} /\ 1..(1 - 1) = {}
    BY <1>3
  <2> QED BY <1>3, <2>1, EmptyLog DEF LogFollowsTheRanges
<1>7. FailuresAreCounted'
  <2>1. {n \in 1..(1 - 1) : FailsIn(run'.log, n)} = {}
    OBVIOUS
  <2> QED BY <1>3, <2>1, EmptyLog, FS_EmptySet DEF FailuresAreCounted
<1>8. RunIsFresh'
  BY <1>3 DEF RunIsFresh
<1> QED BY <1>3, <1>5, <1>6, <1>7, <1>8 DEF BddRunInv

LEMMA EndRunInv ==
  ASSUME BddTablesInv, BddRunInv, EndRun PROVE BddRunInv'
<1>1. /\ run.state = "running" /\ ~InScenario /\ run \in BddRun
      /\ UNCHANGED <<features, bddSteps, bddParser>>
      /\ run' = [run EXCEPT !.state = "done"]
      /\ RunIsInTheTables /\ LogFollowsTheRanges /\ FailuresAreCounted
  BY DEF EndRun, BddRunInv
<1>2. /\ run' \in BddRun /\ run'.state = "done" /\ run'.scenario = run.scenario
      /\ run'.step = run.step /\ run'.log = run.log /\ run'.passed = run.passed
      /\ run'.scenarios = run.scenarios /\ run'.failedScenarios = run.failedScenarios
      /\ run'.steps = run.steps /\ run'.failedSteps = run.failedSteps
  BY <1>1, RunDone
<1>3. run.scenario = ScenarioCount + 1
  <2>1. ~(run.scenario <= ScenarioCount) /\ run.scenario \in 1..(ScenarioCount + 1)
    BY <1>1 DEF InScenario, RunIsInTheTables
  <2> QED BY <2>1, ScenariosOfTheFirst
<1>4. RunIsInTheTables'
  BY <1>1, <1>2, <1>3, TablesStay DEF RunIsInTheTables
<1>5. LogFollowsTheRanges'
  BY <1>1, <1>2, TablesStay DEF LogFollowsTheRanges
<1>6. FailuresAreCounted'
  BY <1>1, <1>2 DEF FailuresAreCounted
<1>7. RunIsFresh'
  BY <1>2 DEF RunIsFresh
<1> QED BY <1>2, <1>4, <1>5, <1>6, <1>7 DEF BddRunInv

LEMMA RunStepInv ==
  ASSUME BddTablesInv, BddRunInv, NEW passes \in BOOLEAN, RunStep(passes) PROVE BddRunInv'
<1> DEFINE n == run.scenario
           m == Len(run.log)
           e == [scenario |-> n, step |-> NextStep, passes |-> passes]
<1>1. /\ InScenario /\ HasStep /\ run \in BddRun
      /\ UNCHANGED <<features, bddSteps, bddParser>>
      /\ run' = StepCarriedOut(run, e, passes)
      /\ run.state = "running" /\ n <= ScenarioCount
      /\ RunIsInTheTables /\ LogFollowsTheRanges /\ FailuresAreCounted
  BY DEF RunStep, StepCarriedOut, InScenario, BddRunInv
<1>2. n \in 1..ScenarioCount /\ n \in Nat /\ run.step \in Nat
  BY <1>1, RunTypes, ScenariosOfTheFirst DEF RunIsInTheTables
<1>3. /\ NextStep = SumBefore[n] + (run.step + 1) /\ NextStep \in Nat
      /\ NextStep \in 1..Len(bddSteps) /\ run.step + 1 \in 1..StepTotal(n)
  <2>1. SumBefore[n] \in Nat /\ StepTotal(n) \in Nat /\ Len(bddSteps) \in Nat
    BY <1>2, ScenariosOfTheFirst, BddStepTypes DEF BddTablesInv
  <2>2. NextStep = 1 + SumBefore[n] + run.step
    BY DEF NextStep, StepStart
  <2>3. run.step < StepTotal(n) /\ NextStep <= Len(bddSteps)
    BY <1>1 DEF HasStep
  <2> HIDE DEF n
  <2> QED BY <1>2, <2>1, <2>2, <2>3
<1>4. e \in RunEntry /\ e.scenario = n /\ e.step = NextStep /\ e.passes = passes
  BY <1>2, <1>3 DEF RunEntry
<1> HIDE DEF n, e, m
<1>5. /\ run' \in BddRun
      /\ run'.state = run.state /\ run'.scenario = run.scenario
      /\ run'.step = run.step + 1 /\ run'.log = Append(run.log, e)
      /\ run'.steps = run.steps + 1 /\ run'.scenarios = run.scenarios
      /\ passes => run'.failedSteps = run.failedSteps
      /\ ~passes => run'.failedSteps = run.failedSteps + 1
      /\ run'.failedScenarios = run.failedScenarios
      /\ (run'.passed <=> run.passed /\ passes)
  BY <1>1, <1>4, StepCarriedOutRun
<1>6. /\ m \in Nat /\ Len(run'.log) = m + 1
      /\ \A k \in 1..m : run'.log[k] = run.log[k]
      /\ run'.log[m + 1] = e
      /\ \A s : \A k \in 1..m : CountIn(run'.log, s, k) = CountIn(run.log, s, k)
      /\ \A s : e.scenario = s =>
           CountIn(run'.log, s, m + 1) = CountIn(run.log, s, m) + 1
      /\ \A s : e.scenario # s => CountIn(run'.log, s, m + 1) = CountIn(run.log, s, m)
      /\ ~e.passes => FailedIn(run'.log) = FailedIn(run.log) + 1
      /\ e.passes => FailedIn(run'.log) = FailedIn(run.log)
      /\ \A s : FailsIn(run'.log, s) <=>
           FailsIn(run.log, s) \/ (e.scenario = s /\ ~e.passes)
  <2>1. run.log \in Seq(RunEntry) /\ m = Len(run.log)
    BY <1>1, RunTypes DEF m
  <2>2. run'.log = Append(run.log, e)
    BY <1>5
  <2>3. LogGrown(run.log, e, run'.log, m)
    BY <1>4, <2>1, <2>2, LogGrows
  <2> QED BY <2>3 DEF LogGrown
<1>7. CountIn(run'.log, n, m + 1) = run.step + 1
  <2>1. CountIn(run.log, n, m) = run.step
    BY <1>1 DEF LogFollowsTheRanges, n, m
  <2> QED BY <1>4, <1>6, <2>1
<1>8. RunIsInTheTables'
  <2>1. run.step + 1 <= StepTotal(n)
    BY <1>2, <1>3, ScenariosOfTheFirst
  <2>2. /\ ScenarioCount' = ScenarioCount /\ features' = features
        /\ \A s : StepTotal(s)' = StepTotal(s)
    BY <1>1, TablesStay
  <2> QED BY <1>1, <1>5, <2>1, <2>2 DEF RunIsInTheTables, n
<1>9. LogFollowsTheRanges'
  <2>1. ASSUME NEW k \in 1..(m + 1)
        PROVE  LET f == run'.log[k]
                   c == CountIn(run'.log, f.scenario, k)
               IN /\ f.scenario \in 1..ScenarioCount /\ f.scenario <= n
                  /\ c \in 1..StepTotal(f.scenario)
                  /\ f.step = SumBefore[f.scenario] + c /\ f.step \in 1..Len(bddSteps)
    <3>1. CASE k \in 1..m
      <4>1. /\ run'.log[k] = run.log[k]
            /\ \A s : CountIn(run'.log, s, k) = CountIn(run.log, s, k)
        BY <1>6, <3>1
      <4> QED BY <1>1, <3>1, <4>1 DEF LogFollowsTheRanges, m, n
    <3>2. CASE k = m + 1
      <4>1. run'.log[k] = e
        BY <1>6, <3>2
      <4> QED BY <1>2, <1>3, <1>4, <1>7, <3>2, <4>1
    <3> QED BY <1>6, <3>1, <3>2
  <2>2. ASSUME bddParser.dropped = 0, NEW s \in 1..(n - 1)
        PROVE  CountIn(run'.log, s, m + 1) = StepTotal(s)
    <3>1. s # n
      BY <1>2
    <3>2. CountIn(run.log, s, m) = StepTotal(s)
      BY <1>1, <2>2 DEF LogFollowsTheRanges, m, n
    <3> QED BY <1>4, <1>6, <3>1, <3>2
  <2>3. run'.scenario = n /\ run'.step = run.step + 1 /\ bddParser'.dropped = bddParser.dropped
    BY <1>1, <1>5 DEF n
  <2>4. /\ SumBefore' = SumBefore /\ ScenarioCount' = ScenarioCount /\ bddSteps' = bddSteps
        /\ \A s : StepTotal(s)' = StepTotal(s)
    BY <1>1, TablesStay
  <2> QED BY <1>6, <1>7, <2>1, <2>2, <2>3, <2>4 DEF LogFollowsTheRanges
<1>10. FailuresAreCounted'
  <2>1. run'.steps = Len(run'.log)
    BY <1>1, <1>5, <1>6 DEF FailuresAreCounted, m
  <2>2. run'.failedSteps = FailedIn(run'.log)
    <3>1. CASE passes
      BY <1>1, <1>4, <1>5, <1>6, <3>1 DEF FailuresAreCounted
    <3>2. CASE ~passes
      BY <1>1, <1>4, <1>5, <1>6, <3>2 DEF FailuresAreCounted
    <3> QED BY <3>1, <3>2
  <2>3. {s \in 1..(n - 1) : FailsIn(run'.log, s)} = {s \in 1..(n - 1) : FailsIn(run.log, s)}
    <3>1. \A s \in 1..(n - 1) : e.scenario # s
      BY <1>2, <1>4
    <3> QED BY <1>6, <3>1
  <2>4. run'.failedScenarios =
          Cardinality({s \in 1..(run'.scenario - 1) : FailsIn(run'.log, s)})
    BY <1>1, <1>5, <2>3 DEF FailuresAreCounted, n
  <2>5. run'.passed <=> ~FailsIn(run'.log, run'.scenario)
    <3>1. run.passed <=> ~FailsIn(run.log, n)
      BY <1>1 DEF FailuresAreCounted, n
    <3>2. FailsIn(run'.log, n) <=> FailsIn(run.log, n) \/ ~passes
      BY <1>4, <1>6
    <3> QED BY <1>5, <3>1, <3>2 DEF n
  <2> QED BY <2>1, <2>2, <2>4, <2>5 DEF FailuresAreCounted
<1>11. RunIsFresh'
  BY <1>1, <1>5 DEF RunIsFresh
<1> QED BY <1>5, <1>8, <1>9, <1>10, <1>11 DEF BddRunInv

LEMMA EndScenarioInv ==
  ASSUME BddTablesInv, BddRunInv, EndScenario PROVE BddRunInv'
<1> DEFINE n == run.scenario
           log == run.log
<1>1. /\ ~HasStep /\ run \in BddRun
      /\ UNCHANGED <<features, bddSteps, bddParser>>
      /\ run' = ScenarioOver(run)
      /\ run.state = "running" /\ n <= ScenarioCount
      /\ RunIsInTheTables /\ LogFollowsTheRanges /\ FailuresAreCounted
  BY DEF EndScenario, ScenarioOver, InScenario, BddRunInv
<1>2. /\ n \in 1..ScenarioCount /\ n \in Nat /\ run.step \in Nat /\ ScenarioCount \in Nat
      /\ log \in Seq(RunEntry) /\ run.scenarios = n - 1
  BY <1>1, RunTypes, ScenariosOfTheFirst DEF RunIsInTheTables
<1> HIDE DEF n, log
<1>3. /\ run' \in BddRun
      /\ run'.state = run.state /\ run'.scenario = n + 1 /\ run'.step = 0
      /\ run'.log = log /\ run'.steps = run.steps /\ run'.scenarios = run.scenarios + 1
      /\ run'.failedSteps = run.failedSteps /\ run'.passed
      /\ run.passed => run'.failedScenarios = run.failedScenarios
      /\ ~run.passed => run'.failedScenarios = run.failedScenarios + 1
  BY <1>1, ScenarioOverRun DEF n, log
<1>4. /\ \A k \in 1..Len(log) :
           LET e == log[k]
               c == CountIn(log, e.scenario, k)
           IN /\ e.scenario \in 1..ScenarioCount /\ e.scenario <= n
              /\ c \in 1..StepTotal(e.scenario)
              /\ e.step = SumBefore[e.scenario] + c /\ e.step \in 1..Len(bddSteps)
      /\ CountIn(log, n, Len(log)) = run.step
      /\ bddParser.dropped = 0 =>
           \A s \in 1..(n - 1) : CountIn(log, s, Len(log)) = StepTotal(s)
  BY <1>1 DEF LogFollowsTheRanges, n, log
<1>5. \A k \in 1..Len(log) : log[k].scenario # n + 1
  <2>1. \A k \in 1..Len(log) : log[k].scenario \in Nat /\ log[k].scenario <= n
    BY <1>2, <1>4, LogTypes
  <2> QED BY <1>2, <2>1
<1>6. RunIsInTheTables'
  <2>1. run'.scenario \in 1..(ScenarioCount + 1) /\ run'.scenarios = run'.scenario - 1
    BY <1>2, <1>3
  <2>2. n + 1 <= ScenarioCount => 0 <= StepTotal(n + 1)
    <3>1. n + 1 <= ScenarioCount => n + 1 \in 1..ScenarioCount
      BY <1>2
    <3> QED BY <3>1, ScenariosOfTheFirst
  <2>3. /\ ScenarioCount' = ScenarioCount /\ features' = features
        /\ \A s : StepTotal(s)' = StepTotal(s)
    BY <1>1, TablesStay
  <2> QED BY <1>1, <1>3, <2>1, <2>2, <2>3 DEF RunIsInTheTables
<1>7. LogFollowsTheRanges'
  <2>1. \A k \in 1..Len(log) : log[k].scenario <= n + 1
    <3>1. \A k \in 1..Len(log) : log[k].scenario \in Nat /\ log[k].scenario <= n
      BY <1>2, <1>4, LogTypes
    <3> QED BY <1>2, <3>1
  <2>2. CountIn(log, n + 1, Len(log)) = 0
    <3>1. {j \in 1..Len(log) : log[j].scenario = n + 1} = {}
      BY <1>5
    <3> QED BY <3>1, FS_EmptySet DEF CountIn
  <2>3. ASSUME bddParser.dropped = 0 PROVE run.step = StepTotal(n)
    <3>1. features[1].scenarios[n].start =
            1 + SumBefore[n] + Cardinality(BackgroundBefore(n))
          /\ Cardinality(BackgroundBefore(n)) \in Nat
          /\ features[1].scenarios[n].start + StepTotal(n) <= Len(bddSteps) + 1
      BY <1>2, <2>3, RangeOfScenario
    <3>2. /\ SumBefore[n] \in Nat /\ StepTotal(n) \in Nat /\ Len(bddSteps) \in Nat
          /\ features[1].scenarios[n].start \in Nat
      BY <1>2, ScenariosOfTheFirst, BddStepTypes DEF BddTablesInv
    <3>3. run.step <= StepTotal(n)
      BY <1>1 DEF RunIsInTheTables, n
    <3>4. ~(run.step < StepTotal(n)) \/ ~(1 + SumBefore[n] + run.step <= Len(bddSteps))
      BY <1>1 DEF HasStep, NextStep, StepStart, n
    <3> DEFINE s == SumBefore[n]
               t == StepTotal(n)
               l == Len(bddSteps)
               st == features[1].scenarios[n].start
               bg == Cardinality(BackgroundBefore(n))
    <3>5. st = 1 + s + bg /\ bg \in Nat /\ st + t <= l + 1 /\ s \in Nat /\ t \in Nat
          /\ l \in Nat /\ st \in Nat
      BY <3>1, <3>2
    <3>6. run.step <= t /\ (~(run.step < t) \/ ~(1 + s + run.step <= l)) /\ run.step \in Nat
      BY <1>2, <3>3, <3>4
    <3> HIDE DEF s, t, l, st, bg
    <3>7. run.step = t
      BY <3>5, <3>6
    <3> QED BY <3>7 DEF t
  <2>4. ASSUME bddParser.dropped = 0, NEW s \in 1..n
        PROVE  CountIn(log, s, Len(log)) = StepTotal(s)
    <3>1. CASE s = n
      BY <1>4, <2>3, <2>4, <3>1
    <3>2. CASE s # n
      <4>1. s \in 1..(n - 1)
        BY <1>2, <3>2
      <4> QED BY <1>4, <2>4, <4>1
    <3> QED BY <3>1, <3>2
  <2>5. /\ SumBefore' = SumBefore /\ ScenarioCount' = ScenarioCount /\ bddSteps' = bddSteps
        /\ \A s : StepTotal(s)' = StepTotal(s)
        /\ bddParser'.dropped = bddParser.dropped
    BY <1>1, TablesStay
  <2>6. run'.scenario - 1 = n
    BY <1>2, <1>3
  <2> QED BY <1>3, <1>4, <2>1, <2>2, <2>4, <2>5, <2>6 DEF LogFollowsTheRanges
<1>8. FailuresAreCounted'
  <2>1. /\ run.steps = Len(log) /\ run.failedSteps = FailedIn(log)
        /\ run.failedScenarios = Cardinality({s \in 1..(n - 1) : FailsIn(log, s)})
        /\ run.passed <=> ~FailsIn(log, n)
    BY <1>1 DEF FailuresAreCounted, n, log
  <2>2. ~FailsIn(log, n + 1)
    BY <1>5 DEF FailsIn
  <2>3. run'.failedScenarios = Cardinality({s \in 1..n : FailsIn(log, s)})
    <3> DEFINE Before == {s \in 1..(n - 1) : FailsIn(log, s)}
    <3>1. Before \in SUBSET (1..(n - 1)) /\ n - 1 \in Nat /\ n - 1 + 1 = n
      BY <1>2
    <3>2. /\ FailsIn(log, n) => {s \in 1..n : FailsIn(log, s)} = Before \cup {n}
          /\ ~FailsIn(log, n) => {s \in 1..n : FailsIn(log, s)} = Before
      <4>1. \A s : s \in 1..n <=> s \in 1..(n - 1) \/ s = n
        BY <1>2
      <4> QED BY <4>1
    <3> HIDE DEF Before
    <3>3. Cardinality(Before \cup {n}) = Cardinality(Before) + 1
      <4>1. Cardinality(Before \cup {n - 1 + 1}) = Cardinality(Before) + 1
        BY <3>1, PartOfInterval
      <4> QED BY <3>1, <4>1
    <3>4. run.failedScenarios = Cardinality(Before)
      BY <2>1 DEF Before
    <3>5. CASE run.passed
      BY <1>3, <2>1, <3>2, <3>4, <3>5
    <3>6. CASE ~run.passed
      BY <1>3, <2>1, <3>2, <3>3, <3>4, <3>6
    <3> QED BY <3>5, <3>6
  <2>4. run'.scenario - 1 = n
    BY <1>2, <1>3
  <2> QED BY <1>3, <2>1, <2>2, <2>3, <2>4 DEF FailuresAreCounted
<1>9. RunIsFresh'
  BY <1>1, <1>3 DEF RunIsFresh
<1> QED BY <1>3, <1>6, <1>7, <1>8, <1>9 DEF BddRunInv

\* The parser's steps leave a runner that has not begun as it is.
LEMMA ParsingRunInv ==
  ASSUME BddRunInv, run.state = "none", UNCHANGED run PROVE BddRunInv'
BY DEF BddRunInv, RunIsFresh

LEMMA RunUnchanged ==
  ASSUME BddRunInv, UNCHANGED bddVars PROVE BddRunInv'
<1>1. UNCHANGED <<features, bddSteps, bddParser, run>>
  BY DEF bddVars
<1>2. RunIsFresh' /\ (run \in BddRun)'
  BY <1>1 DEF BddRunInv, RunIsFresh
<1>3. CASE run.state # "none"
  <2>1. RunIsInTheTables /\ LogFollowsTheRanges /\ FailuresAreCounted
    BY <1>3 DEF BddRunInv
  <2>2. RunIsInTheTables'
    BY <1>1, <2>1, TablesStay DEF RunIsInTheTables
  <2>3. LogFollowsTheRanges'
    BY <1>1, <2>1, TablesStay DEF LogFollowsTheRanges
  <2>4. FailuresAreCounted'
    BY <1>1, <2>1 DEF FailuresAreCounted
  <2> QED BY <1>2, <2>2, <2>3, <2>4 DEF BddRunInv
<1> QED BY <1>1, <1>2, <1>3 DEF BddRunInv

LEMMA BddRunAlways == BddSpec => []BddRunInv
<1>1. BddInit => BddRunInv
  <2> SUFFICES ASSUME BddInit PROVE BddRunInv
    OBVIOUS
  <2>1. run \in BddRun /\ run.state = "none" /\ RunIsFresh
    BY DEF BddInit, BddRun, RunIsFresh
  <2> QED BY <2>1 DEF BddRunInv
<1>2. BddTablesInv /\ BddRunInv /\ [BddNext]_bddVars => BddRunInv'
  <2> SUFFICES ASSUME BddTablesInv, BddRunInv, [BddNext]_bddVars PROVE BddRunInv'
    OBVIOUS
  <2>1. CASE \/ FeatureLine \/ BackgroundLine \/ ScenarioLine
             \/ \E keyword \in Keywords \cup Conjunctions : StepLine(keyword)
    <3>1. run.state = "none" /\ UNCHANGED run
      BY <2>1 DEF FeatureLine, BackgroundLine, ScenarioLine, StepLine, ReadsFeature
    <3> QED BY <3>1, ParsingRunInv
  <2>2. CASE RunAll
    BY <2>2, RunAllInv
  <2>3. CASE \E passes \in BOOLEAN : RunStep(passes)
    BY <2>3, RunStepInv
  <2>4. CASE EndScenario
    BY <2>4, EndScenarioInv
  <2>5. CASE EndRun
    BY <2>5, EndRunInv
  <2>6. CASE UNCHANGED bddVars
    BY <2>6, RunUnchanged
  <2> QED BY <2>1, <2>2, <2>3, <2>4, <2>5, <2>6 DEF BddNext
<1> QED BY <1>1, <1>2, BddTablesAlways, PTL DEF BddSpec

\* The sums are the starts of the scenarios, less the Background before each.
LEMMA EntriesAreOfTheScenario ==
  ASSUME BddTablesInv, BddRunInv PROVE BareScenariosRunTheirSteps
<1> SUFFICES ASSUME bddParser.dropped = 0, NEW k \in DOMAIN run.log,
                    BackgroundBefore(run.log[k].scenario) = {}
             PROVE  RunsItsOwn(k)
  BY DEF BareScenariosRunTheirSteps
<1> DEFINE n == run.log[k].scenario
           p == run.log[k].step
           c == CountIn(run.log, n, k)
           s == SumBefore[n]
           t == StepTotal(n)
           st == features[1].scenarios[n].start
           bg == Cardinality(BackgroundBefore(n))
<1>1. run \in BddRun /\ run.log \in Seq(RunEntry) /\ k \in 1..Len(run.log)
  BY RunTypes, LogTypes DEF BddRunInv
<1>2. run.state # "none" /\ LogFollowsTheRanges
  <2>1. ASSUME run.log = <<>> PROVE FALSE
    BY <1>1, <2>1
  <2> QED BY <2>1 DEF BddRunInv, RunIsFresh
<1>3. n \in 1..ScenarioCount /\ c \in 1..t /\ p = s + c
  BY <1>1, <1>2 DEF LogFollowsTheRanges
<1>4. /\ StepsOf(<<1, n>>) = st..(st + t - 1)
      /\ \A i \in StepsOf(<<1, n>>) : bddSteps[i].place = i - st + 1
  BY <1>3, ScenariosOfTheFirst DEF BddTablesInv, RangesAreScenarios, StepTotal
<1>5. st = 1 + s + bg /\ bg \in Nat /\ s \in Nat /\ t \in Nat /\ st \in Nat
  BY <1>3, RangeOfScenario, ScenariosOfTheFirst
<1>10. bg = 0
  BY FS_EmptySet
<1>6. c = Cardinality({j \in 1..k : run.log[j].scenario = n})
  BY DEF CountIn
<1> HIDE DEF p, c, s, t, st, bg
<1>7. p \in st..(st + t - 1) /\ p - st + 1 = c
  BY <1>3, <1>5, <1>10
<1>8. p \in StepsOf(<<1, n>>)
  BY <1>4, <1>7
<1>9. bddSteps[p].place = c
  BY <1>4, <1>7, <1>8
<1> QED BY <1>6, <1>8, <1>9 DEF p, RunsItsOwn

LEMMA FailuresStay ==
  ASSUME BddTablesInv, BddRunInv PROVE FailuresStayInTheirScenario
<1> DEFINE log == run.log
<1>1. log \in Seq(RunEntry) /\ DOMAIN log = 1..Len(log) /\ Len(log) \in Nat
      /\ run.scenario \in Nat
  BY RunTypes, LogTypes DEF BddRunInv
<1>2. FailedIn(log) = Cardinality({k \in DOMAIN log : ~log[k].passes})
  BY <1>1 DEF FailedIn
<1>3. \A n : FailsIn(log, n) <=> \E e \in Logged : e.scenario = n /\ ~e.passes
  BY <1>1 DEF FailsIn, Logged
<1>4. {n \in 1..(run.scenario - 1) : FailsIn(log, n)} =
        {n \in 1..(run.scenario - 1) : \E e \in Logged : e.scenario = n /\ ~e.passes}
  BY <1>3
<1>5. \A n : Cardinality({k \in DOMAIN log : log[k].scenario = n}) = CountIn(log, n, Len(log))
  BY <1>1 DEF CountIn
<1>6. CASE run.state = "none"
  <2>1. /\ run.scenario = 0 /\ log = <<>> /\ run.failedScenarios = 0
        /\ run.steps = 0 /\ run.failedSteps = 0
    BY <1>6 DEF BddRunInv, RunIsFresh
  <2>2. {n \in 1..(run.scenario - 1) : FailsIn(log, n)} = {}
    BY <2>1
  <2>3. FailedIn(log) = 0 /\ Len(log) = 0
    BY <2>1, EmptyLog
  <2> QED BY <1>2, <1>4, <1>6, <2>1, <2>2, <2>3, FS_EmptySet DEF FailuresStayInTheirScenario
<1>7. CASE run.state # "none"
  <2>1. RunIsInTheTables /\ LogFollowsTheRanges /\ FailuresAreCounted
    BY <1>7 DEF BddRunInv
  <2>2. ASSUME run.state = "done", bddParser.dropped = 0
        PROVE  /\ run.scenarios = ScenarioCount
               /\ \A n \in 1..ScenarioCount : CountIn(log, n, Len(log)) = StepTotal(n)
    <3>1. run.scenario = ScenarioCount + 1 /\ run.scenarios = run.scenario - 1
      BY <2>1, <2>2 DEF RunIsInTheTables
    <3>2. run.scenario - 1 = ScenarioCount
      BY <3>1, ScenariosOfTheFirst
    <3> QED BY <2>1, <2>2, <3>1, <3>2 DEF LogFollowsTheRanges
  <2> QED BY <1>2, <1>4, <1>5, <2>1, <2>2
          DEF FailuresAreCounted, FailuresStayInTheirScenario
<1> QED BY <1>6, <1>7

\* A scenario that no step of a Background comes before runs its own steps, each once and
\* in order, and a step that does not pass fails its own scenario and no other, while
\* those after it still run (bddgen.c:477-486, :530-558).
THEOREM RunnerRunsTheRanges == BddSpec => []RunnerFollowsTheRanges
<1>1. BddTablesInv /\ BddRunInv => RunnerFollowsTheRanges
  BY EntriesAreOfTheScenario, FailuresStay DEF RunnerFollowsTheRanges
<1> QED BY <1>1, BddTablesAlways, BddRunAlways, PTL

\* The two invariants give every variable its type.
LEMMA BddTypesHold ==
  ASSUME BddTablesInv, BddRunInv PROVE BddTypeOK
<1>1. /\ features \in Seq(BddFeature) /\ DOMAIN features = 1..Len(features)
      /\ Len(features) <= MaxFeatures /\ Len(bddSteps) <= MaxSteps
      /\ \A f \in 1..Len(features) : Len(features[f].scenarios) <= MaxScenarios
  BY FeatureTypes DEF BddTablesInv, BddTablesTyped
<1>2. /\ DOMAIN bddSteps = 1..Len(bddSteps)
      /\ \A i \in 1..Len(bddSteps) : /\ bddSteps[i].keyword \in Keywords \cup Conjunctions
                                     /\ bddSteps[i].resolved \in Keywords
      /\ bddParser.last \in Keywords
  BY BddStepTypes, ParserTypes DEF BddTablesInv
<1>3. run.state \in {"none", "running", "done"} /\ DOMAIN run.log = 1..Len(run.log)
  BY RunTypes, LogTypes DEF BddRunInv
<1>4. \A e \in Logged : e.scenario \in 1..ScenarioCount /\ e.step \in DOMAIN bddSteps
  <2>1. CASE run.state = "none"
    <3>1. Logged = {}
      BY <2>1 DEF BddRunInv, RunIsFresh, Logged
    <3> QED BY <3>1
  <2>2. CASE run.state # "none"
    BY <1>2, <1>3, <2>2 DEF BddRunInv, LogFollowsTheRanges, Logged
  <2> QED BY <2>1, <2>2
<1> QED BY <1>1, <1>2, <1>3, <1>4 DEF BddTypeOK

\* The tables stay within their limits, and the runner within the tables
\* (bddgen.c:156, :242, :277, :533).
THEOREM BddTypeCorrect == BddSpec => []BddTypeOK
<1>1. BddTablesInv /\ BddRunInv => BddTypeOK
  BY BddTypesHold
<1> QED BY <1>1, BddTablesAlways, BddRunAlways, PTL

(***************************************************************************)
(* SchemaVersions.  A row, a document and an object each keep the shape of *)
(* the version that wrote them, and every version reads the shapes it      *)
(* shares.                                                                 *)
(***************************************************************************)

\* A row is of a version whose fields the table has, and its object is of that version.
Fits(row) ==
  /\ row.by \in Versions /\ row.obj \in Objects[row.by]
  /\ FieldsOf(row.by) \subseteq ToSet(columns)
  /\ row.cells = CellsOf(row.by, row.obj)

StoredRows ==
  [by : Versions, obj : UNION {Objects[v] : v \in Versions},
   cells : UNION {[FieldsOf(v) -> {Null} \cup UNION {ValuesOf(f) : f \in FieldNames}]
                    : v \in Versions}]

RowsFit ==
  /\ columns = NoTable \/ \E v \in Versions : columns = Schema[v]
  /\ rows \in Seq(StoredRows)
  /\ \A r \in 1..Len(rows) : Fits(rows[r])

DocumentIs ==
  json = NoDocument \/
    /\ json.by \in Versions /\ json.obj \in Objects[json.by]
    /\ json.members = [f \in {g \in FieldsOf(json.by) : Bound(g)} |-> json.obj[f]]

\* What was loaded came from a row that is there.
LoadedIs ==
  /\ loaded.row \in 0..Len(rows)
  /\ loaded.from \in {"sql", "crash"} => loaded.row # 0

StoreInv == RowsFit /\ DocumentIs /\ LoadedIs /\ VersionsReadEachOther

LEMMA SchemasHaveFields ==
  ASSUME NEW v \in Versions
  PROVE  /\ Schema[v] \in Seq(FieldNames) /\ Schema[v] # <<>>
         /\ DOMAIN Schema[v] = 1..Len(Schema[v]) /\ Len(Schema[v]) \in Nat
         /\ FieldsOf(v) # {} /\ FieldsOf(v) \subseteq FieldNames
<1>1. Schema[v] \in Seq(FieldNames) /\ Schema[v] # <<>>
  BY SchemaAssumption
<1> DEFINE s == Schema[v]
<1> HIDE DEF s
<1>2. /\ DOMAIN s = 1..Len(s) /\ Len(s) \in Nat /\ 1 \in DOMAIN s
      /\ \A i \in DOMAIN s : s[i] \in FieldNames
  BY <1>1 DEF s
<1>3. FieldsOf(v) = {s[i] : i \in DOMAIN s}
  BY DEF FieldsOf, ToSet, s
<1> QED BY <1>1, <1>2, <1>3 DEF s

\* The place of a field in its schema.
LEMMA PlaceOfField ==
  ASSUME NEW v \in Versions, NEW f \in FieldsOf(v)
  PROVE  /\ PositionOf(v, f) \in 1..Len(Schema[v])
         /\ Schema[v][PositionOf(v, f)] = f
<1>1. \E j \in DOMAIN Schema[v] : Schema[v][j] = f
  BY DEF FieldsOf, ToSet
<1>2. /\ PositionOf(v, f) \in DOMAIN Schema[v]
      /\ Schema[v][PositionOf(v, f)] = f
  BY <1>1 DEF PositionOf
<1> QED BY <1>2, SchemasHaveFields

\* What a cell of a field may be, and what it is converted to.
LEMMA ValueOfField ==
  ASSUME NEW v \in Versions, NEW obj \in Objects[v], NEW f \in FieldsOf(v), Bound(f)
  PROVE  /\ obj[f] # Null
         /\ Converted(obj[f], FieldType[f]) = obj[f]
         /\ FieldType[f] = "signed" => \E n \in Nat : obj[f] = <<"int", n>>
<1>1. f \in FieldNames /\ obj[f] \in ValuesOf(f)
  BY SchemasHaveFields DEF Objects
<1>2. FieldType[f] \in {"signed", "unsigned", "text"}
  BY <1>1, SchemaAssumption DEF Bound
<1>3. CASE FieldType[f] = "text"
  <2>1. PICK t \in Texts : obj[f] = <<"text", t>>
    BY <1>1, <1>3 DEF ValuesOf, TextOf
  <2> QED BY <1>3, <2>1 DEF Converted, Null
<1>4. CASE FieldType[f] = "signed"
  <2>1. PICK n \in Signed : obj[f] = <<"int", n>>
    BY <1>1, <1>4 DEF ValuesOf, IntOf
  <2>2. n \in Nat
    BY SchemaAssumption
  <2> QED BY <1>4, <2>1, <2>2 DEF Converted, Null
<1>5. CASE FieldType[f] = "unsigned"
  <2>1. obj[f] = <<"int", 1>>
    BY <1>1, <1>5 DEF ValuesOf, IntOf
  <2> QED BY <1>5, <2>1 DEF Converted, Null
<1> QED BY <1>2, <1>3, <1>4, <1>5

LEMMA StoreInit == SchemaInit => StoreInv
<1> SUFFICES ASSUME SchemaInit PROVE StoreInv
  OBVIOUS
<1>1. /\ loaded.row = 0 /\ loaded.from = "nothing"
  BY DEF SchemaInit, NothingLoaded
<1>2. VersionsReadEachOther
  BY <1>1 DEF VersionsReadEachOther, SelectReadsInitialParts, CrashNeedsAnotherVersion,
              OldestRowIsRead, JsonGoesByName
<1>3. columns = NoTable /\ rows = <<>> /\ json = NoDocument
  BY DEF SchemaInit
<1> QED BY <1>1, <1>2, <1>3 DEF StoreInv, RowsFit, DocumentIs, LoadedIs

LEMMA RowsTyped ==
  ASSUME StoreInv
  PROVE  /\ DOMAIN rows = 1..Len(rows) /\ Len(rows) \in Nat
         /\ \A r \in 1..Len(rows) : Fits(rows[r])
         /\ columns \in Seq(FieldNames)
         /\ DOMAIN columns = 1..Len(columns) /\ Len(columns) \in Nat
<1>1. columns \in Seq(FieldNames)
  <2>1. CASE columns = NoTable
    BY <2>1 DEF NoTable
  <2>2. CASE \E w \in Versions : columns = Schema[w]
    BY <2>2, SchemasHaveFields
  <2> QED BY <2>1, <2>2 DEF StoreInv, RowsFit
<1> QED BY <1>1 DEF StoreInv, RowsFit

LEMMA RowsStay == RowsFit /\ UNCHANGED <<columns, rows>> => RowsFit'
BY DEF RowsFit, Fits, CellsOf

\* What was loaded stays what it was while rows are added.
LEMMA LoadedStays ==
  ASSUME StoreInv, loaded' = loaded,
         Len(rows') \in Nat, Len(rows) <= Len(rows'), DOMAIN rows' = 1..Len(rows'),
         \A r \in 1..Len(rows) : rows'[r] = rows[r],
         loaded.row # 0 => columns' = columns
  PROVE  VersionsReadEachOther' /\ LoadedIs'
<1>0. /\ VersionsReadEachOther /\ loaded.row \in 0..Len(rows) /\ Len(rows) \in Nat
      /\ DOMAIN rows = 1..Len(rows)
      /\ (loaded.from \in {"sql", "crash"} => loaded.row # 0)
  BY RowsTyped DEF StoreInv, LoadedIs
<1>1. loaded.row # 0 => rows'[loaded.row] = rows[loaded.row] /\ loaded.row \in 1..Len(rows)
  BY <1>0
<1>2. SelectReadsInitialParts'
  BY <1>0, <1>1 DEF VersionsReadEachOther, SelectReadsInitialParts
<1>3. CrashNeedsAnotherVersion'
  BY <1>0, <1>1 DEF VersionsReadEachOther, CrashNeedsAnotherVersion
<1>4. OldestRowIsRead'
  <2> SUFFICES ASSUME loaded.row # 0, NEW r \in 1..Len(rows'), r < loaded.row,
                      Id \in FieldsOf(rows'[r].by)
               PROVE  rows'[r].obj[Id] # rows'[loaded.row].obj[Id]
    BY DEF OldestRowIsRead
  <2>1. r \in 1..Len(rows) /\ rows'[r] = rows[r]
    BY <1>0
  <2> QED BY <1>0, <1>1, <2>1 DEF VersionsReadEachOther, OldestRowIsRead
<1>5. JsonGoesByName'
  BY <1>0 DEF VersionsReadEachOther, JsonGoesByName
<1>6. LoadedIs'
  BY <1>0 DEF LoadedIs
<1> QED BY <1>2, <1>3, <1>4, <1>5, <1>6 DEF VersionsReadEachOther

LEMMA CreateTableStep ==
  ASSUME StoreInv, NEW v \in Versions, CreateTable(v)
  PROVE  StoreInv'
<1>1. /\ rows' = rows /\ json' = json /\ loaded' = loaded
      /\ columns' = IF columns = NoTable THEN Schema[v] ELSE columns
  BY DEF CreateTable
<1>2. /\ DOMAIN rows = 1..Len(rows) /\ Len(rows) \in Nat
      /\ \A r \in 1..Len(rows) : Fits(rows[r])
      /\ loaded.row \in 0..Len(rows) /\ rows \in Seq(StoredRows)
      /\ columns = NoTable \/ \E w \in Versions : columns = Schema[w]
  BY RowsTyped DEF StoreInv, RowsFit, LoadedIs
<1>3. columns = NoTable => Len(rows) = 0
  <2> SUFFICES ASSUME columns = NoTable, Len(rows) # 0 PROVE FALSE
    OBVIOUS
  <2>1. Fits(rows[1])
    BY <1>2
  <2>2. ToSet(columns) = {}
    BY DEF NoTable, ToSet
  <2>3. FieldsOf(rows[1].by) # {}
    BY <2>1, SchemasHaveFields DEF Fits
  <2> QED BY <2>1, <2>2, <2>3 DEF Fits
<1>4. loaded.row # 0 => columns' = columns
  BY <1>1, <1>2, <1>3
<1>5. VersionsReadEachOther' /\ LoadedIs'
  BY <1>1, <1>2, <1>4, LoadedStays
<1>6. \A r \in 1..Len(rows') : Fits(rows[r])'
  <2> SUFFICES ASSUME NEW r \in 1..Len(rows) PROVE Fits(rows[r])'
    BY <1>1
  <2>1. columns' = columns /\ Fits(rows[r])
    BY <1>1, <1>2, <1>3
  <2> QED BY <1>1, <2>1 DEF Fits, CellsOf
<1>7. columns' = NoTable \/ \E w \in Versions : columns' = Schema[w]
  BY <1>1, <1>2
<1>8. RowsFit'
  BY <1>1, <1>2, <1>6, <1>7 DEF RowsFit
<1> QED BY <1>1, <1>5, <1>8 DEF StoreInv, DocumentIs

LEMMA InsertStep ==
  ASSUME StoreInv, NEW v \in Versions, NEW obj \in Objects[v], Insert(v, obj)
  PROVE  StoreInv'
<1> DEFINE n == Len(rows)
           row == [by |-> v, obj |-> obj, cells |-> CellsOf(v, obj)]
<1>1. /\ columns' = columns /\ json' = json /\ loaded' = loaded
      /\ \/ rows' = rows
         \/ FieldsOf(v) \subseteq ToSet(columns) /\ rows' = Append(rows, row)
  BY DEF Insert
<1>2. /\ DOMAIN rows = 1..n /\ n \in Nat
      /\ \A r \in 1..n : Fits(rows[r])
  BY RowsTyped
<1>3. CASE rows' = rows
  <2>1. VersionsReadEachOther' /\ LoadedIs'
    BY <1>1, <1>2, <1>3, LoadedStays
  <2>2. RowsFit'
    BY <1>1, <1>3, RowsStay DEF StoreInv
  <2> QED BY <1>1, <2>1, <2>2 DEF StoreInv, DocumentIs
<1>4. CASE FieldsOf(v) \subseteq ToSet(columns) /\ rows' = Append(rows, row)
  <2>1. row.by = v /\ row.obj = obj /\ row.cells = CellsOf(v, obj)
    OBVIOUS
  <2>2. row \in StoredRows
    <3>1. ToSet(columns) # {}
      BY <1>4, SchemasHaveFields
    <3>2. columns # NoTable
      BY <3>1 DEF NoTable, ToSet
    <3>3. PICK w \in Versions : columns = Schema[w]
      BY <3>2 DEF StoreInv, RowsFit
    <3> DEFINE values == {Null} \cup UNION {ValuesOf(f) : f \in FieldNames}
               cells == CellsOf(v, obj)
    <3>4. cells \in [FieldsOf(w) -> values]
      <4>1. ASSUME NEW c \in FieldsOf(v) PROVE obj[c] \in values
        BY SchemasHaveFields DEF Objects
      <4> HIDE DEF values
      <4>2. Null \in values
        BY DEF values
      <4>3. cells = [c \in FieldsOf(w) |-> IF c \in FieldsOf(v) /\ Bound(c) THEN obj[c] ELSE Null]
        BY <3>3 DEF CellsOf, FieldsOf
      <4> HIDE DEF cells
      <4> QED BY <4>1, <4>2, <4>3
    <3> HIDE DEF values, cells
    <3>5. /\ obj \in UNION {Objects[u] : u \in Versions}
          /\ cells \in UNION {[FieldsOf(u) -> values] : u \in Versions}
      BY <3>4
    <3>6. row = [by |-> v, obj |-> obj, cells |-> cells]
      BY DEF cells
    <3> QED BY <3>5, <3>6 DEF StoredRows, values
  <2> HIDE DEF row
  <2>3. /\ Len(rows') = n + 1 /\ DOMAIN rows' = 1..(n + 1) /\ rows'[n + 1] = row
        /\ \A r \in 1..n : rows'[r] = rows[r]
        /\ rows' \in Seq(StoredRows)
    BY <1>4, <2>2, Appended DEF StoreInv, RowsFit
  <2>4. VersionsReadEachOther' /\ LoadedIs'
    BY <1>1, <1>2, <2>3, LoadedStays
  <2>5. ASSUME NEW r \in 1..(n + 1) PROVE Fits(rows'[r])
    <3>1. CASE r = n + 1
      BY <1>4, <2>1, <2>3, <3>1 DEF Fits
    <3>2. CASE r # n + 1
      BY <1>2, <2>3, <3>2
    <3> QED BY <3>1, <3>2
  <2>6. \A r \in 1..Len(rows') : Fits(rows[r])'
    BY <1>1, <1>2, <2>3, <2>5 DEF Fits, CellsOf
  <2>7. RowsFit'
    BY <1>1, <2>3, <2>6 DEF StoreInv, RowsFit
  <2> QED BY <1>1, <2>4, <2>7 DEF StoreInv, DocumentIs
<1> QED BY <1>1, <1>3, <1>4

LEMMA ToJsonStep ==
  ASSUME StoreInv, NEW v \in Versions, NEW obj \in Objects[v], ToJson(v, obj)
  PROVE  StoreInv'
<1>1. /\ columns' = columns /\ rows' = rows /\ loaded' = loaded
      /\ json'.by = v /\ json'.obj = obj
      /\ json'.members = [f \in {g \in FieldsOf(v) : Bound(g)} |-> obj[f]]
  BY DEF ToJson
<1>2. VersionsReadEachOther' /\ LoadedIs'
  BY <1>1, LoadedStays, RowsTyped
<1>3. RowsFit'
  BY <1>1, RowsStay DEF StoreInv
<1> QED BY <1>1, <1>2, <1>3 DEF StoreInv, DocumentIs

\* The row a select finds: it has the id, and no row before it has.
LEMMA FoundRow ==
  ASSUME StoreInv, NEW id, FirstRow(id) # 0
  PROVE  /\ FirstRow(id) \in 1..Len(rows)
         /\ rows[FirstRow(id)].cells[Id] = id
         /\ \A r \in 1..Len(rows) : r < FirstRow(id) => rows[r].cells[Id] # id
<1> DEFINE found == {r \in DOMAIN rows : rows[r].cells[Id] = id}
<1>1. DOMAIN rows = 1..Len(rows) /\ Len(rows) \in Nat
  BY RowsTyped
<1>2. found # {} /\ FirstRow(id) = CHOOSE r \in found : \A s \in found : r <= s
  BY DEF FirstRow
<1>3. found \in SUBSET Nat
  BY <1>1
<1> HIDE DEF found
<1>4. \E r \in found : \A s \in found : r <= s
  BY <1>2, <1>3, Least
<1>5. FirstRow(id) \in found /\ \A s \in found : FirstRow(id) <= s
  BY <1>2, <1>4
<1>6. FirstRow(id) \in 1..Len(rows)
  BY <1>1, <1>5 DEF found
<1>7. ASSUME NEW r \in 1..Len(rows), r < FirstRow(id) PROVE rows[r].cells[Id] # id
  <2>1. r \notin found
    BY <1>5, <1>6, <1>7, <1>1
  <2> QED BY <1>1, <2>1 DEF found
<1> QED BY <1>5, <1>6, <1>7 DEF found

\* The cell of a column.
LEMMA CellOfColumn ==
  ASSUME NEW row, Fits(row), NEW f \in ToSet(columns)
  PROVE  row.cells[f] = IF f \in FieldsOf(row.by) /\ Bound(f) THEN row.obj[f] ELSE Null
BY DEF Fits, CellsOf

\* Where the reader's fields are the first of the table's, the cell at a field's place is
\* the field's.
LEMMA CellInPlace ==
  ASSUME StoreInv, NEW row, Fits(row), NEW v \in Versions, IsPrefix(Schema[v], columns),
         NEW f \in FieldsOf(v)
  PROVE  Cell(row, PositionOf(v, f)) =
           IF f \in FieldsOf(row.by) /\ Bound(f) THEN row.obj[f] ELSE Null
<1> DEFINE j == PositionOf(v, f)
<1>1. j \in 1..Len(Schema[v]) /\ Schema[v][j] = f /\ Len(Schema[v]) \in Nat
  BY PlaceOfField, SchemasHaveFields
<1>2. /\ Len(columns) \in Nat /\ DOMAIN columns = 1..Len(columns)
      /\ columns \in Seq(FieldNames)
  BY RowsTyped
<1>3. j \in 1..Len(columns) /\ columns[j] = f
  <2>1. /\ Len(Schema[v]) <= Len(columns)
        /\ SubSeq(Schema[v], 1, Len(Schema[v])) = SubSeq(columns, 1, Len(Schema[v]))
    BY DEF IsPrefix
  <2> DEFINE s == Schema[v]
             n == Len(s)
  <2>2. s \in Seq(FieldNames) /\ columns \in Seq(FieldNames)
    BY <1>2, SchemasHaveFields
  <2>3. SubSeq(s, 1, n)[j] = s[j]
    BY <1>1, <2>2
  <2>4. SubSeq(columns, 1, n)[j] = columns[j]
    BY <1>1, <1>2, <2>1, <2>2
  <2> QED BY <1>1, <1>2, <2>1, <2>3, <2>4
<1>4. f \in ToSet(columns)
  BY <1>2, <1>3 DEF ToSet
<1>5. Cell(row, j) = row.cells[f]
  BY <1>1, <1>2, <1>3 DEF Cell
<1> QED BY <1>4, <1>5, CellOfColumn

LEMMA SelectStep ==
  ASSUME StoreInv, NEW v \in Versions, NEW into, SelectById(v, IntOf(1), into)
  PROVE  StoreInv'
<1> DEFINE id == IntOf(1)
           k == FirstRow(id)
           row == rows[k]
<1>1. columns' = columns /\ rows' = rows /\ json' = json
  BY DEF SelectById
<1>2. /\ DOMAIN rows = 1..Len(rows) /\ Len(rows) \in Nat
      /\ \A r \in 1..Len(rows) : Fits(rows[r])
      /\ RowsFit' /\ DocumentIs'
  BY <1>1, RowsTyped, RowsStay DEF StoreInv, DocumentIs
<1>3. id # Null
  BY DEF IntOf, Null
<1>4. CASE Id \notin ToSet(columns) \/ FirstRow(id) = 0
  <2>1. loaded'.from = "failed" /\ loaded'.row = 0
    BY <1>4 DEF SelectById
  <2>2. VersionsReadEachOther'
    BY <2>1 DEF VersionsReadEachOther, SelectReadsInitialParts, CrashNeedsAnotherVersion,
                OldestRowIsRead, JsonGoesByName
  <2> QED BY <1>1, <1>2, <2>1, <2>2 DEF StoreInv, LoadedIs
<1>5. CASE ~(Id \notin ToSet(columns) \/ FirstRow(id) = 0)
  <2>1. /\ k \in 1..Len(rows) /\ row.cells[Id] = id
        /\ \A r \in 1..Len(rows) : r < k => rows[r].cells[Id] # id
    BY <1>5, FoundRow
  <2>2. Fits(row)
    BY <1>2, <2>1
  <2>3. /\ loaded'.by = v /\ loaded'.row = k /\ loaded'.into = into
        /\ \/ ReadsNullText(v, row) /\ loaded'.from = "crash"
           \/ ~ReadsNullText(v, row) /\ loaded'.from = "sql" /\ loaded'.obj = Read(v, row, into)
    BY <1>5 DEF SelectById
  <2> HIDE DEF k, id
  <2>4. OldestRowIsRead'
    <3> SUFFICES ASSUME NEW r \in 1..Len(rows), r < k, Id \in FieldsOf(rows[r].by)
                 PROVE  rows[r].obj[Id] # row.obj[Id]
      BY <1>1, <1>2, <2>3 DEF OldestRowIsRead
    <3>1. Fits(rows[r])
      BY <1>2
    <3>2. Bound(Id)
      BY SchemaAssumption DEF Bound
    <3>3. rows[r].cells[Id] = rows[r].obj[Id]
      BY <1>5, <3>1, <3>2, CellOfColumn
    <3>4. row.obj[Id] = id
      BY <1>3, <1>5, <2>1, <2>2, CellOfColumn
    <3> QED BY <2>1, <3>3, <3>4
  <2>5. SelectReadsInitialParts'
    <3> SUFFICES ASSUME loaded'.from = "sql", IsPrefix(Schema[v], columns), NEW f \in FieldsOf(v)
                 PROVE  loaded'.obj[f] = IF ~Bound(f) THEN into[f]
                                         ELSE IF f \in FieldsOf(row.by) THEN row.obj[f]
                                         ELSE IntOf(0)
      BY <1>1, <2>3 DEF SelectReadsInitialParts
    <3>1. ~ReadsNullText(v, row) /\ loaded'.obj = Read(v, row, into)
      BY <2>3
    <3> DEFINE cell == Cell(row, PositionOf(v, f))
    <3>2. loaded'.obj[f] = IF Bound(f) THEN Converted(cell, FieldType[f]) ELSE into[f]
      BY <3>1 DEF Read
    <3>3. cell = IF f \in FieldsOf(row.by) /\ Bound(f) THEN row.obj[f] ELSE Null
      BY <2>2, CellInPlace
    <3>4. FieldType[f] = "text" => cell # Null
      BY <3>1 DEF ReadsNullText
    <3> HIDE DEF cell, row
    <3>5. CASE Bound(f) /\ f \in FieldsOf(row.by)
      <4>1. Converted(row.obj[f], FieldType[f]) = row.obj[f]
        BY <2>2, <3>5, ValueOfField DEF Fits
      <4> QED BY <3>2, <3>3, <3>5, <4>1
    <3>6. CASE Bound(f) /\ f \notin FieldsOf(row.by)
      <4>1. cell = Null /\ FieldType[f] # "text"
        BY <3>3, <3>4, <3>6
      <4>2. Converted(Null, FieldType[f]) = IntOf(0)
        BY <4>1 DEF Converted, Null
      <4> QED BY <3>2, <3>6, <4>1, <4>2
    <3>7. CASE ~Bound(f)
      BY <3>2, <3>7
    <3> QED BY <3>5, <3>6, <3>7
  <2>6. CrashNeedsAnotherVersion'
    <3> SUFFICES ASSUME loaded'.from = "crash", Schema[v] = columns, Schema[row.by] = columns
                 PROVE  FALSE
      BY <1>1, <2>3 DEF CrashNeedsAnotherVersion
    <3>1. PICK f \in FieldsOf(v) : /\ FieldType[f] = "text"
                                   /\ Cell(row, PositionOf(v, f)) = Null
      BY <2>3 DEF ReadsNullText
    <3>2. IsPrefix(Schema[v], columns)
      BY SchemasHaveFields DEF IsPrefix
    <3>3. f \in FieldsOf(row.by) /\ Bound(f)
      BY <3>1 DEF FieldsOf, Bound
    <3>4. row.obj[f] = Null
      BY <2>2, <3>1, <3>2, <3>3, CellInPlace
    <3> HIDE DEF row
    <3> QED BY <2>2, <3>3, <3>4, ValueOfField DEF Fits
  <2>7. JsonGoesByName'
    BY <2>3 DEF JsonGoesByName
  <2> QED BY <1>1, <1>2, <2>1, <2>3, <2>4, <2>5, <2>6, <2>7
          DEF StoreInv, LoadedIs, VersionsReadEachOther
<1> QED BY <1>4, <1>5

LEMMA FromJsonStep ==
  ASSUME StoreInv, NEW v \in Versions, NEW into, FromJson(v, into)
  PROVE  StoreInv'
<1>1. columns' = columns /\ rows' = rows /\ json' = json /\ json # NoDocument
  BY DEF FromJson
<1>2. /\ loaded'.from = "json" /\ loaded'.by = v /\ loaded'.row = 0 /\ loaded'.into = into
      /\ loaded'.sent = json
      /\ loaded'.obj = [f \in FieldsOf(v) |-> IF f \in DOMAIN json.members
                                              THEN Narrowed(f, json.members[f])
                                              ELSE into[f]]
  BY DEF FromJson
<1>3. /\ json.by \in Versions /\ json.obj \in Objects[json.by]
      /\ json.members = [f \in {g \in FieldsOf(json.by) : Bound(g)} |-> json.obj[f]]
  BY <1>1 DEF StoreInv, DocumentIs
<1>4. JsonGoesByName'
  <2> SUFFICES ASSUME NEW f \in FieldsOf(v)
               PROVE  \/ /\ f \in FieldsOf(json.by) /\ Bound(f)
                         /\ \/ loaded'.obj[f] = json.obj[f]
                            \/ json.obj[f][2] >= IntValues
                      \/ /\ f \notin FieldsOf(json.by) \/ ~Bound(f)
                         /\ loaded'.obj[f] = into[f]
    BY <1>2 DEF JsonGoesByName
  <2>1. CASE f \in FieldsOf(json.by) /\ Bound(f)
    <3>1. loaded'.obj[f] = Narrowed(f, json.obj[f])
      BY <1>2, <1>3, <2>1
    <3>2. CASE FieldType[f] # "signed"
      BY <2>1, <3>1, <3>2 DEF Narrowed
    <3>3. CASE FieldType[f] = "signed"
      <4>1. PICK n \in Nat : json.obj[f] = <<"int", n>>
        BY <1>3, <2>1, <3>3, ValueOfField
      <4>2. loaded'.obj[f] = <<"int", n % IntValues>> /\ json.obj[f][2] = n
        BY <3>1, <3>3, <4>1 DEF Narrowed, IntOf
      <4>3. IntValues \in Nat \ {0}
        BY SchemaAssumption
      <4>4. n < IntValues => n % IntValues = n
        BY <4>3
      <4> QED BY <2>1, <4>1, <4>2, <4>3, <4>4
    <3> QED BY <3>2, <3>3
  <2>2. CASE ~(f \in FieldsOf(json.by) /\ Bound(f))
    <3>1. f \notin DOMAIN json.members
      BY <1>3, <2>2
    <3> QED BY <1>2, <2>2, <3>1
  <2> QED BY <2>1, <2>2
<1>5. VersionsReadEachOther'
  BY <1>2, <1>4 DEF VersionsReadEachOther, SelectReadsInitialParts, CrashNeedsAnotherVersion,
                    OldestRowIsRead
<1>6. RowsFit' /\ LoadedIs'
  BY <1>1, <1>2, RowsStay, RowsTyped DEF StoreInv, LoadedIs
<1> QED BY <1>1, <1>5, <1>6 DEF StoreInv, DocumentIs

LEMMA StoreStep == StoreInv /\ [SchemaNext]_schemaVars => StoreInv'
<1> SUFFICES ASSUME StoreInv, [SchemaNext]_schemaVars PROVE StoreInv'
  OBVIOUS
<1>1. CASE UNCHANGED schemaVars
  <2>1. columns' = columns /\ rows' = rows /\ json' = json /\ loaded' = loaded
    BY <1>1 DEF schemaVars
  <2>2. VersionsReadEachOther' /\ LoadedIs'
    BY <2>1, LoadedStays, RowsTyped
  <2> QED BY <2>1, <2>2, RowsStay DEF StoreInv, DocumentIs
<1>2. CASE SchemaNext
  <2> PICK v \in Versions :
        \/ CreateTable(v)
        \/ \E obj \in Objects[v] : Insert(v, obj) \/ ToJson(v, obj)
        \/ \E into \in Objects[v] \cup {Zeroed(v)} :
             SelectById(v, IntOf(1), into) \/ FromJson(v, into)
    BY <1>2 DEF SchemaNext
  <2> QED BY CreateTableStep, InsertStep, ToJsonStep, SelectStep, FromJsonStep
<1> QED BY <1>1, <1>2

\* VersionsReadEachOther of every pair of schemas, of any number of versions: what
\* schemagen.c:451-630 makes of them.
THEOREM VersionsUnderstand == SchemaSpec => []VersionsReadEachOther
<1>1. StoreInv => VersionsReadEachOther
  BY DEF StoreInv
<1> QED BY <1>1, StoreInit, StoreStep, PTL DEF SchemaSpec

\* What the last load left in an object has the reader's fields.
ReaderHasItsFields ==
  /\ loaded.from \in {"nothing", "failed", "crash", "sql", "json"}
  /\ loaded.from # "nothing" => DOMAIN loaded.obj = FieldsOf(loaded.by)

LEMMA ReaderStep == ReaderHasItsFields /\ [SchemaNext]_schemaVars => ReaderHasItsFields'
<1> SUFFICES ASSUME ReaderHasItsFields, [SchemaNext]_schemaVars PROVE ReaderHasItsFields'
  OBVIOUS
<1>1. CASE loaded' = loaded
  BY <1>1 DEF ReaderHasItsFields
<1>2. ASSUME NEW v \in Versions, NEW into \in Objects[v] \cup {Zeroed(v)},
             SelectById(v, IntOf(1), into) \/ FromJson(v, into)
      PROVE  ReaderHasItsFields'
  <2>1. DOMAIN into = FieldsOf(v)
    BY <1>2 DEF Objects, Zeroed
  <2>2. \A row : DOMAIN Read(v, row, into) = FieldsOf(v)
    BY DEF Read
  <2>3. CASE SelectById(v, IntOf(1), into)
    BY <2>1, <2>2, <2>3 DEF SelectById, ReaderHasItsFields
  <2>4. CASE FromJson(v, into)
    BY <2>4 DEF FromJson, ReaderHasItsFields
  <2> QED BY <1>2, <2>3, <2>4
<1>3. CASE UNCHANGED schemaVars
  BY <1>1, <1>3 DEF schemaVars
<1>4. CASE SchemaNext
  <2> PICK v \in Versions :
        \/ CreateTable(v)
        \/ \E obj \in Objects[v] : Insert(v, obj) \/ ToJson(v, obj)
        \/ \E into \in Objects[v] \cup {Zeroed(v)} :
             SelectById(v, IntOf(1), into) \/ FromJson(v, into)
    BY <1>4 DEF SchemaNext
  <2> QED BY <1>1, <1>2 DEF CreateTable, Insert, ToJson
<1> QED BY <1>3, <1>4

\* The table is one of the schemas, a row has the table's columns, and an object that was
\* loaded into has the fields of its version (schemagen.c:554-630).
THEOREM StoreTypeSafe == SchemaSpec => []StoreTypeOK
<1>1. SchemaInit => ReaderHasItsFields
  BY DEF SchemaInit, NothingLoaded, ReaderHasItsFields
<1>2. StoreInv /\ ReaderHasItsFields => StoreTypeOK
  <2> SUFFICES ASSUME StoreInv, ReaderHasItsFields PROVE StoreTypeOK
    OBVIOUS
  <2>1. \A r \in DOMAIN rows : DOMAIN rows[r].cells = ToSet(columns)
    BY RowsTyped DEF Fits, CellsOf
  <2> QED BY <2>1 DEF StoreInv, RowsFit, ReaderHasItsFields, StoreTypeOK
<1> QED BY <1>1, <1>2, StoreInit, StoreStep, ReaderStep, PTL DEF SchemaSpec

(***************************************************************************)
(* Lexer.  What lexer_next has returned covers the text up to the lexer's  *)
(* position, and its line and column are those of that position.           *)
(***************************************************************************)

\* The end of a run: as far as the characters are of the set.
LEMMA RunEnds ==
  ASSUME NEW src, Len(src) \in Nat, NEW p \in 1..(Len(src) + 1), NEW S
  PROVE  /\ RunEnd(src, p, S) \in p..(Len(src) + 1)
         /\ \A i \in p..(RunEnd(src, p, S) - 1) : src[i] \in S
         /\ RunEnd(src, p, S) <= Len(src) => src[RunEnd(src, p, S)] \notin S
<1> DEFINE n == Len(src)
           ends == {e \in p..(n + 1) : e <= n => src[e] \notin S}
<1>1. ends \in SUBSET Nat /\ n + 1 \in ends
  OBVIOUS
<1>2. PICK e \in ends : \A d \in ends : e <= d
  <2> HIDE DEF ends
  <2> QED BY <1>1, Least
<1>3. \A i \in p..(e - 1) : src[i] \in S
  <2> TAKE i \in p..(e - 1)
  <2>1. i \notin ends /\ i \in p..(n + 1) /\ i <= n
    BY <1>2
  <2> QED BY <2>1
<1>4. e \in p..(n + 1) /\ (e <= n => src[e] \notin S)
  OBVIOUS
<1> HIDE DEF ends
<1>5. \E d \in p..(n + 1) : (\A i \in p..(d - 1) : src[i] \in S) /\ (d <= n => src[d] \notin S)
  BY <1>3, <1>4
<1> QED BY <1>5 DEF RunEnd

\* Where position pos of a text is: its line, and its column in it.
PlaceIs(src, pos, line, column) ==
  LET breaks == NewLines(src, 1, pos - 1)
  IN  /\ line = Cardinality(breaks) + 1
      /\ \/ breaks = {} /\ column = pos
         \/ \E b \in breaks : /\ \A q \in breaks : q <= b
                              /\ column = pos - b

LEMMA NewLinesFinite ==
  ASSUME NEW src, NEW a \in Nat, NEW b \in Int
  PROVE  /\ IsFiniteSet(NewLines(src, a, b))
         /\ Cardinality(NewLines(src, a, b)) \in Nat
         /\ NewLines(src, a, b) \subseteq a..b
<1>1. NewLines(src, a, b) \in SUBSET (a..b)
  BY DEF NewLines
<1> HIDE DEF NewLines
<1>2. IsFiniteSet(a..b)
  BY FS_Interval
<1>3. IsFiniteSet(NewLines(src, a, b))
  BY <1>1, <1>2, FS_Subset
<1> QED BY <1>1, <1>3, FS_CardinalityType

LEMMA PlaceTyped ==
  ASSUME NEW src, NEW pos \in Nat \ {0}, NEW line, NEW column, PlaceIs(src, pos, line, column)
  PROVE  line \in Nat /\ column \in Nat
<1> DEFINE breaks == NewLines(src, 1, pos - 1)
<1>1. Cardinality(breaks) \in Nat /\ breaks \subseteq 1..(pos - 1)
  BY NewLinesFinite
<1> QED BY <1>1 DEF PlaceIs

\* Blanks have been passed over.
LEMMA PlaceAfterBlanks ==
  ASSUME NEW c \in Nat \ {0}, NEW e \in Nat, c <= e,
         PlaceIs(lexer.source, c, lexer.line, lexer.column)
  PROVE  PlaceIs(lexer.source, e, LineAfter(c, e), ColumnAfter(c, e))
<1> DEFINE src == lexer.source
           before == NewLines(src, 1, c - 1)
           new == NewLines(src, c, e - 1)
           all == NewLines(src, 1, e - 1)
<1>1. /\ IsFiniteSet(before) /\ IsFiniteSet(new) /\ Cardinality(before) \in Nat
      /\ Cardinality(new) \in Nat
      /\ before \subseteq 1..(c - 1) /\ new \subseteq c..(e - 1)
  BY NewLinesFinite
<1>2. all = before \cup new
  <2>1. ASSUME NEW i PROVE i \in 1..(e - 1) <=> i \in 1..(c - 1) \/ i \in c..(e - 1)
    OBVIOUS
  <2> QED BY <2>1 DEF NewLines
<1>3. before \cap new = {}
  BY <1>1
<1> HIDE DEF before, new, all
<1>4. Cardinality(all) = Cardinality(before) + Cardinality(new)
  <2>1. Cardinality(all) = Cardinality(before) + Cardinality(new) - Cardinality(before \cap new)
    BY <1>1, <1>2, FS_Union
  <2>2. Cardinality(before \cap new) = 0
    BY <1>3, FS_EmptySet, Zenon
  <2> QED BY <1>1, <2>1, <2>2
<1> HIDE DEF src
<1>5. /\ lexer.line = Cardinality(before) + 1
      /\ \/ before = {} /\ lexer.column = c
         \/ \E b \in before : (\A q \in before : q <= b) /\ lexer.column = c - b
  BY DEF PlaceIs, before, src
<1>6. LineAfter(c, e) = Cardinality(all) + 1
  BY <1>1, <1>4, <1>5 DEF LineAfter, new, src
<1>7. \/ all = {} /\ ColumnAfter(c, e) = e
      \/ \E b \in all : (\A q \in all : q <= b) /\ ColumnAfter(c, e) = e - b
  <2>1. CASE new = {}
    <3>1. ColumnAfter(c, e) = lexer.column + (e - c) /\ all = before
      BY <1>2, <2>1 DEF ColumnAfter, new, src
    <3>2. CASE before = {} /\ lexer.column = c
      <4>1. c + (e - c) = e
        OBVIOUS
      <4> QED BY <3>1, <3>2, <4>1
    <3>3. ASSUME NEW b \in before, \A q \in before : q <= b, lexer.column = c - b
          PROVE  b \in all /\ (\A q \in all : q <= b) /\ ColumnAfter(c, e) = e - b
      <4>1. b \in 1..(c - 1)
        BY <1>1
      <4> QED BY <3>1, <3>3, <4>1
    <3> QED BY <1>5, <3>2, <3>3
  <2>2. CASE new # {}
    <3> DEFINE last == CHOOSE b \in new : \A i \in new : i <= b
    <3>1. new \subseteq 0..e
      BY <1>1
    <3>2. \E b \in new : \A i \in new : i <= b
      BY <2>2, <3>1, Greatest
    <3>3. last \in new /\ \A i \in new : i <= last
      BY <3>2
    <3>4. ColumnAfter(c, e) = e - last
      BY <2>2 DEF ColumnAfter, new, src
    <3> HIDE DEF last
    <3>5. last \in c..(e - 1) /\ \A q \in before : q <= last
      BY <1>1, <3>3
    <3> QED BY <1>2, <3>3, <3>4, <3>5
  <2> QED BY <2>1, <2>2
<1> QED BY <1>6, <1>7 DEF PlaceIs, all, src

\* A token has been read; it has no newline.
LEMMA PlaceAfterToken ==
  ASSUME NEW src, NEW p \in Nat \ {0}, NEW e \in Nat, p <= e, NEW line, NEW column,
         PlaceIs(src, p, line, column), \A i \in p..(e - 1) : src[i] # NewLine
  PROVE  PlaceIs(src, e, line, column + (e - p))
<1> DEFINE before == NewLines(src, 1, p - 1)
           all == NewLines(src, 1, e - 1)
<1>1. all = before
  <2>1. ASSUME NEW i PROVE i \in 1..(e - 1) <=> i \in 1..(p - 1) \/ i \in p..(e - 1)
    OBVIOUS
  <2> QED BY <2>1 DEF NewLines
<1>2. before \subseteq 1..(p - 1)
  BY NewLinesFinite
<1> HIDE DEF before, all
<1>3. /\ line = Cardinality(before) + 1
      /\ \/ before = {} /\ column = p
         \/ \E b \in before : (\A q \in before : q <= b) /\ column = p - b
  BY DEF PlaceIs, before
<1>4. \/ all = {} /\ column + (e - p) = e
      \/ \E b \in all : (\A q \in all : q <= b) /\ column + (e - p) = e - b
  <2>1. CASE before = {} /\ column = p
    BY <1>1, <2>1
  <2>2. ASSUME NEW b \in before, \A q \in before : q <= b, column = p - b
        PROVE  b \in all /\ (\A q \in all : q <= b) /\ column + (e - p) = e - b
    BY <1>1, <1>2, <2>2
  <2> QED BY <1>3, <2>1, <2>2
<1> QED BY <1>1, <1>3, <1>4 DEF PlaceIs, all

\* The first keyword at a position.
LEMMA FirstOfKeywords ==
  ASSUME lexTable \in Seq(Literals \cup {Pattern}), NEW src, NEW p, KeywordsAt(src, p) # {}
  PROVE  /\ FirstKeyword(src, p) \in KeywordsAt(src, p)
         /\ \A k \in KeywordsAt(src, p) : FirstKeyword(src, p) <= k
         /\ FirstKeyword(src, p) \in DOMAIN lexTable
         /\ lexTable[FirstKeyword(src, p)] \in Literals
         /\ DOMAIN lexTable = 1..Len(lexTable) /\ Len(lexTable) \in Nat
<1>1. DOMAIN lexTable = 1..Len(lexTable) /\ Len(lexTable) \in Nat
  OBVIOUS
<1>2. KeywordsAt(src, p) \in SUBSET Nat
  BY <1>1 DEF KeywordsAt
<1>3. \E k \in KeywordsAt(src, p) : \A j \in KeywordsAt(src, p) : k <= j
  BY <1>2, Least
<1>4. /\ FirstKeyword(src, p) \in KeywordsAt(src, p)
      /\ \A k \in KeywordsAt(src, p) : FirstKeyword(src, p) <= k
  BY <1>3 DEF FirstKeyword
<1> DEFINE f == FirstKeyword(src, p)
<1> HIDE DEF f
<1>5. f \in DOMAIN lexTable /\ lexTable[f] # Pattern
  BY <1>4 DEF KeywordsAt, f
<1>6. lexTable[f] \in Literals
  BY <1>5
<1> QED BY <1>1, <1>4, <1>5, <1>6 DEF f

\* A token is not empty, has no newline, and ends where its word ends.
LEMMA TokenEnds ==
  ASSUME lexTable \in Seq(Literals \cup {Pattern}),
         NEW src \in Seq(Characters), NEW p \in 1..Len(src), src[p] \notin Blanks
  PROVE  LET e == TokenEnd(src, p) IN
           /\ e \in (p + 1)..(Len(src) + 1)
           /\ \A i \in p..(e - 1) : src[i] # NewLine
           /\ \A q \in p..(e - 1) :
                /\ src[q] \in Letters /\ \A i \in q..(e - 1) : src[i] \in WordChars
                /\ e <= Len(src)
                => src[e] \notin WordChars
<1> DEFINE e == TokenEnd(src, p)
           n == Len(src)
<1>0. n \in Nat /\ p \in 1..(n + 1) /\ p \in Nat
  OBVIOUS
<1>1. CASE KeywordsAt(src, p) # {}
  <2> DEFINE t == lexTable[FirstKeyword(src, p)]
             l == Len(t)
  <2>1. t \in Literals /\ FirstKeyword(src, p) \in KeywordsAt(src, p)
    BY <1>1, FirstOfKeywords
  <2>2. StandsAt(src, t, p)
    BY <2>1 DEF KeywordsAt
  <2>3. e = p + l
    BY <1>1 DEF TokenEnd
  <2> HIDE DEF t, e
  <2>4. t \in Seq(Characters \ {NewLine}) /\ t # <<>>
    BY <2>1, LexAssumption
  <2>5. l \in Nat /\ l > 0 /\ \A j \in 1..l : t[j] # NewLine
    BY <2>4
  <2> HIDE DEF l
  <2>6. /\ p + l - 1 <= n /\ SubSeq(src, p, p + l - 1) = t
        /\ (p + l <= n => src[p + l] \notin WordChars)
    BY <2>2 DEF StandsAt, l
  <2>7. ASSUME NEW i \in p..(e - 1) PROVE src[i] # NewLine
    <3>1. i - p + 1 \in 1..l
      BY <1>0, <2>3, <2>5
    <3>2. SubSeq(src, p, p + l - 1)[i - p + 1] = src[i]
      BY <1>0, <2>3, <2>5, <2>6, <3>1
    <3> QED BY <2>5, <2>6, <3>1, <3>2
  <2> QED BY <1>0, <2>3, <2>5, <2>6, <2>7 DEF e
<1>2. CASE KeywordsAt(src, p) = {} /\ src[p] \in Letters
  <2>1. e = RunEnd(src, p, WordChars)
    BY <1>2 DEF TokenEnd
  <2>2. /\ e \in p..(n + 1) /\ \A i \in p..(e - 1) : src[i] \in WordChars
        /\ (e <= n => src[e] \notin WordChars)
    BY <1>0, <2>1, RunEnds
  <2> HIDE DEF e
  <2>3. e # p
    BY <1>0, <1>2, <2>2 DEF WordChars
  <2>4. NewLine \notin WordChars
    BY LexAssumption
  <2> QED BY <1>0, <2>2, <2>3, <2>4 DEF e
<1>3. CASE KeywordsAt(src, p) = {} /\ src[p] \notin Letters /\ src[p] \in Digits
  <2>1. e = RunEnd(src, p, Digits)
    BY <1>3 DEF TokenEnd
  <2>2. /\ e \in p..(n + 1) /\ \A i \in p..(e - 1) : src[i] \in Digits
        /\ (e <= n => src[e] \notin Digits)
    BY <1>0, <2>1, RunEnds
  <2> HIDE DEF e
  <2>3. e # p
    BY <1>0, <1>3, <2>2
  <2>4. NewLine \notin Digits /\ Letters \cap Digits = {}
    BY LexAssumption DEF WordChars
  <2> QED BY <1>0, <2>2, <2>3, <2>4 DEF e
<1>4. CASE KeywordsAt(src, p) = {} /\ src[p] \notin Letters /\ src[p] \notin Digits
  <2>1. e = p + 1
    BY <1>4 DEF TokenEnd
  <2> HIDE DEF e
  <2>2. \A i \in p..(e - 1) : i = p
    BY <1>0, <2>1
  <2>3. src[p] # NewLine
    BY LexAssumption
  <2> QED BY <1>0, <1>4, <2>1, <2>2, <2>3 DEF e
<1> QED BY <1>1, <1>2, <1>3, <1>4

\* The type of a token is that of the first literal of the table that stands there.
LEMMA TokenTypes ==
  ASSUME lexTable \in Seq(Literals \cup {Pattern}), NEW src, NEW p
  PROVE  /\ TokenType(src, p) \in {ERROR} \cup {TypeOf(k) : k \in DOMAIN lexTable}
         /\ TokenType(src, p) \in Nat /\ TokenType(src, p) # EOF
         /\ \A k \in KeywordsAt(src, p) :
              \E j \in 1..k : TokenType(src, p) = TypeOf(j) /\ StandsAt(src, lexTable[j], p)
<1>1. CASE KeywordsAt(src, p) = {}
  BY <1>1 DEF TokenType, ERROR, EOF
<1>2. CASE KeywordsAt(src, p) # {}
  <2> DEFINE f == FirstKeyword(src, p)
  <2>1. /\ f \in KeywordsAt(src, p) /\ \A k \in KeywordsAt(src, p) : f <= k
        /\ f \in DOMAIN lexTable /\ DOMAIN lexTable = 1..Len(lexTable) /\ Len(lexTable) \in Nat
    BY <1>2, FirstOfKeywords
  <2>2. TokenType(src, p) = TypeOf(f)
    BY <1>2 DEF TokenType
  <2> HIDE DEF f
  <2>3. StandsAt(src, lexTable[f], p)
    BY <2>1 DEF KeywordsAt
  <2>4. TypeOf(f) \in Nat /\ TypeOf(f) # EOF
    BY <2>1 DEF TypeOf, EOF
  <2>5. ASSUME NEW k \in KeywordsAt(src, p) PROVE f \in 1..k
    <3>1. k \in 1..Len(lexTable)
      BY <2>1 DEF KeywordsAt
    <3> QED BY <2>1, <3>1
  <2> QED BY <2>1, <2>2, <2>3, <2>4, <2>5
<1> QED BY <1>1, <1>2

-----------------------------------------------------------------------------
(* The invariant. *)

LexerRecord == [source : Seq(Characters), current : Nat, line : Nat, column : Nat]
TokenRecord == [type : Nat, start : Nat, length : Nat, line : Nat, column : Nat]

\* The position after the first i tokens.
EndOf(tokens, i) == IF i = 0 THEN 1 ELSE tokens[i].start + tokens[i].length

\* What lexer_next returns is what stands there, or the end.
IsReturned(tok) ==
  LET src == lexer.source
  IN  /\ PlaceIs(src, tok.start, tok.line, tok.column)
      /\ \/ /\ tok.start \in 1..Len(src) /\ src[tok.start] \notin Blanks
            /\ tok.type = TokenType(src, tok.start)
            /\ tok.length = TokenEnd(src, tok.start) - tok.start
         \/ tok.type = EOF /\ tok.start = Len(src) + 1 /\ tok.length = 0

\* The tokens follow each other, with blanks between them.
Follows(i) ==
  /\ EndOf(lexed, i - 1) <= lexed[i].start /\ EndOf(lexed, i) <= lexer.current
  /\ \A p \in EndOf(lexed, i - 1)..(lexed[i].start - 1) : lexer.source[p] \in Blanks

LexTyped ==
  /\ lexTable \in Seq(Literals \cup {Pattern}) /\ Len(lexTable) <= MaxTokens
  /\ lexPhase \in {"spec", "refused", "lexing"}
  /\ lexer \in LexerRecord /\ lexer.source \in LexTexts \cup {<<>>}
  /\ lexed \in Seq(TokenRecord)
  /\ lexPhase # "lexing" => lexed = <<>>

LexInv ==
  /\ LexTyped
  /\ lexer.current \in 1..(Len(lexer.source) + 1)
  /\ lexer.current = EndOf(lexed, Len(lexed))
  /\ PlaceIs(lexer.source, lexer.current, lexer.line, lexer.column)
  /\ \A i \in 1..Len(lexed) : IsReturned(lexed[i]) /\ Follows(i)
  /\ \A p \in 1..(lexer.current - 1) :
       \/ lexer.source[p] \in Blanks
       \/ \E i \in 1..Len(lexed) : p \in Covered(lexed[i])

LEMMA FirstPlace == ASSUME NEW text PROVE PlaceIs(text, 1, 1, 1)
<1>1. NewLines(text, 1, 1 - 1) = {}
  BY DEF NewLines
<1>2. Cardinality({}) = 0
  BY FS_EmptySet
<1> QED BY <1>1, <1>2 DEF PlaceIs

\* A lexer that has read nothing.
LEMMA FreshLexer ==
  ASSUME NEW text \in Seq(Characters),
         lexer = [source |-> text, current |-> 1, line |-> 1, column |-> 1], lexed = <<>>,
         LexTyped
  PROVE  LexInv
<1>1. /\ lexer.current = 1 /\ lexer.line = 1 /\ lexer.column = 1 /\ lexer.source = text
      /\ Len(text) \in Nat /\ Len(lexed) = 0
  OBVIOUS
<1>3. PlaceIs(text, 1, 1, 1)
  BY FirstPlace
<1> QED BY <1>1, <1>3 DEF LexInv, EndOf

LEMMA LexInitInv == LexInit => LexInv
<1> SUFFICES ASSUME LexInit PROVE LexInv
  OBVIOUS
<1>1. LexTyped
  BY LexAssumption DEF LexInit, LexTyped, LexerRecord
<1>2. <<>> \in Seq(Characters)
  OBVIOUS
<1> QED BY <1>1, <1>2, FreshLexer DEF LexInit

LEMMA LexerInitStep ==
  ASSUME LexInv, NEW text \in LexTexts, LexerInit(text)
  PROVE  LexInv'
<1>1. text \in Seq(Characters)
  BY LexAssumption
<1>2. /\ lexer' = [source |-> text, current |-> 1, line |-> 1, column |-> 1] /\ lexed' = <<>>
      /\ lexTable' = lexTable /\ lexPhase' = "lexing"
  BY DEF LexerInit
<1>3. LexTyped'
  BY <1>1, <1>2 DEF LexInv, LexTyped, LexerRecord
<1>4. /\ lexer'.current = 1 /\ lexer'.line = 1 /\ lexer'.column = 1 /\ lexer'.source = text
      /\ Len(text) \in Nat /\ Len(lexed') = 0
  BY <1>1, <1>2
<1>6. PlaceIs(text, 1, 1, 1)
  BY FirstPlace
<1> QED BY <1>3, <1>4, <1>6 DEF LexInv, EndOf

\* lexer_next has returned a token: what the tokens before it are stays so.
LEMMA TokenReturned ==
  ASSUME LexInv, lexPhase = "lexing", NEW tok \in TokenRecord,
         lexTable' = lexTable, lexPhase' = lexPhase, lexed' = Append(lexed, tok),
         lexer' \in LexerRecord, lexer'.source = lexer.source,
         lexer'.current = tok.start + tok.length,
         lexer'.current \in 1..(Len(lexer.source) + 1),
         lexer.current <= tok.start,
         \A p \in lexer.current..(tok.start - 1) : lexer.source[p] \in Blanks,
         IsReturned(tok),
         PlaceIs(lexer.source, lexer'.current, lexer'.line, lexer'.column)
  PROVE  LexInv'
<1> DEFINE n == Len(lexed)
           src == lexer.source
<1>1. /\ n \in Nat /\ DOMAIN lexed = 1..n /\ lexed \in Seq(TokenRecord)
      /\ \A i \in 1..n : lexed[i] \in TokenRecord
  BY DEF LexInv, LexTyped
<1>2. /\ lexed' \in Seq(TokenRecord) /\ Len(lexed') = n + 1 /\ lexed'[n + 1] = tok
      /\ \A i \in 1..n : lexed'[i] = lexed[i]
  BY <1>1, Appended
<1>3. LexTyped'
  BY <1>2 DEF LexInv, LexTyped
<1>4. /\ lexer.current \in Nat /\ lexer.current = EndOf(lexed, n)
      /\ tok.start \in Nat /\ tok.length \in Nat
      /\ lexer'.current \in Nat /\ lexer.current <= lexer'.current
  BY DEF LexInv, LexTyped, LexerRecord, TokenRecord
<1>5. /\ \A i \in 0..n : EndOf(lexed', i) = EndOf(lexed, i)
      /\ EndOf(lexed', n + 1) = lexer'.current
  BY <1>1, <1>2 DEF EndOf
<1>6. \A i \in 1..n : EndOf(lexed, i) \in Nat /\ EndOf(lexed, i) <= lexer.current
  <2> TAKE i \in 1..n
  <2>1. lexed[i] \in TokenRecord /\ Follows(i)
    BY <1>1 DEF LexInv
  <2>2. lexed[i].start \in Nat /\ lexed[i].length \in Nat /\ i # 0
    BY <1>1, <2>1 DEF TokenRecord
  <2>3. EndOf(lexed, i) = lexed[i].start + lexed[i].length
    BY <2>2 DEF EndOf
  <2> QED BY <2>1, <2>2, <2>3 DEF Follows
<1> HIDE DEF n
<1>7. ASSUME NEW i \in 1..(n + 1) PROVE (IsReturned(lexed[i]) /\ Follows(i))'
  <2>1. CASE i \in 1..n
    <3>1. IsReturned(lexed[i]) /\ Follows(i)
      BY <2>1 DEF LexInv, n
    <3>2. IsReturned(lexed[i])'
      BY <1>2, <2>1, <3>1 DEF IsReturned, TokenType, TokenEnd, KeywordsAt, FirstKeyword
    <3>3. i - 1 \in 0..n /\ i \in 0..n
      BY <1>1, <2>1
    <3>4. Follows(i)'
      BY <1>2, <1>4, <1>5, <1>6, <2>1, <3>1, <3>3 DEF Follows
    <3> QED BY <3>2, <3>4
  <2>2. CASE i = n + 1
    <3>1. IsReturned(lexed[i])'
      BY <1>2, <2>2 DEF IsReturned, TokenType, TokenEnd, KeywordsAt, FirstKeyword
    <3>2. EndOf(lexed', i - 1) = lexer.current /\ EndOf(lexed', i) = lexer'.current
      BY <1>1, <1>4, <1>5, <2>2
    <3>3. Follows(i)'
      BY <1>2, <1>4, <2>2, <3>2 DEF Follows
    <3> QED BY <3>1, <3>3
  <2> QED BY <1>1, <2>1, <2>2
<1>8. ASSUME NEW p \in 1..(lexer'.current - 1)
      PROVE  src[p] \in Blanks \/ \E i \in 1..(n + 1) : p \in Covered(lexed'[i])
  <2>1. CASE p \in 1..(lexer.current - 1)
    <3>1. CASE src[p] \in Blanks
      BY <3>1
    <3>2. CASE \E i \in 1..n : p \in Covered(lexed[i])
      BY <1>1, <1>2, <3>2
    <3> QED BY <2>1, <3>1, <3>2 DEF LexInv, n
  <2>2. CASE p \in lexer.current..(tok.start - 1)
    BY <2>2
  <2>3. CASE p \in tok.start..(lexer'.current - 1)
    <3>1. p \in Covered(tok)
      BY <1>4, <2>3 DEF Covered
    <3> QED BY <1>1, <1>2, <3>1
  <2>4. \/ p \in 1..(lexer.current - 1) \/ p \in lexer.current..(tok.start - 1)
        \/ p \in tok.start..(lexer'.current - 1)
    BY <1>4
  <2> QED BY <2>1, <2>2, <2>3, <2>4
<1> QED BY <1>2, <1>3, <1>5, <1>7, <1>8 DEF LexInv

LEMMA EOFStep == LexInv /\ LexerEOF => LexInv'
<1> SUFFICES ASSUME LexInv, LexerEOF PROVE LexInv'
  OBVIOUS
<1> DEFINE src == lexer.source
           c == lexer.current
           p == RunEnd(src, c, Blanks)
           line == LineAfter(c, p)
           column == ColumnAfter(c, p)
           tok == [type |-> EOF, start |-> p, length |-> 0, line |-> line, column |-> column]
<1>1. /\ lexPhase = "lexing" /\ p > Len(src) /\ lexTable' = lexTable /\ lexPhase' = lexPhase
      /\ lexed' = Append(lexed, tok)
      /\ lexer' = [lexer EXCEPT !.current = p, !.line = line, !.column = column]
  BY DEF LexerEOF
<1>2. /\ lexer \in LexerRecord /\ Len(src) \in Nat /\ c \in 1..(Len(src) + 1)
      /\ PlaceIs(src, c, lexer.line, lexer.column)
  BY DEF LexInv, LexTyped, LexerRecord
<1>3. /\ p \in c..(Len(src) + 1) /\ \A i \in c..(p - 1) : src[i] \in Blanks
  BY <1>2, RunEnds
<1> HIDE DEF p
<1>4. p = Len(src) + 1 /\ p \in Nat \ {0} /\ c \in Nat \ {0} /\ c <= p
  BY <1>1, <1>2, <1>3
<1>5. PlaceIs(src, p, line, column)
  BY <1>2, <1>4, PlaceAfterBlanks
<1>6. line \in Nat /\ column \in Nat
  BY <1>4, <1>5, PlaceTyped
<1> HIDE DEF line, column
<1>7. /\ lexer' \in LexerRecord /\ lexer'.source = src /\ lexer'.current = p
      /\ lexer'.line = line /\ lexer'.column = column
  BY <1>1, <1>2, <1>4, <1>6 DEF LexerRecord
<1>8. /\ tok \in TokenRecord /\ tok.start = p /\ tok.length = 0 /\ tok.type = EOF
      /\ tok.line = line /\ tok.column = column
  BY <1>4, <1>6 DEF TokenRecord, EOF
<1> HIDE DEF tok
<1>9. IsReturned(tok)
  BY <1>4, <1>5, <1>8 DEF IsReturned
<1> HIDE DEF src, c
<1>10. p + 0 = p /\ p \in 1..(Len(src) + 1)
  BY <1>2, <1>4
<1> QED BY <1>1, <1>3, <1>4, <1>5, <1>7, <1>8, <1>9, <1>10, TokenReturned DEF src, c

LEMMA TokenStep == LexInv /\ LexerNext => LexInv'
<1> SUFFICES ASSUME LexInv, LexerNext PROVE LexInv'
  OBVIOUS
<1> DEFINE src == lexer.source
           c == lexer.current
           p == RunEnd(src, c, Blanks)
           e == TokenEnd(src, p)
           line == LineAfter(c, p)
           column == ColumnAfter(c, p)
           tok == Token(src, p, line, column)
           more == tok.length
<1>1. /\ lexPhase = "lexing" /\ p <= Len(src) /\ lexTable' = lexTable /\ lexPhase' = lexPhase
      /\ lexed' = Append(lexed, tok)
      /\ lexer' = [lexer EXCEPT !.current = p + more, !.line = line, !.column = column + more]
  BY DEF LexerNext
<1>2. /\ lexer \in LexerRecord /\ Len(src) \in Nat /\ c \in 1..(Len(src) + 1)
      /\ PlaceIs(src, c, lexer.line, lexer.column)
      /\ src \in Seq(Characters) /\ lexTable \in Seq(Literals \cup {Pattern})
  BY DEF LexInv, LexTyped, LexerRecord
<1>3. /\ p \in c..(Len(src) + 1) /\ \A i \in c..(p - 1) : src[i] \in Blanks
      /\ p <= Len(src) => src[p] \notin Blanks
  BY <1>2, RunEnds
<1> HIDE DEF p
<1>4. p \in 1..Len(src) /\ p \in Nat \ {0} /\ c \in Nat \ {0} /\ c <= p /\ src[p] \notin Blanks
  BY <1>1, <1>2, <1>3
<1>5. PlaceIs(src, p, line, column)
  BY <1>2, <1>4, PlaceAfterBlanks
<1>6. line \in Nat /\ column \in Nat
  BY <1>4, <1>5, PlaceTyped
<1> HIDE DEF line, column
<1>7. e \in (p + 1)..(Len(src) + 1) /\ \A i \in p..(e - 1) : src[i] # NewLine
  BY <1>2, <1>4, TokenEnds
<1>8. TokenType(src, p) \in Nat
  BY <1>2, TokenTypes
<1>9. /\ tok.type = TokenType(src, p) /\ tok.start = p /\ tok.length = e - p
      /\ tok.line = line /\ tok.column = column
  BY DEF Token
<1>10. tok = [type |-> TokenType(src, p), start |-> p, length |-> e - p,
              line |-> line, column |-> column]
  BY DEF Token
<1> HIDE DEF e, tok
<1>11. tok \in TokenRecord
  <2>1. e - p \in Nat
    BY <1>4, <1>7
  <2> QED BY <1>4, <1>6, <1>8, <1>10, <2>1 DEF TokenRecord
<1>12. p + more = e /\ more = e - p /\ e \in Nat /\ p <= e /\ e \in 1..(Len(src) + 1)
       /\ column + more \in Nat
  <2>1. more = e - p
    BY <1>9
  <2> HIDE DEF more
  <2>2. e \in Nat /\ p < e
    BY <1>4, <1>7
  <2> QED BY <1>4, <1>6, <1>7, <2>1, <2>2
<1>13. PlaceIs(src, e, line, column + (e - p))
  BY <1>4, <1>5, <1>7, <1>12, PlaceAfterToken
<1> HIDE DEF more
<1>14. /\ lexer' \in LexerRecord /\ lexer'.source = src /\ lexer'.current = e
       /\ lexer'.line = line /\ lexer'.column = column + more
  BY <1>1, <1>2, <1>6, <1>12 DEF LexerRecord
<1>15. IsReturned(tok)
  BY <1>4, <1>5, <1>9 DEF IsReturned, e
<1>16. e = tok.start + tok.length
  BY <1>4, <1>9, <1>12
<1> HIDE DEF src, c
<1> QED BY <1>1, <1>3, <1>4, <1>9, <1>11, <1>12, <1>13, <1>14, <1>15, <1>16, TokenReturned
        DEF src, c

LEMMA LexStep == LexInv /\ [LexNext]_lexVars => LexInv'
<1> SUFFICES ASSUME LexInv, [LexNext]_lexVars PROVE LexInv'
  OBVIOUS
<1>1. ASSUME lexer' = lexer, lexed' = lexed, LexTyped', lexTable' = lexTable \/ lexed = <<>>
      PROVE  LexInv'
  <2>1. CASE lexTable' = lexTable
    <3>1. ASSUME NEW i \in 1..Len(lexed) PROVE (IsReturned(lexed[i]) /\ Follows(i))'
      <4>1. IsReturned(lexed[i]) /\ Follows(i)
        BY DEF LexInv
      <4>2. IsReturned(lexed[i])'
        BY <1>1, <2>1, <4>1
           DEF IsReturned, TokenType, TokenEnd, KeywordsAt, FirstKeyword
      <4>3. Follows(i)'
        BY <1>1, <4>1 DEF Follows
      <4> QED BY <4>2, <4>3
    <3> QED BY <1>1, <3>1 DEF LexInv
  <2>2. CASE lexed = <<>>
    BY <1>1, <2>2 DEF LexInv
  <2> QED BY <1>1, <2>1, <2>2
<1>2. ASSUME NEW t \in Literals \cup {Pattern}, LexDeclare(t) PROVE LexInv'
  <2>1. lexPhase = "spec" /\ lexer' = lexer /\ lexed' = lexed /\ lexed = <<>>
    BY <1>2 DEF LexDeclare, LexInv, LexTyped
  <2>2. lexTable \in Seq(Literals \cup {Pattern}) /\ Len(lexTable) <= MaxTokens /\ MaxTokens \in Nat
    BY LexAssumption DEF LexInv, LexTyped
  <2>3. /\ lexTable' \in Seq(Literals \cup {Pattern}) /\ Len(lexTable') <= MaxTokens
        /\ lexPhase' \in {"spec", "refused"}
    <3>1. CASE Len(lexTable) < MaxTokens
      <4>1. lexTable' = Append(lexTable, t) /\ lexPhase' = "spec"
        BY <1>2, <2>1, <3>1 DEF LexDeclare
      <4> QED BY <2>2, <3>1, <4>1
    <3>2. CASE ~(Len(lexTable) < MaxTokens)
      BY <1>2, <2>2, <3>2 DEF LexDeclare
    <3> QED BY <3>1, <3>2
  <2>4. LexTyped'
    BY <2>1, <2>3 DEF LexInv, LexTyped
  <2> QED BY <1>1, <2>1, <2>4
<1>3. CASE LexUnterminated
  BY <1>1, <1>3 DEF LexUnterminated, LexInv, LexTyped
<1>4. ASSUME NEW text \in LexTexts, LexerInit(text) PROVE LexInv'
  BY <1>4, LexerInitStep
<1>5. CASE LexerEOF
  BY <1>5, EOFStep
<1>6. CASE LexerNext
  BY <1>6, TokenStep
<1>7. CASE UNCHANGED lexVars
  BY <1>1, <1>7 DEF lexVars, LexInv, LexTyped
<1> QED BY <1>2, <1>3, <1>4, <1>5, <1>6, <1>7 DEF LexNext

-----------------------------------------------------------------------------
(* What the invariant says of the text. *)

\* One token of the text.
LEMMA TokenOfText ==
  ASSUME LexInv, NEW i \in 1..Len(lexed)
  PROVE  LET tok == lexed[i]
             src == lexer.source
             e == tok.start + tok.length
         IN  /\ tok.start \in Nat /\ tok.length \in Nat
             /\ PlaceIs(src, tok.start, tok.line, tok.column)
             /\ \/ tok.type = EOF /\ tok.length = 0
                \/ /\ tok.start \in 1..Len(src) /\ src[tok.start] \notin Blanks
                   /\ tok.type = TokenType(src, tok.start) /\ tok.type # EOF
                   /\ e = TokenEnd(src, tok.start) /\ tok.length > 0
                   /\ e \in Nat
<1> DEFINE tok == lexed[i]
           src == lexer.source
           p == tok.start
<1>1. /\ tok \in TokenRecord /\ IsReturned(tok)
      /\ src \in Seq(Characters) /\ lexTable \in Seq(Literals \cup {Pattern})
  BY DEF LexInv, LexTyped, LexerRecord
<1>2. tok.start \in Nat /\ tok.length \in Nat /\ PlaceIs(src, tok.start, tok.line, tok.column)
  BY <1>1 DEF TokenRecord, IsReturned
<1>3. CASE tok.type = EOF /\ tok.length = 0
  BY <1>2, <1>3
<1>4. CASE /\ p \in 1..Len(src) /\ src[p] \notin Blanks /\ tok.type = TokenType(src, p)
           /\ tok.length = TokenEnd(src, p) - p
  <2> HIDE DEF tok, src, p
  <2>1. TokenEnd(src, p) \in (p + 1)..(Len(src) + 1) /\ Len(src) \in Nat /\ p \in Nat
    BY <1>1, <1>4, TokenEnds
  <2>2. TokenType(src, p) # EOF
    BY <1>1, TokenTypes
  <2>3. p + tok.length = TokenEnd(src, p) /\ tok.length > 0 /\ p + tok.length \in Nat
    BY <1>4, <2>1
  <2> QED BY <1>2, <1>4, <2>2, <2>3 DEF p, tok, src
<1> QED BY <1>1, <1>3, <1>4 DEF IsReturned

LEMMA LexInvTokens ==
  ASSUME LexInv
  PROVE  DOMAIN lexed = 1..Len(lexed) /\ Len(lexed) \in Nat
BY DEF LexInv, LexTyped

LEMMA InvTiles == LexInv => TokensTile
<1> SUFFICES ASSUME LexInv, NEW i \in 1..Len(lexed)
             PROVE  LET from == IF i = 1 THEN 1 ELSE lexed[i - 1].start + lexed[i - 1].length
                    IN /\ from <= lexed[i].start
                       /\ \A p \in from..(lexed[i].start - 1) : lexer.source[p] \in Blanks
                       /\ lexed[i].type # EOF =>
                            /\ lexed[i].length > 0
                            /\ lexed[i].start + lexed[i].length <= lexer.current
                            /\ lexer.source[lexed[i].start] \notin Blanks
  BY LexInvTokens DEF TokensTile
<1>1. Follows(i)
  BY DEF LexInv
<1>2. EndOf(lexed, i - 1) = IF i = 1 THEN 1 ELSE lexed[i - 1].start + lexed[i - 1].length
  BY LexInvTokens DEF EndOf
<1>3. EndOf(lexed, i) = lexed[i].start + lexed[i].length
  BY LexInvTokens DEF EndOf
<1>4. lexed[i].type # EOF => lexed[i].length > 0 /\ lexer.source[lexed[i].start] \notin Blanks
  BY TokenOfText
<1> QED BY <1>1, <1>2, <1>3, <1>4 DEF Follows

LEMMA InvPlaces == LexInv => PositionsAreRight
<1> SUFFICES ASSUME LexInv, NEW i \in 1..Len(lexed)
             PROVE  LET tok == lexed[i]
                        breaks == NewLines(lexer.source, 1, tok.start - 1)
                    IN /\ tok.line = Cardinality(breaks) + 1
                       /\ \/ breaks = {} /\ tok.column = tok.start
                          \/ \E b \in breaks : /\ \A p \in breaks : p <= b
                                               /\ tok.column = tok.start - b
  BY LexInvTokens DEF PositionsAreRight, Tokens
<1> QED BY TokenOfText DEF PlaceIs

\* A word ends where its run of word characters does.
LEMMA WordOfText ==
  ASSUME LexInv, NEW i \in 1..Len(lexed), lexed[i].type # EOF,
         lexed[i].start + lexed[i].length <= Len(lexer.source),
         NEW p, p \in Covered(lexed[i]), lexer.source[p] \in Letters,
         \A q \in p..((lexed[i].start + lexed[i].length) - 1) : lexer.source[q] \in WordChars
  PROVE  lexer.source[lexed[i].start + lexed[i].length] \notin WordChars
<1> DEFINE this == lexed[i]
           src == lexer.source
           e == this.start + this.length
<1>1. /\ this.start \in 1..Len(src) /\ src[this.start] \notin Blanks
      /\ e = TokenEnd(src, this.start)
      /\ this.start \in Nat /\ this.length \in Nat
  BY TokenOfText
<1>2. src \in Seq(Characters) /\ lexTable \in Seq(Literals \cup {Pattern})
  BY DEF LexInv, LexTyped, LexerRecord
<1>3. p \in this.start..(e - 1)
  BY <1>1 DEF Covered
<1>4. e <= Len(src)
  OBVIOUS
<1>5. src[p] \in Letters /\ \A q \in p..(e - 1) : src[q] \in WordChars
  BY Zenon
<1> HIDE DEF this, src, e
<1>6. \A q \in this.start..(TokenEnd(src, this.start) - 1) :
        /\ src[q] \in Letters
        /\ \A k \in q..(TokenEnd(src, this.start) - 1) : src[k] \in WordChars
        /\ TokenEnd(src, this.start) <= Len(src)
        => src[TokenEnd(src, this.start)] \notin WordChars
  BY <1>1, <1>2, TokenEnds
<1>7. src[e] \notin WordChars
  BY <1>1, <1>3, <1>4, <1>5, <1>6
<1> QED BY <1>7 DEF this, src, e

LEMMA InvWords == LexInv => WordsAreWhole
<1> SUFFICES ASSUME LexInv, NEW tok \in Tokens
             PROVE  LET end == tok.start + tok.length
                    IN /\ tok.type # EOF
                       /\ end <= Len(lexer.source)
                       /\ \E p \in Covered(tok) :
                            /\ lexer.source[p] \in Letters
                            /\ \A q \in p..(end - 1) : lexer.source[q] \in WordChars
                       => lexer.source[end] \notin WordChars
  BY DEF WordsAreWhole
<1>1. PICK i \in 1..Len(lexed) : tok = lexed[i]
  BY LexInvTokens DEF Tokens
<1> SUFFICES ASSUME lexed[i].type # EOF,
                    lexed[i].start + lexed[i].length <= Len(lexer.source),
                    NEW p, p \in Covered(lexed[i]), lexer.source[p] \in Letters,
                    \A q \in p..((lexed[i].start + lexed[i].length) - 1) :
                      lexer.source[q] \in WordChars
             PROVE  lexer.source[lexed[i].start + lexed[i].length] \notin WordChars
  BY <1>1, Zenon
<1> QED BY WordOfText, Zenon

LEMMA InvLiterals == LexInv => SeparateLiteralsAreRead
<1> SUFFICES ASSUME LexInv, NEW k \in DOMAIN lexTable, lexTable[k] # Pattern,
                    NEW p \in 1..(lexer.current - 1), lexTable[k][1] \notin Blanks,
                    StandsAt(lexer.source, lexTable[k], p),
                    \A tok \in Tokens : p \in Covered(tok) => tok.start = p
             PROVE  \E tok \in Tokens :
                      /\ tok.start = p
                      /\ \E j \in 1..k : /\ tok.type = TypeOf(j)
                                         /\ StandsAt(lexer.source, lexTable[j], p)
  BY DEF SeparateLiteralsAreRead
<1> DEFINE src == lexer.source
           t == lexTable[k]
<1>1. /\ src \in Seq(Characters) /\ lexTable \in Seq(Literals \cup {Pattern})
      /\ lexer.current \in 1..(Len(src) + 1) /\ Len(src) \in Nat
  BY DEF LexInv, LexTyped, LexerRecord
<1>2. t \in Seq(Characters) /\ t # <<>>
  BY <1>1, LexAssumption
<1>3. src[p] = t[1]
  <2>1. Len(t) \in Nat /\ Len(t) >= 1
    BY <1>2
  <2>2. p + Len(t) - 1 <= Len(src) /\ SubSeq(src, p, p + Len(t) - 1) = t
    BY DEF StandsAt
  <2>3. SubSeq(src, p, p + Len(t) - 1)[1] = src[p]
    <3> HIDE DEF t, src
    <3>1. p \in Nat /\ p >= 1
      OBVIOUS
    <3> QED BY <1>1, <2>1, <2>2, <3>1
  <2> QED BY <2>2, <2>3
<1>4. src[p] \notin Blanks
  BY <1>3
<1>5. PICK i \in 1..Len(lexed) : p \in Covered(lexed[i])
  BY <1>4 DEF LexInv
<1> DEFINE tok == lexed[i]
<1>6. tok \in Tokens /\ tok.start = p
  BY <1>5, LexInvTokens DEF Tokens
<1>7. tok.type = TokenType(src, p)
  <2>1. tok.length # 0
    BY <1>5, TokenOfText DEF Covered
  <2> QED BY <1>6, <2>1, TokenOfText
<1>8. k \in KeywordsAt(src, p)
  BY DEF KeywordsAt
<1>9. \E j \in 1..k : TokenType(src, p) = TypeOf(j) /\ StandsAt(src, lexTable[j], p)
  BY <1>1, <1>8, TokenTypes
<1> QED BY <1>6, <1>7, <1>9

THEOREM LexInvariant == LexSpec => []LexInv
BY LexInitInv, LexStep, PTL DEF LexSpec

\* TextIsReadAsTokens of every table of literals and every text: what the lexer of
\* lexgen.c:306-369 returns.
THEOREM TextsAreTokens == LexSpec => []TextIsReadAsTokens
<1>1. LexInv => TextIsReadAsTokens
  BY InvTiles, InvPlaces, InvWords, InvLiterals DEF TextIsReadAsTokens
<1> QED BY <1>1, LexInvariant, PTL

\* The table keeps its limit, and the lexer's position stays in the text
\* (lexgen.c:71-146, :306-369).
THEOREM LexTypeSafe == LexSpec => []LexTypeOK
<1>1. LexInv => LexTypeOK
  <2> SUFFICES ASSUME LexInv PROVE LexTypeOK
    OBVIOUS
  <2>1. ASSUME NEW i \in 1..Len(lexed)
        PROVE  lexed[i].type \in {EOF, ERROR} \cup {TypeOf(k) : k \in DOMAIN lexTable}
    <3>1. CASE lexed[i].type = EOF
      BY <3>1
    <3>2. CASE lexed[i].type = TokenType(lexer.source, lexed[i].start)
      BY <3>2, TokenTypes DEF LexInv, LexTyped
    <3> QED BY <3>1, <3>2, TokenOfText
  <2> QED BY <2>1, LexInvTokens DEF LexTypeOK, LexInv, LexTyped
<1> QED BY <1>1, LexInvariant, PTL

-----------------------------------------------------------------------------
(***************************************************************************)
(* ApiTables.  Of the parser: the blocks say what the tables have.  Of the *)
(* writer: the two tables of errors as far as they are written.  Of the    *)
(* dispatcher: the first route of the request.                             *)
(***************************************************************************)

ApiBlocks == {"api", "endpoint", "type"} \X Nat
ApiKinds == {"endpoint", "type", "close", "version", "transport", "method", "path", "error",
             "field"}
ApiValues == Methods \cup Paths \cup ErrorNames \cup Fields \cup {NoValue}
ApiEntry == [in : ApiBlocks, kind : ApiKinds, value : ApiValues]
Codes == {"INVALID_INPUT", "NOT_FOUND", "INTERNAL"} \cup {EnumOf[x] : x \in ErrorNames}
Endpoint == [method : Methods, path : Paths \cup {NoPath}, errors : Seq(Nat)]

ApiTyped ==
  /\ endpoints \in Seq(Endpoint) /\ apiTypes \in Seq(Seq(Nat)) /\ apiText \in Seq(ApiEntry)
  /\ Len(endpoints) <= MaxEndpoints /\ Len(apiTypes) <= MaxTypes
  /\ \A e \in 1..Len(endpoints) : Len(endpoints[e].errors) <= MaxErrors
  /\ \A t \in 1..Len(apiTypes) : Len(apiTypes[t]) <= MaxFields
  /\ apiVersion \in BOOLEAN /\ apiCur \in {"none", "endpoint", "type"}
  /\ apiPhase \in {"spec", "refused", "errors", "serving"}
  /\ apiOnLine \subseteq 1..Len(apiTypes)

\* The author is in the last block, and the parser has it open; a type that is open
\* when the author is in none was written on one line.
ApiBlockFits ==
  \/ apiBlock = Top /\ (apiCur = "type" => Len(apiTypes) \in apiOnLine)
  \/ apiBlock = <<"endpoint", Len(endpoints)>> /\ Len(endpoints) > 0 /\ apiCur = "endpoint"
  \/ /\ apiBlock = <<"type", Len(apiTypes)>> /\ Len(apiTypes) > 0 /\ apiCur = "type"
     /\ Len(apiTypes) \notin apiOnLine

\* Entries stand in blocks that there are.
EntriesFit ==
  \A i \in 1..Len(apiText) :
    /\ \A e \in Nat : apiText[i].in = <<"endpoint", e>> => e <= Len(endpoints)
    /\ \A t \in Nat : apiText[i].in = <<"type", t>> => t <= Len(apiTypes)
    /\ apiText[i].kind = "error" => apiText[i].value \in ErrorNames

EndpointIsSaid(e) ==
  /\ LastSays(<<"endpoint", e>>, "method", Get, endpoints[e].method)
  /\ LastSays(<<"endpoint", e>>, "path", NoPath, endpoints[e].path)
  /\ IsFirstOf(endpoints[e].errors, Entries(<<"endpoint", e>>, "error"), MaxErrors)

FieldEntries(t) == {i \in Entries(<<"type", t>>, "field") : apiText[i].value # "version"}

TypeIsSaid(t) ==
  IF t \in apiOnLine
  THEN \A i \in ToSet(apiTypes[t]) : i \in 1..Len(apiText) /\ apiText[i].in = Top
  ELSE IsFirstOf(apiTypes[t], FieldEntries(t), MaxFields)

VersionIsSaid ==
  apiVersion <=>
    \E i \in DOMAIN apiText :
      /\ apiText[i].kind = "version"
      /\ \A j \in (i + 1)..Len(apiText) :
           ~(apiText[j].kind = "field" /\ apiText[j].value = "version")

BlocksAreSaid ==
  /\ \A e \in 1..Len(endpoints) : EndpointIsSaid(e)
  /\ \A t \in 1..Len(apiTypes) : TypeIsSaid(t)
  /\ VersionIsSaid

-----------------------------------------------------------------------------
(* The two tables of errors. *)

Room == Len(errorEnum) < MaxEndpoints * MaxErrors

\* A string stands twice among the first n.
Repeats(n) == \E i, j \in 1..n : i # j /\ errorStrings[i] = errorStrings[j]

\* Where the string of the e-th constant stands first, and whether that is its place.
StandsFirst(e, f) ==
  /\ e <= f /\ errorStrings[f] = errorEnum[e]
  /\ \A i \in 1..(f - 1) : errorStrings[i] # errorEnum[e]
  /\ IF e = f THEN ~Repeats(f - 1) ELSE Repeats(f - 1)

\* While there is room, either table has what the other has, and they are as long, or
\* else a string is there twice.
TablesMatch ==
  /\ Len(errorEnum) <= Len(errorStrings)
  /\ \A d, e \in 1..Len(errorEnum) : d # e => errorEnum[d] # errorEnum[e]
  /\ \A e \in 1..Len(errorEnum) : \E f \in 1..Len(errorStrings) : StandsFirst(e, f)
  /\ Room => /\ \A i \in 1..Len(errorStrings) : errorStrings[i] \in ToSet(errorEnum)
             /\ \/ Len(errorStrings) = Len(errorEnum) /\ ~Repeats(Len(errorStrings))
                \/ Len(errorStrings) > Len(errorEnum) /\ Repeats(Len(errorStrings))

\* The i-th error of endpoint e has been written.
IsPast(e, i) == e < errorAt[1] \/ (e = errorAt[1] /\ i < errorAt[2])

ErrorsFit ==
  /\ errorEnum \in Seq(Codes) /\ errorStrings \in Seq(Codes) /\ errorAt \in Nat \X Nat
  /\ errorAt[1] > 0 /\ errorAt[2] > 0
  /\ apiPhase \in {"spec", "refused"} => errorAt = <<1, 1>>
  /\ apiPhase = "serving" => errorAt[1] > Len(endpoints)
  /\ \A e \in 1..Len(endpoints) : \A i \in 1..Len(endpoints[e].errors) :
       IsPast(e, i) /\ Room => CodeOf(endpoints[e].errors[i]) \in ToSet(errorEnum)

AnswerFits ==
  /\ answer.by \in 0..Len(endpoints)
  /\ answer.by # Answer404 => /\ endpoints[answer.by].method = answer.method
                              /\ endpoints[answer.by].path = answer.path
  /\ answer.path # NoPath =>
       \A e \in 1..Len(endpoints) :
         endpoints[e].method = answer.method /\ endpoints[e].path = answer.path =>
           answer.by \in 1..e

AnswersWait == apiPhase # "serving" => answer = NoAnswer

ApiInv ==
  /\ ApiTyped /\ ApiBlockFits /\ EntriesFit /\ BlocksAreSaid
  /\ ErrorsFit /\ TablesMatch /\ AnswerFits /\ AnswersWait

-----------------------------------------------------------------------------

LEMMA ApiInitInv == ApiInit => ApiInv
<1> SUFFICES ASSUME ApiInit PROVE ApiInv
  OBVIOUS
<1>1. /\ endpoints = <<>> /\ apiTypes = <<>> /\ apiText = <<>> /\ apiVersion = FALSE
      /\ apiOnLine = {}
      /\ apiCur = "none" /\ apiPhase = "spec" /\ apiBlock = Top
      /\ errorAt = <<1, 1>> /\ errorEnum = BaseErrors /\ errorStrings = BaseErrors
      /\ answer = NoAnswer
  BY DEF ApiInit
<1>2. ApiTyped
  <2>1. /\ endpoints \in Seq(Endpoint) /\ apiTypes \in Seq(Seq(Nat)) /\ apiText \in Seq(ApiEntry)
    BY <1>1
  <2>2. Len(endpoints) <= MaxEndpoints /\ Len(apiTypes) <= MaxTypes
    BY <1>1, ApiAssumption
  <2>3. Len(endpoints) = 0 /\ Len(apiTypes) = 0
    BY <1>1
  <2>4. /\ \A e \in 1..Len(endpoints) : Len(endpoints[e].errors) <= MaxErrors
        /\ \A t \in 1..Len(apiTypes) : Len(apiTypes[t]) <= MaxFields
    BY <2>3
  <2> QED BY <1>1, <2>1, <2>2, <2>4 DEF ApiTyped
<1>3. ApiBlockFits /\ EntriesFit
  BY <1>1 DEF ApiBlockFits, EntriesFit
<1>4. BlocksAreSaid
  BY <1>1 DEF BlocksAreSaid, VersionIsSaid
<1>5. /\ BaseErrors \in Seq(Codes) /\ Len(BaseErrors) = 3
      /\ \A i, j \in 1..3 : i # j => BaseErrors[i] # BaseErrors[j]
  <2>1. /\ BaseErrors[1] = "INVALID_INPUT" /\ BaseErrors[2] = "NOT_FOUND"
        /\ BaseErrors[3] = "INTERNAL" /\ BaseErrors \in Seq(Codes) /\ Len(BaseErrors) = 3
    BY DEF BaseErrors, Codes
  <2>2. \A i \in 1..3 : i = 1 \/ i = 2 \/ i = 3
    OBVIOUS
  <2> QED BY <2>1, <2>2
<1>6. ErrorsFit
  <2>1. \A e \in 1..Len(endpoints) : FALSE
    BY <1>1
  <2>2. errorAt[1] > 0 /\ errorAt[2] > 0 /\ errorAt \in Nat \X Nat
    BY <1>1
  <2> QED BY <1>1, <1>5, <2>1, <2>2 DEF ErrorsFit
<1>7. TablesMatch
  <2>1. \A n \in 0..3 : ~Repeats(n)
    BY <1>1, <1>5 DEF Repeats
  <2>2. \A e \in 1..3 : StandsFirst(e, e)
    BY <1>1, <1>5, <2>1 DEF StandsFirst
  <2>3. \A i \in 1..3 : errorStrings[i] \in ToSet(errorEnum)
    BY <1>1, <1>5 DEF ToSet
  <2> QED BY <1>1, <1>5, <2>1, <2>2, <2>3 DEF TablesMatch
<1>8. AnswerFits /\ AnswersWait
  <2>1. answer.by = 0 /\ answer.path = NoPath
    BY <1>1 DEF NoAnswer, Answer404
  <2>2. Len(endpoints) = 0
    BY <1>1
  <2> QED BY <1>1, <2>1, <2>2 DEF AnswerFits, AnswersWait, Answer404
<1> QED BY <1>2, <1>3, <1>4, <1>6, <1>7, <1>8 DEF ApiInv

LEMMA ApiParts ==
  ASSUME ApiInv
  PROVE  /\ endpoints \in Seq(Endpoint) /\ apiTypes \in Seq(Seq(Nat)) /\ apiText \in Seq(ApiEntry)
         /\ Len(endpoints) \in Nat /\ Len(apiTypes) \in Nat /\ Len(apiText) \in Nat
         /\ DOMAIN endpoints = 1..Len(endpoints) /\ DOMAIN apiTypes = 1..Len(apiTypes)
         /\ DOMAIN apiText = 1..Len(apiText)
         /\ MaxEndpoints \in Nat /\ MaxErrors \in Nat /\ MaxTypes \in Nat /\ MaxFields \in Nat
         /\ apiBlock \in ApiBlocks
<1>1. /\ endpoints \in Seq(Endpoint) /\ apiTypes \in Seq(Seq(Nat)) /\ apiText \in Seq(ApiEntry)
  BY DEF ApiInv, ApiTyped
<1>2. /\ Len(endpoints) \in Nat /\ Len(apiTypes) \in Nat /\ Len(apiText) \in Nat
      /\ DOMAIN endpoints = 1..Len(endpoints) /\ DOMAIN apiTypes = 1..Len(apiTypes)
      /\ DOMAIN apiText = 1..Len(apiText)
  BY <1>1
<1>3. apiBlock \in ApiBlocks
  <2>1. /\ Top \in ApiBlocks
        /\ \A n \in Nat : <<"endpoint", n>> \in ApiBlocks /\ <<"type", n>> \in ApiBlocks
    BY DEF ApiBlocks, Top
  <2>2. apiBlock \in {Top, <<"endpoint", Len(endpoints)>>, <<"type", Len(apiTypes)>>}
    BY DEF ApiInv, ApiBlockFits
  <2> QED BY <1>2, <2>1, <2>2
<1> QED BY <1>1, <1>2, <1>3, ApiAssumption

-----------------------------------------------------------------------------
(* What a line adds: m entries of its kind, in the author's block. *)

Adds(m, kind) ==
  /\ apiText' \in Seq(ApiEntry) /\ Len(apiText') = Len(apiText) + m
  /\ \A i \in 1..Len(apiText) : apiText'[i] = apiText[i]
  /\ \A i \in (Len(apiText) + 1)..(Len(apiText) + m) :
       apiText'[i].in = apiBlock /\ apiText'[i].kind = kind

LEMMA EntriesGrow ==
  ASSUME ApiInv, NEW m \in Nat, NEW kind, Adds(m, kind), NEW n \in Nat, n = Len(apiText),
         NEW b, NEW k
  PROVE  /\ b = apiBlock /\ k = kind => Entries(b, k)' = Entries(b, k) \cup (n + 1)..(n + m)
         /\ b # apiBlock \/ k # kind => Entries(b, k)' = Entries(b, k)
         /\ Entries(b, k) \subseteq 1..n
<1>1. DOMAIN apiText = 1..n
  BY ApiParts
<1>2. /\ DOMAIN apiText' = 1..(n + m)
      /\ \A i \in 1..n : apiText'[i] = apiText[i]
      /\ \A i \in (n + 1)..(n + m) : apiText'[i].in = apiBlock /\ apiText'[i].kind = kind
  BY DEF Adds
<1>3. 1..(n + m) = 1..n \cup (n + 1)..(n + m)
  OBVIOUS
<1>4. /\ Entries(b, k) = {i \in 1..n : apiText[i].in = b /\ apiText[i].kind = k}
      /\ Entries(b, k)' = {i \in 1..(n + m) : apiText'[i].in = b /\ apiText'[i].kind = k}
  BY <1>1, <1>2 DEF Entries
<1> QED BY <1>2, <1>3, <1>4

\* A line of another block or kind changes nothing of what a block says.
LEMMA SaysTheSame ==
  ASSUME ApiInv, NEW m \in Nat, NEW kind, Adds(m, kind), NEW b, NEW k,
         b # apiBlock \/ k # kind
  PROVE  \A d, v : LastSays(b, k, d, v)' <=> LastSays(b, k, d, v)
<1>1. PICK n \in Nat : n = Len(apiText)
  BY ApiParts
<1>2. Entries(b, k)' = Entries(b, k) /\ Entries(b, k) \subseteq 1..n
  BY <1>1, EntriesGrow
<1>3. \A i \in 1..n : apiText'[i] = apiText[i]
  BY <1>1 DEF Adds
<1> QED BY <1>2, <1>3 DEF LastSays

\* A line of its own has the last word.
LEMMA SaysTheLast ==
  ASSUME ApiInv, NEW kind, Adds(1, kind), NEW b, b = apiBlock, NEW d, NEW v,
         v = apiText'[Len(apiText) + 1].value
  PROVE  LastSays(b, kind, d, v)'
<1>1. PICK n \in Nat : n = Len(apiText)
  BY ApiParts
<1>2. Entries(b, kind)' = Entries(b, kind) \cup {n + 1} /\ Entries(b, kind) \subseteq 1..n
  <2>1. (n + 1)..(n + 1) = {n + 1}
    OBVIOUS
  <2> QED BY <1>1, <2>1, EntriesGrow
<1>3. n + 1 \in Entries(b, kind)' /\ apiText'[n + 1].value = v
      /\ \A j \in Entries(b, kind)' : j <= n + 1
  BY <1>1, <1>2
<1> QED BY <1>3 DEF LastSays

\* What there is no block of yet says nothing.
LEMMA NothingInNewBlocks ==
  ASSUME ApiInv
  PROVE  \A k : /\ \A e \in Nat : e > Len(endpoints) => Entries(<<"endpoint", e>>, k) = {}
                /\ \A t \in Nat : t > Len(apiTypes) => Entries(<<"type", t>>, k) = {}
<1>1. DOMAIN apiText = 1..Len(apiText) /\ Len(endpoints) \in Nat /\ Len(apiTypes) \in Nat
  BY ApiParts
<1>2. \A i \in DOMAIN apiText :
        /\ \A e \in Nat : apiText[i].in = <<"endpoint", e>> => ~(e > Len(endpoints))
        /\ \A t \in Nat : apiText[i].in = <<"type", t>> => ~(t > Len(apiTypes))
  BY <1>1 DEF ApiInv, EntriesFit
<1> QED BY <1>2 DEF Entries

-----------------------------------------------------------------------------
(* Lists that take what there is room for. *)

LEMMA Joined ==
  ASSUME NEW S, NEW s \in Seq(S), NEW t \in Seq(S), NEW r, r = s \o t
  PROVE  /\ r \in Seq(S) /\ Len(r) = Len(s) + Len(t)
         /\ \A i \in 1..Len(s) : r[i] = s[i]
         /\ \A i \in 1..Len(t) : r[Len(s) + i] = t[i]
OBVIOUS

LEMMA FirstOfIs ==
  ASSUME NEW S, NEW s \in Seq(S), NEW n \in Nat
  PROVE  /\ FirstOf(n, s) \in Seq(S)
         /\ Len(FirstOf(n, s)) = IF n < Len(s) THEN n ELSE Len(s)
         /\ \A i \in 1..Len(FirstOf(n, s)) : FirstOf(n, s)[i] = s[i]
<1>1. PICK k \in Nat : k = (IF n < Len(s) THEN n ELSE Len(s)) /\ k <= Len(s)
  OBVIOUS
<1>2. FirstOf(n, s) = SubSeq(s, 1, k)
  BY <1>1 DEF FirstOf
<1>3. SubSeq(s, 1, k) \in Seq(S) /\ Len(SubSeq(s, 1, k)) = k
      /\ \A i \in 1..k : SubSeq(s, 1, k)[i] = s[i]
  BY <1>1
<1> QED BY <1>1, <1>2, <1>3

\* A list that has the first of the entries up to n takes from those after it.
LEMMA FirstOfTakes ==
  ASSUME NEW list \in Seq(Nat), NEW n \in Nat, NEW m \in Nat, NEW limit \in Nat,
         NEW entries \in SUBSET (1..n), IsFirstOf(list, entries, limit), Len(list) <= limit,
         NEW new \in Seq(Nat),
         Len(new) = IF limit < Len(list) + m THEN limit ELSE Len(list) + m,
         \A i \in 1..Len(new) : new[i] = IF i <= Len(list) THEN list[i] ELSE n + (i - Len(list))
  PROVE  IsFirstOf(new, entries \cup (n + 1)..(n + m), limit)
<1>1. PICK k \in Nat, l \in Nat : k = Len(list) /\ l = Len(new) /\ k <= l /\ l <= k + m
  OBVIOUS
<1>2. DOMAIN list = 1..k /\ DOMAIN new = 1..l
  BY <1>1
<1>3. /\ \A i \in 1..k : new[i] = list[i] /\ list[i] \in entries /\ list[i] \in 1..n
      /\ \A i \in (k + 1)..l : new[i] = n + (i - k)
      /\ 1..k \subseteq 1..l
  <2>1. \A i \in 1..k : list[i] \in ToSet(list)
    BY <1>2 DEF ToSet
  <2>2. \A i \in 1..k : list[i] \in entries /\ list[i] \in 1..n
    BY <2>1 DEF IsFirstOf
  <2>3. 1..k \subseteq 1..l /\ (k + 1)..l \subseteq 1..l
    BY <1>1
  <2>4. \A i \in 1..k : i <= k
    OBVIOUS
  <2>5. \A i \in (k + 1)..l : ~(i <= k)
    OBVIOUS
  <2>6. \A i \in 1..l : new[i] = IF i <= k THEN list[i] ELSE n + (i - k)
    BY <1>1
  <2> QED BY <2>2, <2>3, <2>4, <2>5, <2>6
<1>4. \A i \in 1..l : i \in 1..k \/ i \in (k + 1)..l
  BY <1>1
<1>5. ASSUME NEW i \in 1..l, NEW j \in 1..l, i < j PROVE new[i] < new[j]
  <2>1. CASE i \in 1..k /\ j \in 1..k
    BY <1>2, <1>3, <1>5, <2>1 DEF IsFirstOf
  <2>2. CASE i \in 1..k /\ j \in (k + 1)..l
    <3>1. new[i] \in 1..n /\ new[j] = n + (j - k)
      BY <1>3, <2>2
    <3>2. j - k \in Nat /\ j - k >= 1
      BY <2>2
    <3>3. PICK d \in Nat : d = j - k /\ d >= 1
      BY <3>2
    <3> QED BY <3>1, <3>3
  <2>3. CASE i \in (k + 1)..l /\ j \in (k + 1)..l
    BY <1>3, <1>5, <2>3
  <2>4. ~(i \in (k + 1)..l /\ j \in 1..k)
    BY <1>5
  <2> QED BY <1>4, <2>1, <2>2, <2>3, <2>4
<1>6. ToSet(new) \subseteq entries \cup (n + 1)..(n + m)
  <2>1. \A i \in (k + 1)..l : n + (i - k) \in (n + 1)..(n + m)
    BY <1>1
  <2>2. \A i \in 1..l : new[i] \in entries \cup (n + 1)..(n + m)
    BY <1>3, <1>4, <2>1
  <2> QED BY <1>2, <2>2 DEF ToSet
<1>7. ASSUME NEW x \in entries \cup (n + 1)..(n + m), x \notin ToSet(new)
      PROVE  l = limit /\ \A i \in 1..l : new[i] < x
  <2>1. \A i \in 1..l : new[i] # x
    BY <1>2, <1>7 DEF ToSet
  <2>2. CASE x \in entries
    <3>1. x \notin ToSet(list)
      <4>1. \A i \in 1..k : list[i] # x
        BY <1>3, <2>1
      <4> QED BY <1>2, <4>1 DEF ToSet
    <3>2. k = limit /\ \A i \in 1..k : list[i] < x
      BY <1>1, <1>2, <2>2, <3>1 DEF IsFirstOf
    <3>3. l = k
      BY <1>1, <3>2
    <3> QED BY <1>3, <3>2, <3>3
  <2>3. CASE x \in (n + 1)..(n + m)
    <3>1. PICK d \in 1..m : x = n + d
      <4>1. x - n \in 1..m /\ x = n + (x - n)
        BY <2>3
      <4> QED BY <4>1
    <3>2. ~(k + d <= l)
      <4> SUFFICES ASSUME k + d <= l PROVE FALSE
        OBVIOUS
      <4>1. PICK i \in (k + 1)..l : i = k + d /\ i \in 1..l /\ n + (i - k) = n + d
        BY <1>1
      <4>2. new[i] = n + d
        BY <1>3, <4>1
      <4> QED BY <2>1, <3>1, <4>1, <4>2
    <3>3. l = limit
      BY <1>1, <3>2
    <3>4. \A i \in (k + 1)..l : n + (i - k) < n + d
      BY <1>1, <3>2
    <3>5. \A i \in 1..k : list[i] < n + d
      BY <1>3
    <3> QED BY <1>3, <1>4, <3>1, <3>3, <3>4, <3>5
  <2> QED BY <2>2, <2>3
<1> QED BY <1>1, <1>2, <1>5, <1>6, <1>7 DEF IsFirstOf

\* The same of a list that takes one entry if there is room.
LEMMA AppendTakes ==
  ASSUME NEW list \in Seq(Nat), NEW n \in Nat, NEW limit \in Nat,
         NEW entries \in SUBSET (1..n), IsFirstOf(list, entries, limit), Len(list) <= limit,
         NEW new, new = IF Len(list) < limit THEN Append(list, n + 1) ELSE list
  PROVE  /\ new \in Seq(Nat) /\ Len(new) <= limit
         /\ IsFirstOf(new, entries \cup {n + 1}, limit)
<1>1. PICK k \in Nat : k = Len(list) /\ k <= limit
  OBVIOUS
<1>2. /\ Append(list, n + 1) \in Seq(Nat) /\ Len(Append(list, n + 1)) = k + 1
      /\ \A i \in 1..k : Append(list, n + 1)[i] = list[i]
      /\ Append(list, n + 1)[k + 1] = n + 1
  BY <1>1, Appended
<1>3. new \in Seq(Nat) /\ Len(new) = (IF limit < k + 1 THEN limit ELSE k + 1)
  <2>1. CASE k < limit
    BY <1>1, <1>2, <2>1
  <2>2. CASE ~(k < limit)
    BY <1>1, <2>2
  <2> QED BY <2>1, <2>2
<1>4. \A i \in 1..Len(new) : new[i] = IF i <= k THEN list[i] ELSE n + (i - k)
  <2>1. CASE k < limit
    <3>1. \A i \in 1..(k + 1) : (i <= k /\ i \in 1..k) \/ (i = k + 1 /\ ~(i <= k) /\ n + (i - k) = n + 1)
      OBVIOUS
    <3>2. new = Append(list, n + 1) /\ Len(new) = k + 1
      BY <1>1, <1>2, <2>1
    <3> QED BY <1>2, <3>1, <3>2
  <2>2. CASE ~(k < limit)
    <3>1. new = list
      BY <1>1, <2>2
    <3>2. \A i \in 1..k : i <= k
      OBVIOUS
    <3> QED BY <1>1, <3>1, <3>2
  <2> QED BY <2>1, <2>2
<1>5. (n + 1)..(n + 1) = {n + 1}
  OBVIOUS
<1>6. IsFirstOf(new, entries \cup (n + 1)..(n + 1), limit)
  BY <1>1, <1>3, <1>4, FirstOfTakes
<1> QED BY <1>1, <1>3, <1>5, <1>6

-----------------------------------------------------------------------------
(* Reading. *)

LEMMA WritingAdds ==
  ASSUME ApiInv, NEW kind \in ApiKinds, NEW value \in ApiValues, Writing(kind, value)
  PROVE  /\ Adds(1, kind) /\ apiText'[Len(apiText) + 1].value = value /\ Reading
<1> DEFINE entry == [in |-> apiBlock, kind |-> kind, value |-> value]
<1>1. /\ entry \in ApiEntry /\ entry.in = apiBlock /\ entry.kind = kind /\ entry.value = value
      /\ apiText' = Append(apiText, entry) /\ Reading
  BY ApiParts DEF ApiEntry, Writing
<1> HIDE DEF entry
<1>2. PICK n \in Nat : n = Len(apiText) /\ apiText \in Seq(ApiEntry)
  BY ApiParts
<1>3. /\ apiText' \in Seq(ApiEntry) /\ Len(apiText') = n + 1
      /\ \A i \in 1..n : apiText'[i] = apiText[i]
      /\ apiText'[n + 1] = entry
  BY <1>1, <1>2, Appended
<1>4. \A i \in (n + 1)..(n + 1) : i = n + 1
  OBVIOUS
<1> QED BY <1>1, <1>2, <1>3, <1>4 DEF Adds

LEMMA ErrorTablesStay ==
  ASSUME TablesMatch, UNCHANGED <<errorEnum, errorStrings>>
  PROVE  TablesMatch'
<1>1. \A n : Repeats(n)' <=> Repeats(n)
  BY DEF Repeats
<1>2. \A e, f : StandsFirst(e, f)' <=> StandsFirst(e, f)
  BY <1>1 DEF StandsFirst
<1>3. Room' <=> Room
  BY DEF Room
<1> QED BY <1>1, <1>2, <1>3 DEF TablesMatch

\* While the file is read the tables of errors stay as they are, and nothing is answered.
LEMMA ReadingKeeps ==
  ASSUME ApiInv, Reading, apiPhase' \in {"spec", "refused"}, Len(endpoints') \in Nat
  PROVE  ErrorsFit' /\ TablesMatch' /\ AnswerFits' /\ AnswersWait'
<1>1. apiPhase = "spec" /\ UNCHANGED <<errorAt, errorEnum, errorStrings, answer>>
  BY DEF Reading, errorVars
<1>2. errorAt = <<1, 1>> /\ answer = NoAnswer
  BY <1>1 DEF ApiInv, ErrorsFit, AnswersWait
<1>3. ErrorsFit'
  <2>1. errorAt'[1] = 1 /\ errorAt'[2] = 1 /\ errorAt' = <<1, 1>>
    BY <1>1, <1>2
  <2>2. \A e, i \in Nat : e >= 1 /\ i >= 1 => ~IsPast(e, i)'
    BY <2>1 DEF IsPast
  <2>3. \A e \in 1..Len(endpoints') : \A i \in 1..Len(endpoints'[e].errors) : ~IsPast(e, i)'
    <3>1. \A e \in 1..Len(endpoints') : \A i \in 1..Len(endpoints'[e].errors) :
            e \in Nat /\ i \in Nat /\ e >= 1 /\ i >= 1
      OBVIOUS
    <3> QED BY <2>2, <3>1
  <2>4. errorEnum \in Seq(Codes) /\ errorStrings \in Seq(Codes) /\ errorAt \in Nat \X Nat
    BY DEF ApiInv, ErrorsFit
  <2>5. errorEnum' \in Seq(Codes) /\ errorStrings' \in Seq(Codes) /\ errorAt' \in Nat \X Nat
    BY <1>1, <2>4
  <2>6. errorAt'[1] > 0 /\ errorAt'[2] > 0
    BY <2>1
  <2>7. apiPhase' # "serving"
    OBVIOUS
  <2>8. \A e \in 1..Len(endpoints') : \A i \in 1..Len(endpoints'[e].errors) :
          IsPast(e, i)' /\ Room' => CodeOf(endpoints[e].errors[i])' \in ToSet(errorEnum')
    BY <2>3
  <2> QED BY <2>1, <2>5, <2>6, <2>7, <2>8 DEF ErrorsFit
<1>4. TablesMatch'
  BY <1>1, ErrorTablesStay DEF ApiInv
<1>5. AnswerFits' /\ AnswersWait'
  <2>1. answer' = NoAnswer /\ answer'.by = 0 /\ answer'.path = NoPath
    BY <1>1, <1>2 DEF NoAnswer, Answer404
  <2> QED BY <2>1 DEF AnswerFits, AnswersWait, Answer404
<1> QED BY <1>3, <1>4, <1>5

LEMMA BlockOfAuthor ==
  ASSUME ApiInv
  PROVE  \A n \in Nat : /\ apiBlock = <<"endpoint", n>> => n = Len(endpoints) /\ apiCur = "endpoint"
                        /\ apiBlock = <<"type", n>> => n = Len(apiTypes) /\ apiCur = "type"
BY ApiParts DEF ApiInv, ApiBlockFits, Top

LEMMA EntriesStayFit ==
  ASSUME ApiInv, NEW m \in Nat, NEW kind, Adds(m, kind),
         Len(endpoints') \in Nat, Len(endpoints') >= Len(endpoints),
         Len(apiTypes') \in Nat, Len(apiTypes') >= Len(apiTypes),
         kind = "error" =>
           \A i \in (Len(apiText) + 1)..(Len(apiText) + m) : apiText'[i].value \in ErrorNames
  PROVE  EntriesFit'
<1>1. PICK n \in Nat, k \in Nat, l \in Nat :
        n = Len(apiText) /\ k = Len(endpoints) /\ l = Len(apiTypes)
  BY ApiParts
<1>2. /\ Len(apiText') = n + m /\ \A i \in 1..n : apiText'[i] = apiText[i]
      /\ \A i \in (n + 1)..(n + m) : apiText'[i].in = apiBlock /\ apiText'[i].kind = kind
  BY <1>1 DEF Adds
<1>3. \A i \in 1..(n + m) : i \in 1..n \/ i \in (n + 1)..(n + m)
  OBVIOUS
<1>4. \A e \in Nat : (e <= k => e <= Len(endpoints')) /\ (e <= l => e <= Len(apiTypes'))
  BY <1>1
<1>5. ASSUME NEW i \in 1..n
      PROVE  /\ \A e \in Nat : apiText'[i].in = <<"endpoint", e>> => e <= k
             /\ \A t \in Nat : apiText'[i].in = <<"type", t>> => t <= l
             /\ apiText'[i].kind = "error" => apiText'[i].value \in ErrorNames
  BY <1>1, <1>2, <1>5 DEF ApiInv, EntriesFit
<1>6. ASSUME NEW i \in (n + 1)..(n + m)
      PROVE  /\ \A e \in Nat : apiText'[i].in = <<"endpoint", e>> => e <= k
             /\ \A t \in Nat : apiText'[i].in = <<"type", t>> => t <= l
             /\ apiText'[i].kind = "error" => apiText'[i].value \in ErrorNames
  <2>1. apiText'[i].in = apiBlock /\ apiText'[i].kind = kind
    BY <1>2
  <2>2. k <= k /\ l <= l
    OBVIOUS
  <2> QED BY <1>1, <2>1, <2>2, BlockOfAuthor
<1> QED BY <1>2, <1>3, <1>4, <1>5, <1>6 DEF EntriesFit

\* An endpoint of which the line says nothing.
LEMMA EndpointStaysSaid ==
  ASSUME ApiInv, NEW m \in Nat, NEW kind, Adds(m, kind),
         NEW e \in 1..Len(endpoints), endpoints'[e] = endpoints[e],
         apiBlock # <<"endpoint", e>> \/ kind \notin {"method", "path", "error"}
  PROVE  EndpointIsSaid(e)'
<1>1. PICK n \in Nat : n = Len(apiText)
  BY ApiParts
<1>2. PICK b : b = <<"endpoint", e>>
  OBVIOUS
<1>3. EndpointIsSaid(e)
  BY DEF ApiInv, BlocksAreSaid
<1>4. \A d, v : /\ LastSays(b, "method", d, v)' <=> LastSays(b, "method", d, v)
                /\ LastSays(b, "path", d, v)' <=> LastSays(b, "path", d, v)
  BY <1>2, SaysTheSame
<1>5. Entries(b, "error")' = Entries(b, "error")
  BY <1>1, <1>2, EntriesGrow
<1>6. PICK ep : ep = endpoints[e] /\ ep = endpoints'[e]
  OBVIOUS
<1>7. /\ LastSays(b, "method", Get, ep.method) /\ LastSays(b, "path", NoPath, ep.path)
      /\ IsFirstOf(ep.errors, Entries(b, "error"), MaxErrors)
  BY <1>2, <1>3, <1>6 DEF EndpointIsSaid
<1>8. /\ LastSays(b, "method", Get, ep.method)' /\ LastSays(b, "path", NoPath, ep.path)'
      /\ IsFirstOf(ep.errors, Entries(b, "error"), MaxErrors)'
  BY <1>4, <1>5, <1>7 DEF IsFirstOf
<1> QED BY <1>2, <1>6, <1>8 DEF EndpointIsSaid

LEMMA FieldEntriesSame ==
  ASSUME ApiInv, NEW m \in Nat, NEW kind, Adds(m, kind), NEW t \in Nat,
         apiBlock # <<"type", t>> \/ kind # "field"
  PROVE  FieldEntries(t)' = FieldEntries(t)
<1>1. PICK n \in Nat : n = Len(apiText)
  BY ApiParts
<1>2. /\ Entries(<<"type", t>>, "field")' = Entries(<<"type", t>>, "field")
      /\ Entries(<<"type", t>>, "field") \subseteq 1..n
  BY <1>1, EntriesGrow
<1>3. \A i \in 1..n : apiText'[i] = apiText[i]
  BY <1>1 DEF Adds
<1> QED BY <1>2, <1>3 DEF FieldEntries

LEMMA TypeStaysSaid ==
  ASSUME ApiInv, NEW m \in Nat, NEW kind, Adds(m, kind),
         NEW t \in 1..Len(apiTypes), apiTypes'[t] = apiTypes[t],
         t \in apiOnLine' <=> t \in apiOnLine,
         apiBlock # <<"type", t>> \/ kind # "field"
  PROVE  TypeIsSaid(t)'
<1>1. FieldEntries(t)' = FieldEntries(t)
  BY FieldEntriesSame
<1>2. TypeIsSaid(t)
  BY DEF ApiInv, BlocksAreSaid
<1>3. PICK n \in Nat : n = Len(apiText)
  BY ApiParts
<1>4. \A i \in 1..n : i \in 1..Len(apiText') /\ apiText'[i] = apiText[i]
  <2>1. Len(apiText') = n + m /\ \A i \in 1..n : apiText'[i] = apiText[i]
    BY <1>3 DEF Adds
  <2> QED BY <2>1
<1>5. CASE t \in apiOnLine
  <2>1. ToSet(apiTypes'[t]) = ToSet(apiTypes[t])
    BY DEF ToSet
  <2>2. \A i \in ToSet(apiTypes[t]) : i \in 1..n /\ apiText[i].in = Top
    BY <1>2, <1>3, <1>5 DEF TypeIsSaid
  <2> QED BY <1>4, <1>5, <2>1, <2>2 DEF TypeIsSaid
<1>6. CASE t \notin apiOnLine
  BY <1>1, <1>2, <1>6 DEF TypeIsSaid, IsFirstOf
<1> QED BY <1>5, <1>6

\* A new endpoint and a new type, of which nothing is said.
LEMMA NothingSaidOfNew ==
  ASSUME ApiInv, NEW m \in Nat, NEW kind, Adds(m, kind), kind \in {"endpoint", "type"},
         NEW e \in Nat, e > Len(endpoints), NEW t \in Nat, t > Len(apiTypes)
  PROVE  /\ \A k \in {"method", "path", "error"} : Entries(<<"endpoint", e>>, k)' = {}
         /\ FieldEntries(t)' = {}
<1>1. PICK n \in Nat : n = Len(apiText)
  BY ApiParts
<1>2. \A k \in {"method", "path", "error"} : Entries(<<"endpoint", e>>, k)' = {}
  <2> SUFFICES ASSUME NEW k \in {"method", "path", "error"}
               PROVE  Entries(<<"endpoint", e>>, k)' = {}
    OBVIOUS
  <2>1. k # kind /\ Entries(<<"endpoint", e>>, k) = {}
    BY NothingInNewBlocks
  <2> QED BY <1>1, <2>1, EntriesGrow
<1>3. Entries(<<"type", t>>, "field")' = {}
  <2>1. "field" # kind /\ Entries(<<"type", t>>, "field") = {}
    BY NothingInNewBlocks
  <2> QED BY <1>1, <2>1, EntriesGrow
<1> QED BY <1>2, <1>3 DEF FieldEntries

LEMMA VersionFollows ==
  ASSUME ApiInv, NEW m \in Nat, NEW kind, Adds(m, kind), apiVersion' \in BOOLEAN,
         \/ /\ kind = "version" /\ m = 1 /\ apiVersion'
         \/ /\ kind = "field" /\ m = 1 /\ apiText'[Len(apiText) + 1].value = "version"
            /\ ~apiVersion'
         \/ /\ kind = "field" /\ m = 1 /\ apiText'[Len(apiText) + 1].value # "version"
            /\ apiVersion' = apiVersion
         \/ kind \notin {"field", "version"} /\ apiVersion' = apiVersion
  PROVE  VersionIsSaid'
<1> DEFINE Ends(text, n, j) == ~(text[j].kind = "field" /\ text[j].value = "version")
           Stands(text, n, i) == /\ text[i].kind = "version"
                                 /\ \A j \in (i + 1)..n : Ends(text, n, j)
<1>1. PICK n \in Nat : n = Len(apiText) /\ DOMAIN apiText = 1..n
  BY ApiParts
<1>2. /\ Len(apiText') = n + m /\ DOMAIN apiText' = 1..(n + m)
      /\ \A i \in 1..n : apiText'[i] = apiText[i]
      /\ \A i \in (n + 1)..(n + m) : apiText'[i].kind = kind
  BY <1>1 DEF Adds
<1>3. apiVersion <=> \E i \in 1..n : Stands(apiText, n, i)
  BY <1>1 DEF ApiInv, BlocksAreSaid, VersionIsSaid
<1>4. SUFFICES apiVersion' <=> \E i \in 1..(n + m) : Stands(apiText', n + m, i)
  BY <1>2 DEF VersionIsSaid
<1>5. /\ \A i \in 1..(n + m) : i \in 1..n \/ i \in (n + 1)..(n + m)
      /\ \A i \in 1..n : i \in 1..(n + m)
      /\ \A i \in 1..n : \A j \in (i + 1)..(n + m) : j \in (i + 1)..n \/ j \in (n + 1)..(n + m)
      /\ \A i \in 1..n : \A j \in (i + 1)..n : j \in (i + 1)..(n + m) /\ j \in 1..n
  OBVIOUS
<1>6. CASE kind = "version" /\ m = 1 /\ apiVersion'
  <2>1. n + 1 \in 1..(n + 1) /\ apiText'[n + 1].kind = "version"
    BY <1>2, <1>6
  <2>2. \A j \in (n + 1 + 1)..(n + 1) : FALSE
    OBVIOUS
  <2> QED BY <1>6, <2>1, <2>2
<1>7. CASE /\ kind = "field" /\ m = 1 /\ apiText'[n + 1].value = "version" /\ ~apiVersion'
  <2>1. ~Ends(apiText', n + 1, n + 1)
    BY <1>2, <1>7
  <2>2. \A i \in 1..n : n + 1 \in (i + 1)..(n + 1)
    OBVIOUS
  <2>3. apiText'[n + 1].kind # "version"
    BY <1>2, <1>7
  <2>4. \A i \in 1..(n + 1) : i \in 1..n \/ i = n + 1
    OBVIOUS
  <2> QED BY <1>7, <2>1, <2>2, <2>3, <2>4
<1>8. CASE /\ apiVersion' = apiVersion /\ kind # "version"
           /\ \A j \in (n + 1)..(n + m) : Ends(apiText', n + m, j)
  <2>1. \A i \in (n + 1)..(n + m) : ~Stands(apiText', n + m, i)
    BY <1>2, <1>8
  <2>2. \A i \in 1..n : Stands(apiText', n + m, i) <=> Stands(apiText, n, i)
    <3> SUFFICES ASSUME NEW i \in 1..n
                 PROVE  Stands(apiText', n + m, i) <=> Stands(apiText, n, i)
      OBVIOUS
    <3>1. apiText'[i].kind = apiText[i].kind
      BY <1>2
    <3>2. ASSUME \A j \in (i + 1)..n : Ends(apiText, n, j), NEW j \in (i + 1)..(n + m)
          PROVE  Ends(apiText', n + m, j)
      BY <1>2, <1>5, <1>8, <3>2
    <3>3. ASSUME \A j \in (i + 1)..(n + m) : Ends(apiText', n + m, j), NEW j \in (i + 1)..n
          PROVE  Ends(apiText, n, j)
      BY <1>2, <1>5, <3>3
    <3> QED BY <3>1, <3>2, <3>3
  <2> HIDE DEF Stands
  <2> QED BY <1>3, <1>5, <1>8, <2>1, <2>2
<1>9. \/ kind = "version" /\ m = 1 /\ apiVersion'
      \/ kind = "field" /\ m = 1 /\ apiText'[n + 1].value = "version" /\ ~apiVersion'
      \/ /\ apiVersion' = apiVersion /\ kind # "version"
         /\ \A j \in (n + 1)..(n + m) : Ends(apiText', n + m, j)
  <2>1. CASE kind \notin {"field", "version"} /\ apiVersion' = apiVersion
    BY <1>2, <2>1
  <2>2. CASE /\ kind = "field" /\ m = 1 /\ apiText'[n + 1].value # "version"
             /\ apiVersion' = apiVersion
    <3>1. \A j \in (n + 1)..(n + 1) : j = n + 1
      OBVIOUS
    <3> QED BY <2>2, <3>1
  <2> QED BY <1>1, <2>1, <2>2
<1> QED BY <1>6, <1>7, <1>8, <1>9

\* A line that keeps what is said of every block keeps the invariant.
LEMMA ReadStep ==
  ASSUME ApiInv, NEW m \in Nat, NEW kind, Adds(m, kind), Reading,
         apiPhase' \in {"spec", "refused"}, ApiTyped', ApiBlockFits',
         Len(endpoints') >= Len(endpoints), Len(apiTypes') >= Len(apiTypes),
         kind = "error" =>
           \A i \in (Len(apiText) + 1)..(Len(apiText) + m) : apiText'[i].value \in ErrorNames,
         \A e \in 1..Len(endpoints') : EndpointIsSaid(e)',
         \A t \in 1..Len(apiTypes') : TypeIsSaid(t)',
         VersionIsSaid'
  PROVE  ApiInv'
<1>1. Len(endpoints') \in Nat /\ Len(apiTypes') \in Nat
  <2>1. endpoints' \in Seq(Endpoint) /\ apiTypes' \in Seq(Seq(Nat))
    BY DEF ApiTyped
  <2> QED BY <2>1
<1>2. EntriesFit'
  BY <1>1, EntriesStayFit
<1>3. ErrorsFit' /\ TablesMatch' /\ AnswerFits' /\ AnswersWait'
  BY <1>1, ReadingKeeps
<1> QED BY <1>2, <1>3 DEF ApiInv, BlocksAreSaid
-----------------------------------------------------------------------------
(* The lines. *)

LEMMA EntriesSame ==
  ASSUME ApiInv, NEW m \in Nat, NEW kind, Adds(m, kind), NEW b, NEW k, k # kind
  PROVE  Entries(b, k)' = Entries(b, k)
<1>1. PICK n \in Nat : n = Len(apiText)
  BY ApiParts
<1> QED BY <1>1, EntriesGrow

LEMMA InEndpoint ==
  ASSUME ApiInv, apiBlock[1] = "endpoint"
  PROVE  /\ apiBlock = <<"endpoint", Len(endpoints)>> /\ apiCur = "endpoint"
         /\ Len(endpoints) \in 1..Len(endpoints)
         /\ endpoints[Len(endpoints)] \in Endpoint
         /\ Len(endpoints[Len(endpoints)].errors) <= MaxErrors
         /\ EndpointIsSaid(Len(endpoints))
<1>1. Top[1] # "endpoint" /\ <<"type", Len(apiTypes)>>[1] # "endpoint"
  BY DEF Top
<1>2. apiBlock = <<"endpoint", Len(endpoints)>> /\ Len(endpoints) > 0 /\ apiCur = "endpoint"
  BY <1>1 DEF ApiInv, ApiBlockFits
<1>3. Len(endpoints) \in 1..Len(endpoints)
  BY <1>2, ApiParts
<1> QED BY <1>2, <1>3, ApiParts DEF ApiInv, ApiTyped, BlocksAreSaid

LEMMA InType ==
  ASSUME ApiInv, apiBlock[1] = "type"
  PROVE  /\ apiBlock = <<"type", Len(apiTypes)>> /\ apiCur = "type"
         /\ Len(apiTypes) \in 1..Len(apiTypes)
         /\ apiTypes[Len(apiTypes)] \in Seq(Nat)
         /\ Len(apiTypes[Len(apiTypes)]) <= MaxFields
         /\ TypeIsSaid(Len(apiTypes)) /\ Len(apiTypes) \notin apiOnLine
<1>1. Top[1] # "type" /\ <<"endpoint", Len(endpoints)>>[1] # "type"
  BY DEF Top
<1>2. /\ apiBlock = <<"type", Len(apiTypes)>> /\ Len(apiTypes) > 0 /\ apiCur = "type"
      /\ Len(apiTypes) \notin apiOnLine
  BY <1>1 DEF ApiInv, ApiBlockFits
<1>3. Len(apiTypes) \in 1..Len(apiTypes)
  BY <1>2, ApiParts
<1> QED BY <1>2, <1>3, ApiParts DEF ApiInv, ApiTyped, BlocksAreSaid

LEMMA EndpointParts ==
  ASSUME NEW ep \in Endpoint
  PROVE  ep.method \in Methods /\ ep.path \in Paths \cup {NoPath} /\ ep.errors \in Seq(Nat)
BY DEF Endpoint

\* What the lines of one kind add to the endpoint, when it is then as they say.
LEMMA EndpointSays ==
  ASSUME ApiInv, NEW kind \in {"method", "path", "error"}, NEW m \in Nat, Adds(m, kind),
         Reading, UNCHANGED <<apiTypes, apiVersion, apiOnLine, apiCur, apiBlock, apiPhase>>,
         apiBlock[1] = "endpoint",
         kind = "error" =>
           \A i \in (Len(apiText) + 1)..(Len(apiText) + m) : apiText'[i].value \in ErrorNames,
         NEW ep \in Endpoint, Len(ep.errors) <= MaxErrors,
         NEW n, n = Len(endpoints), endpoints' = [endpoints EXCEPT ![n] = ep], EndpointIsSaid(n)'
  PROVE  ApiInv'
<1>1. n \in Nat /\ n \in 1..n
  BY ApiParts, InEndpoint
<1>2. /\ endpoints' \in Seq(Endpoint) /\ Len(endpoints') = n /\ endpoints'[n] = ep
      /\ \A e \in 1..n : e # n => endpoints'[e] = endpoints[e]
  BY <1>1, ApiParts, ReplacedAt
<1>3. apiBlock = <<"endpoint", n>> /\ apiCur = "endpoint"
  BY <1>1, InEndpoint
<1>4. ApiTyped'
  <2>1. apiText' \in Seq(ApiEntry)
    BY DEF Adds
  <2>2. \A e \in 1..n : Len(endpoints'[e].errors) <= MaxErrors
    BY <1>1, <1>2 DEF ApiInv, ApiTyped
  <2> QED BY <1>1, <1>2, <2>1, <2>2 DEF ApiInv, ApiTyped
<1>5. ApiBlockFits'
  BY <1>1, <1>2, <1>3 DEF ApiBlockFits
<1>6. \A e \in 1..n : EndpointIsSaid(e)'
  <2> SUFFICES ASSUME NEW e \in 1..n, e # n PROVE EndpointIsSaid(e)'
    BY <1>1
  <2>1. apiBlock # <<"endpoint", e>>
    BY <1>3
  <2> QED BY <1>1, <1>2, <2>1, EndpointStaysSaid
<1>7. \A t \in 1..Len(apiTypes') : TypeIsSaid(t)'
  BY TypeStaysSaid
<1>8. VersionIsSaid'
  <2>1. apiVersion' \in BOOLEAN /\ apiVersion' = apiVersion /\ kind \notin {"field", "version"}
    BY DEF ApiInv, ApiTyped
  <2> QED BY <2>1, VersionFollows
<1>9. apiPhase' \in {"spec", "refused"} /\ Len(endpoints') >= Len(endpoints)
      /\ Len(apiTypes') >= Len(apiTypes)
  BY <1>1, <1>2, ApiParts DEF Reading
<1> QED BY <1>1, <1>2, <1>4, <1>5, <1>6, <1>7, <1>8, <1>9, ReadStep

LEMMA MethodKeeps ==
  ASSUME ApiInv, NEW method \in Methods, MethodLine(method)
  PROVE  ApiInv'
<1>1. PICK n \in Nat : n = Len(endpoints) /\ n \in 1..Len(endpoints)
  BY ApiParts, InEndpoint DEF MethodLine
<1>2. PICK old : /\ old = endpoints[n] /\ old \in Endpoint /\ Len(old.errors) <= MaxErrors
                 /\ apiBlock = <<"endpoint", n>>
  BY <1>1, InEndpoint DEF MethodLine
<1>3. PICK ep : ep = [old EXCEPT !.method = method]
  OBVIOUS
<1>4. /\ ep \in Endpoint /\ ep.method = method /\ ep.path = old.path /\ ep.errors = old.errors
  BY <1>2, <1>3 DEF Endpoint
<1>5. endpoints' = [endpoints EXCEPT ![n] = ep]
  BY <1>1, <1>2, <1>3, InEndpoint DEF MethodLine
<1>6. Adds(1, "method") /\ apiText'[Len(apiText) + 1].value = method /\ Reading
  <2>1. method \in ApiValues /\ "method" \in ApiKinds /\ Writing("method", method)
    BY DEF ApiValues, ApiKinds, MethodLine
  <2> QED BY <2>1, WritingAdds
<1>7. PICK b : b = <<"endpoint", n>>
  OBVIOUS
<1>8. EndpointIsSaid(n)'
  <2>1. /\ LastSays(b, "path", NoPath, ep.path) /\ IsFirstOf(ep.errors, Entries(b, "error"), MaxErrors)
    BY <1>1, <1>2, <1>4, <1>7, InEndpoint DEF EndpointIsSaid, MethodLine
  <2>2. LastSays(b, "method", Get, ep.method)'
    BY <1>2, <1>4, <1>6, <1>7, SaysTheLast
  <2>3. LastSays(b, "path", NoPath, ep.path)'
    BY <1>6, <2>1, SaysTheSame
  <2>4. Entries(b, "error")' = Entries(b, "error")
    BY <1>6, EntriesSame
  <2>5. IsFirstOf(ep.errors, Entries(b, "error"), MaxErrors)'
    BY <2>1, <2>4 DEF IsFirstOf
  <2>6. endpoints'[n] = ep
    BY <1>1, <1>4, <1>5, ApiParts, ReplacedAt
  <2> QED BY <1>7, <2>2, <2>3, <2>5, <2>6 DEF EndpointIsSaid
<1>9. /\ UNCHANGED <<apiTypes, apiVersion, apiOnLine, apiCur, apiBlock, apiPhase>>
      /\ apiBlock[1] = "endpoint" /\ Len(ep.errors) <= MaxErrors
  BY <1>2, <1>4 DEF MethodLine
<1> QED BY <1>1, <1>4, <1>5, <1>6, <1>8, <1>9, EndpointSays

LEMMA PathKeeps ==
  ASSUME ApiInv, NEW path \in Paths, PathLine(path)
  PROVE  ApiInv'
<1>1. PICK n \in Nat : n = Len(endpoints) /\ n \in 1..Len(endpoints)
  BY ApiParts, InEndpoint DEF PathLine
<1>2. PICK old : /\ old = endpoints[n] /\ old \in Endpoint /\ Len(old.errors) <= MaxErrors
                 /\ apiBlock = <<"endpoint", n>>
  BY <1>1, InEndpoint DEF PathLine
<1>3. PICK ep : ep = [old EXCEPT !.path = path]
  OBVIOUS
<1>4. /\ ep \in Endpoint /\ ep.path = path /\ ep.method = old.method /\ ep.errors = old.errors
  BY <1>2, <1>3 DEF Endpoint
<1>5. endpoints' = [endpoints EXCEPT ![n] = ep]
  BY <1>1, <1>2, <1>3, InEndpoint DEF PathLine
<1>6. Adds(1, "path") /\ apiText'[Len(apiText) + 1].value = path /\ Reading
  <2>1. path \in ApiValues /\ "path" \in ApiKinds /\ Writing("path", path)
    BY DEF ApiValues, ApiKinds, PathLine
  <2> QED BY <2>1, WritingAdds
<1>7. PICK b : b = <<"endpoint", n>>
  OBVIOUS
<1>8. EndpointIsSaid(n)'
  <2>1. /\ LastSays(b, "method", Get, ep.method)
        /\ IsFirstOf(ep.errors, Entries(b, "error"), MaxErrors)
    BY <1>1, <1>2, <1>4, <1>7, InEndpoint DEF EndpointIsSaid, PathLine
  <2>2. LastSays(b, "path", NoPath, ep.path)'
    BY <1>2, <1>4, <1>6, <1>7, SaysTheLast
  <2>3. LastSays(b, "method", Get, ep.method)'
    BY <1>6, <2>1, SaysTheSame
  <2>4. Entries(b, "error")' = Entries(b, "error")
    BY <1>6, EntriesSame
  <2>5. IsFirstOf(ep.errors, Entries(b, "error"), MaxErrors)'
    BY <2>1, <2>4 DEF IsFirstOf
  <2>6. endpoints'[n] = ep
    BY <1>1, <1>4, <1>5, ApiParts, ReplacedAt
  <2> QED BY <1>7, <2>2, <2>3, <2>5, <2>6 DEF EndpointIsSaid
<1>9. /\ UNCHANGED <<apiTypes, apiVersion, apiOnLine, apiCur, apiBlock, apiPhase>>
      /\ apiBlock[1] = "endpoint" /\ Len(ep.errors) <= MaxErrors
  BY <1>2, <1>4 DEF PathLine
<1> QED BY <1>1, <1>4, <1>5, <1>6, <1>8, <1>9, EndpointSays

LEMMA ErrorsKeeps ==
  ASSUME ApiInv, NEW names \in ErrorLists, ErrorsLine(names)
  PROVE  ApiInv'
<1>1. PICK n \in Nat : n = Len(endpoints) /\ n \in 1..Len(endpoints)
  BY ApiParts, InEndpoint DEF ErrorsLine
<1>2. PICK old : /\ old = endpoints[n] /\ old \in Endpoint /\ Len(old.errors) <= MaxErrors
                 /\ apiBlock = <<"endpoint", n>>
  BY <1>1, InEndpoint DEF ErrorsLine
<1>3. PICK l \in Nat, m \in Nat, k \in Nat : l = Len(apiText) /\ m = Len(names) /\ k = Len(old.errors)
  <2>1. names \in Seq(ErrorNames) /\ old.errors \in Seq(Nat)
    BY <1>2, EndpointParts, ApiAssumption
  <2>2. Len(apiText) \in Nat /\ Len(names) \in Nat /\ Len(old.errors) \in Nat
    BY <2>1, ApiParts
  <2> QED BY <2>2
<1>4. PICK numbers : numbers = [i \in 1..m |-> l + i]
  OBVIOUS
<1>5. PICK entries : entries = [i \in 1..m |->
                                  [in |-> apiBlock, kind |-> "error", value |-> names[i]]]
  OBVIOUS
<1>6. numbers \in Seq(Nat) /\ Len(numbers) = m /\ \A i \in 1..m : numbers[i] = l + i
  BY <1>4
<1>7. /\ entries \in Seq(ApiEntry) /\ Len(entries) = m
      /\ \A i \in 1..m : /\ entries[i].in = apiBlock /\ entries[i].kind = "error"
                         /\ entries[i].value \in ErrorNames
  <2>1. \A i \in 1..m : names[i] \in ErrorNames
    BY <1>3, ApiAssumption
  <2>2. \A v \in ErrorNames : [in |-> apiBlock, kind |-> "error", value |-> v] \in ApiEntry
    <3>1. "error" \in ApiKinds /\ ErrorNames \subseteq ApiValues
      BY DEF ApiKinds, ApiValues
    <3> QED BY <3>1, ApiParts DEF ApiEntry
  <2> QED BY <1>5, <2>1, <2>2
<1>8. apiText' = apiText \o entries /\ Reading
  BY <1>3, <1>5 DEF ErrorsLine
<1>9. /\ Adds(m, "error")
      /\ \A i \in (l + 1)..(l + m) : apiText'[i].value \in ErrorNames
  <2>1. /\ apiText' \in Seq(ApiEntry) /\ Len(apiText') = l + m
        /\ \A i \in 1..l : apiText'[i] = apiText[i]
        /\ \A i \in 1..m : apiText'[l + i] = entries[i]
    <3>1. apiText \in Seq(ApiEntry)
      BY ApiParts
    <3>2. PICK text \in Seq(ApiEntry) : text = apiText
      BY <3>1
    <3>3. entries \in Seq(ApiEntry) /\ apiText' = text \o entries
      BY <1>7, <1>8, <3>2
    <3>4. /\ apiText' \in Seq(ApiEntry) /\ Len(apiText') = Len(text) + Len(entries)
          /\ \A i \in 1..Len(text) : apiText'[i] = text[i]
          /\ \A i \in 1..Len(entries) : apiText'[Len(text) + i] = entries[i]
      BY <3>3, Joined
    <3> QED BY <1>3, <1>7, <3>2, <3>4
  <2>2. \A i \in (l + 1)..(l + m) : i - l \in 1..m /\ i = l + (i - l)
    OBVIOUS
  <2>3. \A i \in (l + 1)..(l + m) : apiText'[i] = entries[i - l]
    BY <2>1, <2>2
  <2>4. \A i \in (l + 1)..(l + m) :
          /\ apiText'[i].in = apiBlock /\ apiText'[i].kind = "error"
          /\ apiText'[i].value \in ErrorNames
    BY <1>7, <2>2, <2>3
  <2> QED BY <1>3, <2>1, <2>4 DEF Adds
<1>10. PICK new : new = FirstOf(MaxErrors, old.errors \o numbers)
  OBVIOUS
<1>11. PICK ep : ep = [old EXCEPT !.errors = new]
  OBVIOUS
<1>12. /\ new \in Seq(Nat) /\ Len(new) <= MaxErrors
       /\ Len(new) = IF MaxErrors < k + m THEN MaxErrors ELSE k + m
       /\ \A i \in 1..Len(new) : new[i] = IF i <= k THEN old.errors[i] ELSE l + (i - k)
  <2>1. old.errors \in Seq(Nat) /\ MaxErrors \in Nat
    BY <1>2, EndpointParts, ApiParts
  <2>2. PICK s : s = old.errors \o numbers
    OBVIOUS
  <2>3. /\ s \in Seq(Nat) /\ Len(s) = k + m /\ \A i \in 1..k : s[i] = old.errors[i]
        /\ \A i \in 1..m : s[k + i] = l + i
    <3>1. PICK errors \in Seq(Nat) : errors = old.errors
      BY <2>1
    <3>2. numbers \in Seq(Nat) /\ s = errors \o numbers
      BY <1>6, <2>2, <3>1
    <3>3. /\ s \in Seq(Nat) /\ Len(s) = Len(errors) + Len(numbers)
          /\ \A i \in 1..Len(errors) : s[i] = errors[i]
          /\ \A i \in 1..Len(numbers) : s[Len(errors) + i] = numbers[i]
      BY <3>2, Joined
    <3> QED BY <1>3, <1>6, <3>1, <3>3
  <2>4. /\ new \in Seq(Nat) /\ Len(new) = (IF MaxErrors < k + m THEN MaxErrors ELSE k + m)
        /\ \A i \in 1..Len(new) : new[i] = s[i]
    BY <1>10, <2>1, <2>2, <2>3, FirstOfIs
  <2>5. Len(new) <= MaxErrors /\ Len(new) <= k + m /\ Len(new) \in Nat
    BY <2>1, <2>4
  <2>6. ASSUME NEW i \in 1..Len(new)
        PROVE  new[i] = IF i <= k THEN old.errors[i] ELSE l + (i - k)
    <3>1. CASE i <= k
      <4>1. i \in 1..k
        BY <3>1
      <4> QED BY <2>3, <2>4, <3>1, <4>1
    <3>2. CASE ~(i <= k)
      <4>1. i - k \in 1..m /\ i = k + (i - k)
        BY <2>5, <3>2
      <4> QED BY <2>3, <2>4, <3>2, <4>1
    <3> QED BY <3>1, <3>2
  <2> QED BY <2>4, <2>5, <2>6
<1>13. /\ ep \in Endpoint /\ ep.path = old.path /\ ep.method = old.method /\ ep.errors = new
  BY <1>2, <1>11, <1>12 DEF Endpoint
<1>14. endpoints' = [endpoints EXCEPT ![n] = ep]
  <2>1. /\ apiCur = "endpoint"
        /\ endpoints' = [endpoints EXCEPT ![n].errors = FirstOf(MaxErrors, @ \o numbers)]
    BY <1>1, <1>3, <1>4, InEndpoint DEF ErrorsLine
  <2> QED BY <1>2, <1>10, <1>11, <2>1
<1>15. PICK b : b = <<"endpoint", n>>
  OBVIOUS
<1>16. EndpointIsSaid(n)'
  <2>1. /\ LastSays(b, "method", Get, ep.method) /\ LastSays(b, "path", NoPath, ep.path)
        /\ IsFirstOf(old.errors, Entries(b, "error"), MaxErrors)
    BY <1>1, <1>2, <1>13, <1>15, InEndpoint DEF EndpointIsSaid, ErrorsLine
  <2>2. LastSays(b, "method", Get, ep.method)' /\ LastSays(b, "path", NoPath, ep.path)'
    BY <1>9, <2>1, SaysTheSame
  <2>3. /\ Entries(b, "error")' = Entries(b, "error") \cup (l + 1)..(l + m)
        /\ Entries(b, "error") \subseteq 1..l
    BY <1>2, <1>3, <1>9, <1>15, EntriesGrow
  <2>4. IsFirstOf(new, Entries(b, "error") \cup (l + 1)..(l + m), MaxErrors)
    <3>1. old.errors \in Seq(Nat) /\ MaxErrors \in Nat /\ Entries(b, "error") \in SUBSET (1..l)
      BY <1>2, <2>3, EndpointParts, ApiParts
    <3> QED BY <1>2, <1>3, <1>12, <2>1, <3>1, FirstOfTakes
  <2>5. IsFirstOf(ep.errors, Entries(b, "error"), MaxErrors)'
    BY <1>13, <2>3, <2>4 DEF IsFirstOf
  <2>6. endpoints'[n] = ep
    BY <1>1, <1>13, <1>14, ApiParts, ReplacedAt
  <2> QED BY <1>15, <2>2, <2>5, <2>6 DEF EndpointIsSaid
<1>17. Len(ep.errors) <= MaxErrors
  BY <1>12, <1>13
<1>18. /\ UNCHANGED <<apiTypes, apiVersion, apiOnLine, apiCur, apiBlock, apiPhase>>
       /\ apiBlock[1] = "endpoint"
  BY DEF ErrorsLine
<1>19. \A i \in (Len(apiText) + 1)..(Len(apiText) + m) : apiText'[i].value \in ErrorNames
  BY <1>3, <1>9
<1> QED BY <1>1, <1>8, <1>9, <1>13, <1>14, <1>16, <1>17, <1>18, <1>19, EndpointSays
\* A line that says nothing of the endpoints and the types there are.
LEMMA NothingElseSays ==
  ASSUME ApiInv, NEW m \in Nat, NEW kind, Adds(m, kind),
         kind \notin {"method", "path", "error", "field"}
  PROVE  /\ \A e \in 1..Len(endpoints) : endpoints'[e] = endpoints[e] => EndpointIsSaid(e)'
         /\ \A t \in 1..Len(apiTypes) :
              apiTypes'[t] = apiTypes[t] /\ (t \in apiOnLine' <=> t \in apiOnLine) =>
                TypeIsSaid(t)'
<1>1. kind \notin {"method", "path", "error"} /\ kind # "field"
  OBVIOUS
<1> QED BY <1>1, EndpointStaysSaid, TypeStaysSaid

LEMMA EndpointLineKeeps ==
  ASSUME ApiInv, EndpointLine
  PROVE  ApiInv'
<1>1. Adds(1, "endpoint") /\ Reading /\ apiPhase = "spec"
  <2>1. NoValue \in ApiValues /\ "endpoint" \in ApiKinds /\ Writing("endpoint", NoValue)
    BY DEF ApiValues, ApiKinds, EndpointLine
  <2> QED BY <2>1, WritingAdds DEF Reading
<1>2. UNCHANGED <<apiTypes, apiVersion, apiOnLine>> /\ apiVersion \in BOOLEAN
  BY DEF EndpointLine, ApiInv, ApiTyped
<1>3. VersionIsSaid'
  <2>1. "endpoint" \notin {"field", "version"} /\ apiVersion' = apiVersion /\ apiVersion' \in BOOLEAN
    BY <1>2
  <2> QED BY <1>1, <2>1, VersionFollows
<1>4. PICK n \in Nat : n = Len(endpoints)
  BY ApiParts
<1>5. /\ apiText' \in Seq(ApiEntry) /\ apiTypes' \in Seq(Seq(Nat)) /\ Len(apiTypes') <= MaxTypes
      /\ \A t \in 1..Len(apiTypes') : Len(apiTypes'[t]) <= MaxFields
      /\ apiVersion' \in BOOLEAN /\ Len(apiTypes') >= Len(apiTypes)
      /\ apiOnLine' \subseteq 1..Len(apiTypes')
  BY <1>1, <1>2, ApiParts DEF Adds, ApiInv, ApiTyped
<1>6. \A t \in 1..Len(apiTypes') : TypeIsSaid(t)'
  <2>1. "endpoint" \notin {"method", "path", "error", "field"}
    OBVIOUS
  <2> QED BY <1>1, <1>2, <2>1, NothingElseSays
<1>7. CASE n >= MaxEndpoints
  <2>1. apiPhase' = "refused" /\ UNCHANGED <<endpoints, apiCur, apiBlock>>
    BY <1>4, <1>7 DEF EndpointLine
  <2>2. ApiTyped' /\ ApiBlockFits'
    BY <1>2, <1>5, <2>1 DEF ApiInv, ApiTyped, ApiBlockFits
  <2>3. \A e \in 1..Len(endpoints') : EndpointIsSaid(e)'
    <3>1. "endpoint" \notin {"method", "path", "error", "field"}
      OBVIOUS
    <3> QED BY <1>1, <2>1, <3>1, NothingElseSays
  <2>4. Len(endpoints') >= Len(endpoints) /\ apiPhase' \in {"spec", "refused"}
    BY <2>1, ApiParts
  <2> QED BY <1>1, <1>3, <1>5, <1>6, <2>2, <2>3, <2>4, ReadStep
<1>8. CASE ~(n >= MaxEndpoints)
  <2>1. PICK new : new = [method |-> Get, path |-> NoPath, errors |-> <<>>]
    OBVIOUS
  <2>2. /\ new \in Endpoint /\ new.method = Get /\ new.path = NoPath /\ new.errors = <<>>
    BY <2>1, ApiAssumption DEF Endpoint
  <2>3. /\ endpoints' = Append(endpoints, new) /\ apiPhase' = "spec"
        /\ apiCur' = "endpoint" /\ apiBlock' = <<"endpoint", n + 1>>
    BY <1>1, <1>4, <1>8, <2>1 DEF EndpointLine
  <2>4. /\ endpoints' \in Seq(Endpoint) /\ Len(endpoints') = n + 1
        /\ \A e \in 1..n : endpoints'[e] = endpoints[e]
        /\ endpoints'[n + 1] = new
    BY <1>4, <2>2, <2>3, ApiParts, Appended
  <2>5. n + 1 <= MaxEndpoints
    BY <1>8, ApiParts
  <2>6. \A e \in 1..(n + 1) : e \in 1..n \/ e = n + 1
    OBVIOUS
  <2>7. \A e \in 1..(n + 1) : Len(endpoints'[e].errors) <= MaxErrors
    <3>1. \A e \in 1..n : Len(endpoints[e].errors) <= MaxErrors
      BY <1>4 DEF ApiInv, ApiTyped
    <3>2. Len(new.errors) <= MaxErrors
      BY <2>2, ApiParts
    <3> QED BY <2>4, <2>6, <3>1, <3>2
  <2>8. ApiTyped'
    BY <1>5, <2>3, <2>4, <2>5, <2>7 DEF ApiTyped
  <2>9. ApiBlockFits'
    BY <2>3, <2>4 DEF ApiBlockFits
  <2>10. EndpointIsSaid(n + 1)'
    <3>0. PICK e \in Nat : e = n + 1 /\ e > Len(endpoints)
      BY <1>4
    <3>1. PICK b : e = n + 1 /\ b = <<"endpoint", e>> /\ e > Len(endpoints)
      BY <3>0
    <3>2. \A k \in {"method", "path", "error"} : Entries(b, k)' = {}
      <4>1. Len(apiTypes) + 1 \in Nat /\ Len(apiTypes) + 1 > Len(apiTypes)
        BY ApiParts
      <4>2. "endpoint" \in {"endpoint", "type"}
        OBVIOUS
      <4> QED BY <1>1, <3>1, <4>1, <4>2, NothingSaidOfNew
    <3>3. LastSays(b, "method", Get, new.method)' /\ LastSays(b, "path", NoPath, new.path)'
      BY <2>2, <3>2 DEF LastSays
    <3>4. IsFirstOf(new.errors, Entries(b, "error"), MaxErrors)'
      <4>1. DOMAIN new.errors = {} /\ ToSet(new.errors) = {}
        BY <2>2 DEF ToSet
      <4> QED BY <3>2, <4>1 DEF IsFirstOf
    <3>5. endpoints'[e] = new
      BY <2>4, <3>1
    <3>6. EndpointIsSaid(e)'
      BY <3>1, <3>3, <3>4, <3>5 DEF EndpointIsSaid
    <3> QED BY <3>1, <3>6
  <2>11. \A e \in 1..n : EndpointIsSaid(e)'
    <3>1. "endpoint" \notin {"method", "path", "error", "field"}
      OBVIOUS
    <3> QED BY <1>1, <1>4, <2>4, <3>1, NothingElseSays
  <2>12. \A e \in 1..Len(endpoints') : EndpointIsSaid(e)'
    BY <2>4, <2>6, <2>10, <2>11
  <2>13. Len(endpoints') >= Len(endpoints) /\ apiPhase' \in {"spec", "refused"}
    BY <1>4, <2>3, <2>4
  <2> QED BY <1>1, <1>3, <1>5, <1>6, <2>8, <2>9, <2>12, <2>13, ReadStep
<1> QED BY <1>7, <1>8

\* A new type, whose block the author is then in unless it is on one line.
LEMMA NewTypeKeeps ==
  ASSUME ApiInv, NEW listed \in Fields \cup {NoValue}, NewType(listed),
         IF Len(apiTypes) >= MaxTypes THEN apiBlock' = Top /\ apiOnLine' = apiOnLine
         ELSE \/ /\ apiBlock' = <<"type", Len(apiTypes) + 1>>
                 /\ apiOnLine' = apiOnLine
              \/ /\ apiBlock' = Top
                 /\ apiOnLine' = apiOnLine \cup {Len(apiTypes) + 1}
  PROVE  ApiInv'
<1>1. Adds(1, "type") /\ Reading /\ apiPhase = "spec"
  <2>1. listed \in ApiValues /\ "type" \in ApiKinds /\ Writing("type", listed)
    BY DEF ApiValues, ApiKinds, NewType
  <2> QED BY <2>1, WritingAdds DEF Reading
<1>2. UNCHANGED <<endpoints, apiVersion>> /\ apiVersion \in BOOLEAN
  BY DEF NewType, ApiInv, ApiTyped
<1>3. VersionIsSaid'
  <2>1. "type" \notin {"field", "version"} /\ apiVersion' = apiVersion /\ apiVersion' \in BOOLEAN
    BY <1>2
  <2> QED BY <1>1, <2>1, VersionFollows
<1>4. PICK n \in Nat : n = Len(apiTypes)
  BY ApiParts
<1>5. /\ apiText' \in Seq(ApiEntry) /\ endpoints' \in Seq(Endpoint)
      /\ Len(endpoints') <= MaxEndpoints
      /\ \A e \in 1..Len(endpoints') : Len(endpoints'[e].errors) <= MaxErrors
      /\ apiVersion' \in BOOLEAN /\ Len(endpoints') >= Len(endpoints)
  BY <1>1, <1>2, ApiParts DEF Adds, ApiInv, ApiTyped
<1>6. \A e \in 1..Len(endpoints') : EndpointIsSaid(e)'
  <2>1. "type" \notin {"method", "path", "error", "field"}
    OBVIOUS
  <2> QED BY <1>1, <1>2, <2>1, NothingElseSays
<1>7. CASE n >= MaxTypes
  <2>1. apiPhase' = "refused" /\ UNCHANGED <<apiTypes, apiCur, apiBlock, apiOnLine>>
    BY <1>4, <1>7 DEF NewType
  <2>2. ApiTyped' /\ ApiBlockFits'
    BY <1>2, <1>5, <2>1 DEF ApiInv, ApiTyped, ApiBlockFits
  <2>3. \A t \in 1..Len(apiTypes') : TypeIsSaid(t)'
    <3>1. "type" \notin {"method", "path", "error", "field"}
      OBVIOUS
    <3> QED BY <1>1, <2>1, <3>1, NothingElseSays
  <2>4. Len(apiTypes') >= Len(apiTypes) /\ apiPhase' \in {"spec", "refused"}
    BY <2>1, ApiParts
  <2> QED BY <1>1, <1>3, <1>5, <1>6, <2>2, <2>3, <2>4, ReadStep
<1>8. CASE ~(n >= MaxTypes)
  <2>1. PICK none : none = <<>> /\ none \in Seq(Nat)
    <3>1. <<>> \in Seq(Nat)
      OBVIOUS
    <3> QED BY <3>1
  <2>2. DOMAIN none = {} /\ ToSet(none) = {} /\ Len(none) = 0
    BY <2>1 DEF ToSet
  <2>3. /\ apiTypes' = Append(apiTypes, none) /\ apiPhase' = "spec" /\ apiCur' = "type"
        /\ \/ apiBlock' = <<"type", n + 1>> /\ apiOnLine' = apiOnLine
           \/ apiBlock' = Top /\ apiOnLine' = apiOnLine \cup {n + 1}
    BY <1>1, <1>4, <1>8, <2>1 DEF NewType
  <2>4. /\ apiTypes' \in Seq(Seq(Nat)) /\ Len(apiTypes') = n + 1
        /\ \A t \in 1..n : apiTypes'[t] = apiTypes[t]
        /\ apiTypes'[n + 1] = none
    <3>1. apiTypes \in Seq(Seq(Nat))
      BY ApiParts
    <3> QED BY <1>4, <2>1, <2>3, <3>1, Appended
  <2>5. n + 1 <= MaxTypes
    BY <1>8, ApiParts
  <2>6. \A t \in 1..(n + 1) : t \in 1..n \/ t = n + 1
    OBVIOUS
  <2>7. \A t \in 1..(n + 1) : Len(apiTypes'[t]) <= MaxFields
    <3>1. \A t \in 1..n : Len(apiTypes[t]) <= MaxFields
      BY <1>4 DEF ApiInv, ApiTyped
    <3>2. Len(none) <= MaxFields
      BY <2>2, ApiParts
    <3> QED BY <2>4, <2>6, <3>1, <3>2
  <2>0. /\ apiOnLine \subseteq 1..n /\ n + 1 \notin apiOnLine /\ n + 1 > 0
        /\ apiOnLine' \subseteq 1..(n + 1)
        /\ \A t \in 1..n : t \in apiOnLine' <=> t \in apiOnLine
    <3>1. apiOnLine \subseteq 1..n
      BY <1>4 DEF ApiInv, ApiTyped
    <3>2. /\ n + 1 \notin 1..n /\ n + 1 \in 1..(n + 1) /\ n + 1 > 0
          /\ \A t \in 1..n : t # n + 1 /\ t \in 1..(n + 1)
      OBVIOUS
    <3> QED BY <2>3, <3>1, <3>2
  <2>8. ApiTyped'
    BY <1>5, <2>0, <2>3, <2>4, <2>5, <2>7 DEF ApiTyped
  <2>9. ApiBlockFits'
    <3>1. n + 1 \in apiOnLine \cup {n + 1}
      OBVIOUS
    <3> QED BY <2>0, <2>3, <2>4, <3>1 DEF ApiBlockFits
  <2>10. TypeIsSaid(n + 1)'
    <3>1. PICK t \in Nat : t = n + 1 /\ t > Len(apiTypes)
      BY <1>4
    <3>2. FieldEntries(t)' = {}
      <4>1. Len(endpoints) + 1 \in Nat /\ Len(endpoints) + 1 > Len(endpoints)
        BY ApiParts
      <4>2. "type" \in {"endpoint", "type"}
        OBVIOUS
      <4> QED BY <1>1, <3>1, <4>1, <4>2, NothingSaidOfNew
    <3>3. apiTypes'[t] = none
      BY <2>4, <3>1
    <3>4. TypeIsSaid(t)'
      BY <2>2, <3>2, <3>3 DEF TypeIsSaid, IsFirstOf
    <3> QED BY <3>1, <3>4
  <2>11. \A t \in 1..n : TypeIsSaid(t)'
    <3>1. "type" \notin {"method", "path", "error", "field"}
      OBVIOUS
    <3> QED BY <1>1, <1>4, <2>0, <2>4, <3>1, NothingElseSays
  <2>12. \A t \in 1..Len(apiTypes') : TypeIsSaid(t)'
    BY <2>4, <2>6, <2>10, <2>11
  <2>13. Len(apiTypes') >= Len(apiTypes) /\ apiPhase' \in {"spec", "refused"}
    BY <1>4, <2>3, <2>4
  <2> QED BY <1>1, <1>3, <1>5, <1>6, <2>8, <2>9, <2>12, <2>13, ReadStep
<1> QED BY <1>7, <1>8

LEMMA TypeLineKeeps ==
  ASSUME ApiInv, TypeLine
  PROVE  ApiInv'
<1>1. /\ NewType(NoValue) /\ apiOnLine' = apiOnLine
      /\ apiBlock' = IF Len(apiTypes) >= MaxTypes THEN Top ELSE <<"type", Len(apiTypes) + 1>>
  BY DEF TypeLine
<1>2. IF Len(apiTypes) >= MaxTypes THEN apiBlock' = Top /\ apiOnLine' = apiOnLine
      ELSE apiBlock' = <<"type", Len(apiTypes) + 1>> /\ apiOnLine' = apiOnLine
  BY <1>1
<1> QED BY <1>1, <1>2, NewTypeKeeps

LEMMA TypeOnLineKeeps ==
  ASSUME ApiInv, NEW field \in Fields, TypeOnLine(field)
  PROVE  ApiInv'
<1>1. /\ NewType(field) /\ apiBlock' = apiBlock /\ apiBlock = Top
      /\ apiOnLine' = IF Len(apiTypes) >= MaxTypes THEN apiOnLine
                      ELSE apiOnLine \cup {Len(apiTypes) + 1}
  BY DEF TypeOnLine, NewType
<1>2. IF Len(apiTypes) >= MaxTypes THEN apiBlock' = Top /\ apiOnLine' = apiOnLine
      ELSE apiBlock' = Top /\ apiOnLine' = apiOnLine \cup {Len(apiTypes) + 1}
  BY <1>1
<1> QED BY <1>1, <1>2, NewTypeKeeps

LEMMA BraceKeeps ==
  ASSUME ApiInv, BraceLine
  PROVE  ApiInv'
<1>1. Adds(1, "close") /\ Reading
  <2>1. NoValue \in ApiValues /\ "close" \in ApiKinds /\ Writing("close", NoValue)
    BY DEF ApiValues, ApiKinds, BraceLine
  <2> QED BY <2>1, WritingAdds
<1>2. /\ UNCHANGED <<endpoints, apiTypes, apiVersion, apiOnLine, apiPhase>> /\ apiCur' = "none"
      /\ apiBlock' = Top
  BY DEF BraceLine
<1>3. "close" \notin {"method", "path", "error", "field", "version"} /\ "close" # "error"
  OBVIOUS
<1>4. VersionIsSaid'
  <2>1. "close" \notin {"field", "version"} /\ apiVersion' \in BOOLEAN
    BY <1>2 DEF ApiInv, ApiTyped
  <2> QED BY <1>1, <1>2, <2>1, VersionFollows
<1>5. /\ \A e \in 1..Len(endpoints') : EndpointIsSaid(e)'
      /\ \A t \in 1..Len(apiTypes') : TypeIsSaid(t)'
  BY <1>1, <1>2, <1>3, NothingElseSays
<1>6. ApiTyped' /\ ApiBlockFits'
  BY <1>1, <1>2 DEF ApiInv, ApiTyped, ApiBlockFits, Adds
<1>7. /\ apiPhase' \in {"spec", "refused"} /\ Len(endpoints') >= Len(endpoints)
      /\ Len(apiTypes') >= Len(apiTypes)
  BY <1>1, <1>2, ApiParts DEF Reading
<1> QED BY <1>1, <1>3, <1>4, <1>5, <1>6, <1>7, ReadStep

LEMMA VersionKeeps ==
  ASSUME ApiInv, VersionLine
  PROVE  ApiInv'
<1>1. Adds(1, "version") /\ Reading
  <2>1. NoValue \in ApiValues /\ "version" \in ApiKinds /\ Writing("version", NoValue)
    BY DEF ApiValues, ApiKinds, VersionLine
  <2> QED BY <2>1, WritingAdds
<1>2. /\ UNCHANGED <<endpoints, apiTypes, apiOnLine, apiCur, apiBlock, apiPhase>>
      /\ apiVersion' = TRUE
  BY DEF VersionLine
<1>3. "version" \notin {"method", "path", "error", "field"} /\ "version" # "error"
  OBVIOUS
<1>4. VersionIsSaid'
  BY <1>1, <1>2, VersionFollows
<1>5. /\ \A e \in 1..Len(endpoints') : EndpointIsSaid(e)'
      /\ \A t \in 1..Len(apiTypes') : TypeIsSaid(t)'
  BY <1>1, <1>2, <1>3, NothingElseSays
<1>6. ApiTyped' /\ ApiBlockFits'
  BY <1>1, <1>2 DEF ApiInv, ApiTyped, ApiBlockFits, Adds
<1>7. /\ apiPhase' \in {"spec", "refused"} /\ Len(endpoints') >= Len(endpoints)
      /\ Len(apiTypes') >= Len(apiTypes)
  BY <1>1, <1>2, ApiParts DEF Reading
<1> QED BY <1>1, <1>3, <1>4, <1>5, <1>6, <1>7, ReadStep

LEMMA FieldKeeps ==
  ASSUME ApiInv, NEW field \in Fields, FieldLine(field)
  PROVE  ApiInv'
<1>1. PICK l \in Nat, n \in Nat : l = Len(apiText) /\ n = Len(apiTypes)
  BY ApiParts
<1>2. /\ apiBlock = <<"type", n>> /\ apiCur = "type" /\ n \in 1..n
      /\ apiTypes[n] \in Seq(Nat) /\ Len(apiTypes[n]) <= MaxFields /\ TypeIsSaid(n)
      /\ n \notin apiOnLine
  BY <1>1, InType DEF FieldLine
<1>3. Adds(1, "field") /\ apiText'[l + 1].value = field /\ Reading
  <2>1. field \in ApiValues /\ "field" \in ApiKinds /\ Writing("field", field)
    BY DEF ApiValues, ApiKinds, FieldLine
  <2> QED BY <1>1, <2>1, WritingAdds
<1>4. PICK new : new = IF field # "version" /\ Len(apiTypes[n]) < MaxFields
                       THEN Append(apiTypes[n], l + 1) ELSE apiTypes[n]
  OBVIOUS
<1>5. /\ UNCHANGED <<endpoints, apiOnLine, apiCur, apiBlock, apiPhase>>
      /\ apiVersion' = (apiVersion /\ field # "version")
      /\ apiTypes' = IF field # "version" /\ Len(apiTypes[n]) < MaxFields
                     THEN [apiTypes EXCEPT ![n] = Append(@, l + 1)] ELSE apiTypes
  BY <1>1, <1>2 DEF FieldLine, WithField
<1>6. PICK entries \in SUBSET (1..l) : entries = FieldEntries(n)
  <2>1. Entries(<<"type", n>>, "field") \subseteq 1..l
    BY <1>1, <1>3, EntriesGrow
  <2> QED BY <2>1 DEF FieldEntries
<1>7. IsFirstOf(apiTypes[n], entries, MaxFields)
  BY <1>2, <1>6 DEF TypeIsSaid
<1>8. FieldEntries(n)' = IF field # "version" THEN entries \cup {l + 1} ELSE entries
  <2>1. Entries(<<"type", n>>, "field")' = Entries(<<"type", n>>, "field") \cup {l + 1}
    <3>1. (l + 1)..(l + 1) = {l + 1}
      OBVIOUS
    <3> QED BY <1>1, <1>2, <1>3, <3>1, EntriesGrow
  <2>2. Entries(<<"type", n>>, "field") \subseteq 1..l
    BY <1>1, <1>3, EntriesGrow
  <2>3. \A i \in 1..l : apiText'[i] = apiText[i]
    BY <1>1, <1>3 DEF Adds
  <2>4. apiText'[l + 1].value = field
    BY <1>3
  <2> QED BY <1>6, <2>1, <2>2, <2>3, <2>4 DEF FieldEntries
<1>9. /\ new \in Seq(Nat) /\ Len(new) <= MaxFields
      /\ IsFirstOf(new, IF field # "version" THEN entries \cup {l + 1} ELSE entries, MaxFields)
  <2>1. CASE field # "version"
    <3>1. new = IF Len(apiTypes[n]) < MaxFields THEN Append(apiTypes[n], l + 1) ELSE apiTypes[n]
      BY <1>4, <2>1
    <3> QED BY <1>2, <1>7, <2>1, <3>1, ApiParts, AppendTakes
  <2>2. CASE field = "version"
    BY <1>2, <1>4, <1>7, <2>2
  <2> QED BY <2>1, <2>2
<1>10. /\ apiTypes' \in Seq(Seq(Nat)) /\ Len(apiTypes') = n /\ apiTypes'[n] = new
       /\ \A t \in 1..n : t # n => apiTypes'[t] = apiTypes[t]
  <2>1. apiTypes \in Seq(Seq(Nat))
    BY ApiParts
  <2>2. CASE field # "version" /\ Len(apiTypes[n]) < MaxFields
    <3>1. apiTypes' = [apiTypes EXCEPT ![n] = new]
      BY <1>4, <1>5, <2>2
    <3> QED BY <1>1, <1>2, <1>9, <2>1, <3>1, ReplacedAt
  <2>3. CASE ~(field # "version" /\ Len(apiTypes[n]) < MaxFields)
    BY <1>1, <1>4, <1>5, <2>1, <2>3
  <2> QED BY <2>2, <2>3
<1>11. \A t \in 1..n : TypeIsSaid(t)'
  <2>1. TypeIsSaid(n)'
    <3>1. IsFirstOf(apiTypes[n], FieldEntries(n), MaxFields)'
      BY <1>8, <1>9, <1>10 DEF IsFirstOf
    <3> QED BY <1>2, <1>5, <3>1 DEF TypeIsSaid
  <2>2. ASSUME NEW t \in 1..n, t # n PROVE TypeIsSaid(t)'
    <3>1. apiBlock # <<"type", t>>
      BY <1>2, <2>2
    <3> QED BY <1>1, <1>3, <1>5, <1>10, <2>2, <3>1, TypeStaysSaid
  <2> QED BY <2>1, <2>2
<1>12. \A e \in 1..Len(endpoints') : EndpointIsSaid(e)'
  <2>1. "field" \notin {"method", "path", "error"}
    OBVIOUS
  <2> QED BY <1>3, <1>5, <2>1, EndpointStaysSaid
<1>13. VersionIsSaid'
  <2>1. apiVersion \in BOOLEAN
    BY DEF ApiInv, ApiTyped
  <2>2. apiVersion' \in BOOLEAN /\ (field = "version" => ~apiVersion')
        /\ (field # "version" => apiVersion' = apiVersion)
    BY <1>5, <2>1
  <2> QED BY <1>1, <1>3, <2>2, VersionFollows
<1>14. ApiTyped'
  <2>1. \A t \in 1..n : Len(apiTypes'[t]) <= MaxFields
    BY <1>1, <1>9, <1>10 DEF ApiInv, ApiTyped
  <2>2. apiText' \in Seq(ApiEntry) /\ apiVersion' \in BOOLEAN
    BY <1>3, <1>5 DEF Adds, ApiInv, ApiTyped
  <2>3. apiOnLine' \subseteq 1..Len(apiTypes')
    BY <1>1, <1>5, <1>10 DEF ApiInv, ApiTyped
  <2> QED BY <1>1, <1>5, <1>10, <2>1, <2>2, <2>3 DEF ApiInv, ApiTyped
<1>15. ApiBlockFits'
  BY <1>1, <1>2, <1>5, <1>10 DEF ApiBlockFits
<1>16. /\ apiPhase' \in {"spec", "refused"} /\ Len(endpoints') >= Len(endpoints)
       /\ Len(apiTypes') >= Len(apiTypes) /\ "field" # "error"
  BY <1>1, <1>3, <1>5, <1>10, ApiParts DEF Reading
<1> QED BY <1>3, <1>10, <1>11, <1>12, <1>13, <1>14, <1>15, <1>16, ReadStep

\* transport: at the top, which only a type written on one line takes for a field.
LEMMA TransportKeeps ==
  ASSUME ApiInv, TransportLine
  PROVE  ApiInv'
<1>1. PICK l \in Nat, n \in Nat : l = Len(apiText) /\ n = Len(apiTypes)
  BY ApiParts
<1>2. Adds(1, "transport") /\ Reading
  <2>1. NoValue \in ApiValues /\ "transport" \in ApiKinds /\ Writing("transport", NoValue)
    BY DEF ApiValues, ApiKinds, TransportLine
  <2> QED BY <2>1, WritingAdds
<1>3. /\ UNCHANGED <<endpoints, apiVersion, apiOnLine, apiCur, apiBlock, apiPhase>>
      /\ apiBlock = Top
      /\ apiTypes' = IF apiCur = "type" /\ Len(apiTypes[n]) < MaxFields
                     THEN [apiTypes EXCEPT ![n] = Append(@, l + 1)] ELSE apiTypes
  BY <1>1 DEF TransportLine, WithField
<1>4. "transport" \notin {"method", "path", "error", "field", "version"}
  OBVIOUS
<1>5. /\ Len(apiText') = l + 1 /\ apiText'[l + 1].in = Top
      /\ \A i \in 1..l : apiText'[i] = apiText[i] /\ i \in 1..Len(apiText')
      /\ l + 1 \in 1..Len(apiText')
  <2>1. /\ Len(apiText') = l + 1 /\ \A i \in 1..l : apiText'[i] = apiText[i]
        /\ \A i \in (l + 1)..(l + 1) : apiText'[i].in = Top
    BY <1>1, <1>2, <1>3 DEF Adds
  <2>2. l + 1 \in (l + 1)..(l + 1) /\ l + 1 \in 1..(l + 1) /\ \A i \in 1..l : i \in 1..(l + 1)
    OBVIOUS
  <2> QED BY <2>1, <2>2
<1>6. /\ apiTypes' \in Seq(Seq(Nat)) /\ Len(apiTypes') = n
      /\ \A t \in 1..n : Len(apiTypes'[t]) <= MaxFields /\ TypeIsSaid(t)'
  <2>1. /\ apiTypes \in Seq(Seq(Nat)) /\ apiOnLine \subseteq 1..n
        /\ \A t \in 1..n : Len(apiTypes[t]) <= MaxFields
    BY <1>1, ApiParts DEF ApiInv, ApiTyped
  <2>2. \A t \in 1..n : apiTypes'[t] = apiTypes[t] => TypeIsSaid(t)'
    BY <1>1, <1>2, <1>3, <1>4, NothingElseSays
  <2>3. CASE apiCur = "type" /\ Len(apiTypes[n]) < MaxFields
    <3>1. n \in apiOnLine /\ n \in 1..n
      <4>1. n \in apiOnLine
        BY <1>1, <1>3, <2>3 DEF ApiInv, ApiBlockFits, Top
      <4> QED BY <2>1, <4>1
    <3>2. PICK old \in Seq(Nat) : old = apiTypes[n]
      BY <1>1, <2>1, <3>1
    <3>3. PICK new : new = Append(old, l + 1)
      OBVIOUS
    <3>4. /\ new \in Seq(Nat) /\ Len(new) = Len(old) + 1 /\ Len(old) \in Nat
          /\ DOMAIN old = 1..Len(old) /\ DOMAIN new = 1..(Len(old) + 1)
          /\ \A i \in 1..Len(old) : new[i] = old[i]
          /\ new[Len(old) + 1] = l + 1
      BY <3>3, Appended
    <3>5. /\ apiTypes' \in Seq(Seq(Nat)) /\ Len(apiTypes') = n /\ apiTypes'[n] = new
          /\ \A t \in 1..n : t # n => apiTypes'[t] = apiTypes[t]
      <4>1. apiTypes' = [apiTypes EXCEPT ![n] = new]
        BY <1>3, <2>3, <3>2, <3>3
      <4> QED BY <1>1, <2>1, <3>1, <3>4, <4>1, ReplacedAt
    <3>6. \A i \in ToSet(new) : i \in ToSet(old) \/ i = l + 1
      <4>1. \A j \in 1..(Len(old) + 1) : j \in 1..Len(old) \/ j = Len(old) + 1
        BY <3>4
      <4> QED BY <3>4, <4>1 DEF ToSet
    <3>7. \A i \in ToSet(old) : i \in 1..l /\ apiText[i].in = Top
      <4>1. TypeIsSaid(n)
        BY <1>1, <3>1 DEF ApiInv, BlocksAreSaid
      <4> QED BY <1>1, <3>1, <3>2, <4>1 DEF TypeIsSaid
    <3>8. \A i \in ToSet(new) : i \in 1..Len(apiText') /\ apiText'[i].in = Top
      BY <1>5, <3>6, <3>7
    <3>9. TypeIsSaid(n)'
      <4>1. ToSet(apiTypes'[n]) = ToSet(new)
        BY <3>5
      <4> QED BY <1>3, <3>1, <3>8, <4>1 DEF TypeIsSaid
    <3>10. Len(new) <= MaxFields
      BY <2>3, <3>2, <3>4, ApiParts
    <3> QED BY <2>1, <2>2, <3>5, <3>9, <3>10
  <2>4. CASE ~(apiCur = "type" /\ Len(apiTypes[n]) < MaxFields)
    <3>1. apiTypes' = apiTypes
      BY <1>3, <2>4
    <3> QED BY <1>1, <2>1, <2>2, <3>1
  <2> QED BY <2>3, <2>4
<1>7. \A e \in 1..Len(endpoints') : EndpointIsSaid(e)'
  BY <1>2, <1>3, <1>4, NothingElseSays
<1>8. VersionIsSaid'
  <2>1. "transport" \notin {"field", "version"} /\ apiVersion' \in BOOLEAN
    BY <1>3 DEF ApiInv, ApiTyped
  <2> QED BY <1>2, <1>3, <2>1, VersionFollows
<1>9. ApiTyped'
  <2>1. apiText' \in Seq(ApiEntry) /\ apiOnLine' \subseteq 1..Len(apiTypes')
    BY <1>1, <1>2, <1>3, <1>6 DEF Adds, ApiInv, ApiTyped
  <2> QED BY <1>1, <1>3, <1>6, <2>1 DEF ApiInv, ApiTyped
<1>10. ApiBlockFits'
  BY <1>1, <1>3, <1>6 DEF ApiInv, ApiBlockFits, Top
<1>11. /\ apiPhase' \in {"spec", "refused"} /\ Len(endpoints') >= Len(endpoints)
       /\ Len(apiTypes') >= Len(apiTypes) /\ "transport" # "error"
  BY <1>1, <1>2, <1>3, <1>6, ApiParts DEF Reading
<1> QED BY <1>2, <1>6, <1>7, <1>8, <1>9, <1>10, <1>11, ReadStep
-----------------------------------------------------------------------------
(* Writing the errors. *)

\* What is read stays as it is said.
LEMMA ParsedStays ==
  ASSUME ApiInv, UNCHANGED parsedVars, apiPhase' \in {"errors", "serving", apiPhase}
  PROVE  ApiTyped' /\ ApiBlockFits' /\ EntriesFit' /\ BlocksAreSaid'
<1>1. UNCHANGED <<endpoints, apiTypes, apiVersion, apiOnLine, apiCur, apiText, apiBlock>>
  BY DEF parsedVars
<1>2. ApiTyped' /\ ApiBlockFits'
  BY <1>1 DEF ApiInv, ApiTyped, ApiBlockFits
<1>3. Adds(0, "close")
  <2>1. Len(apiText) + 0 = Len(apiText)
    BY ApiParts
  <2>2. \A i \in (Len(apiText) + 1)..(Len(apiText) + 0) : FALSE
    BY ApiParts
  <2> QED BY <1>1, <2>1, <2>2, ApiParts DEF Adds
<1>4. /\ \A e \in 1..Len(endpoints') : EndpointIsSaid(e)'
      /\ \A t \in 1..Len(apiTypes') : TypeIsSaid(t)'
  <2>1. "close" \notin {"method", "path", "error", "field"}
    OBVIOUS
  <2> QED BY <1>1, <1>3, <2>1, NothingElseSays
<1>5. VersionIsSaid'
  <2>1. "close" \notin {"field", "version"} /\ apiVersion' \in BOOLEAN
    BY <1>1 DEF ApiInv, ApiTyped
  <2> QED BY <1>1, <1>3, <2>1, VersionFollows
<1>6. EntriesFit'
  BY <1>1 DEF ApiInv, EntriesFit
<1> QED BY <1>2, <1>4, <1>5, <1>6 DEF BlocksAreSaid

LEMMA CodesOfErrors ==
  ASSUME ApiInv, NEW e \in 1..Len(endpoints), NEW i \in 1..Len(endpoints[e].errors)
  PROVE  CodeOf(endpoints[e].errors[i]) \in Codes
<1>1. PICK list : list = endpoints[e].errors /\ list \in Seq(Nat)
  <2>1. endpoints[e] \in Endpoint
    BY ApiParts
  <2> QED BY <2>1, EndpointParts
<1>2. list[i] \in Entries(<<"endpoint", e>>, "error")
  <2>1. list[i] \in ToSet(list)
    BY <1>1 DEF ToSet
  <2>2. ToSet(list) \subseteq Entries(<<"endpoint", e>>, "error")
    BY <1>1 DEF ApiInv, BlocksAreSaid, EndpointIsSaid, IsFirstOf
  <2> QED BY <2>1, <2>2
<1>3. list[i] \in 1..Len(apiText) /\ apiText[list[i]].kind = "error"
  BY <1>2, ApiParts DEF Entries
<1>4. apiText[list[i]].value \in ErrorNames
  BY <1>3 DEF ApiInv, EntriesFit
<1> QED BY <1>1, <1>4 DEF CodeOf, Codes

\* A code more: the enum takes it unless it is there, the strings always.
LEMMA TablesGrow ==
  ASSUME TablesMatch, errorEnum \in Seq(Codes), errorStrings \in Seq(Codes),
         NEW code \in Codes,
         errorEnum' = Unless(errorEnum, code), errorStrings' = Append(errorStrings, code)
  PROVE  /\ TablesMatch' /\ errorEnum' \in Seq(Codes) /\ errorStrings' \in Seq(Codes)
         /\ Room' => Room /\ ToSet(errorEnum) \subseteq ToSet(errorEnum')
                          /\ code \in ToSet(errorEnum')
<1>1. PICK r \in Nat : r = MaxEndpoints * MaxErrors
  BY ApiAssumption
<1>2. PICK n \in Nat, k \in Nat : n = Len(errorEnum) /\ k = Len(errorStrings) /\ n <= k
  <2>1. Len(errorEnum) \in Nat /\ Len(errorStrings) \in Nat
    OBVIOUS
  <2> QED BY <2>1 DEF TablesMatch
<1>3. /\ errorStrings' \in Seq(Codes) /\ Len(errorStrings') = k + 1
      /\ errorStrings'[k + 1] = code /\ \A i \in 1..k : errorStrings'[i] = errorStrings[i]
  BY <1>2, Appended
<1>4. DOMAIN errorEnum = 1..n
  BY <1>2
<1>5. /\ Room <=> n < r
      /\ Room' <=> Len(errorEnum') < r
  BY <1>1, <1>2 DEF Room
<1>6. \A j \in 0..k : Repeats(j)' <=> Repeats(j)
  <2>1. \A j \in 0..k : \A i \in 1..j : i \in 1..k
    OBVIOUS
  <2> QED BY <1>3, <2>1 DEF Repeats
<1>7. /\ \A d, e \in 1..n : d # e => errorEnum[d] # errorEnum[e]
      /\ \A e \in 1..n : \E f \in 1..k : StandsFirst(e, f)
      /\ n < r => /\ \A i \in 1..k : errorStrings[i] \in ToSet(errorEnum)
                  /\ (k = n /\ ~Repeats(k)) \/ (k > n /\ Repeats(k))
  <2>1. /\ \A d, e \in 1..n : d # e => errorEnum[d] # errorEnum[e]
        /\ \A e \in 1..n : \E f \in 1..k : StandsFirst(e, f)
    BY <1>2 DEF TablesMatch
  <2>2. Room => /\ \A i \in 1..k : errorStrings[i] \in ToSet(errorEnum)
                /\ (k = n /\ ~Repeats(k)) \/ (k > n /\ Repeats(k))
    BY <1>2 DEF TablesMatch
  <2> QED BY <1>5, <2>1, <2>2
<1>8. ASSUME NEW e \in 1..n, NEW f \in 1..k, StandsFirst(e, f), errorEnum'[e] = errorEnum[e]
      PROVE  StandsFirst(e, f)'
  <2>1. f - 1 \in 0..k /\ \A i \in 1..(f - 1) : i \in 1..k
    OBVIOUS
  <2>2. Repeats(f - 1)' <=> Repeats(f - 1)
    BY <1>6, <2>1
  <2> QED BY <1>3, <1>8, <2>1, <2>2 DEF StandsFirst
<1>9. \A i \in 1..(k + 1) : i \in 1..k \/ i = k + 1
  OBVIOUS
<1>10. 1..k \subseteq 1..(k + 1) /\ k + 1 \in 1..(k + 1)
  OBVIOUS
<1>11. CASE code \in ToSet(errorEnum) \/ ~(n < r)
  <2>1. errorEnum' = errorEnum
    BY <1>1, <1>2, <1>11 DEF Unless
  <2>2. \A e \in 1..n : \E f \in 1..(k + 1) : StandsFirst(e, f)'
    BY <1>7, <1>8, <1>10, <2>1
  <2>3. ASSUME n < r
        PROVE  /\ \A i \in 1..(k + 1) : errorStrings'[i] \in ToSet(errorEnum)
               /\ k + 1 > n /\ Repeats(k + 1)'
    <3>1. code \in ToSet(errorEnum)
      BY <1>11, <2>3
    <3>2. PICK e \in 1..n : errorEnum[e] = code
      BY <1>4, <3>1 DEF ToSet
    <3>3. PICK f \in 1..k : errorStrings[f] = code
      BY <1>7, <3>2 DEF StandsFirst
    <3>4. f # k + 1 /\ errorStrings'[f] = errorStrings'[k + 1]
      BY <1>3, <3>3
    <3>5. Repeats(k + 1)'
      BY <1>10, <3>4 DEF Repeats
    <3> QED BY <1>2, <1>3, <1>7, <1>9, <2>3, <3>1, <3>5
  <2>4. TablesMatch'
    <3>1. Len(errorEnum') = n /\ n <= k + 1 /\ (Room' <=> n < r)
      BY <1>2, <1>5, <2>1
    <3>2. Room' => /\ \A i \in 1..(k + 1) : errorStrings'[i] \in ToSet(errorEnum')
                   /\ k + 1 > n /\ Repeats(k + 1)'
      BY <2>1, <2>3, <3>1
    <3> QED BY <1>3, <1>7, <2>1, <2>2, <3>1, <3>2 DEF TablesMatch
  <2> QED BY <1>2, <1>3, <1>5, <1>11, <2>1, <2>4
<1>12. CASE code \notin ToSet(errorEnum) /\ n < r
  <2>1. errorEnum' = Append(errorEnum, code)
    BY <1>1, <1>2, <1>12 DEF Unless
  <2>2. /\ errorEnum' \in Seq(Codes) /\ Len(errorEnum') = n + 1 /\ DOMAIN errorEnum' = 1..(n + 1)
        /\ errorEnum'[n + 1] = code /\ \A e \in 1..n : errorEnum'[e] = errorEnum[e]
    BY <1>2, <2>1, Appended
  <2>3. /\ \A e \in 1..n : errorEnum[e] # code
        /\ \A i \in 1..k : errorStrings[i] # code
    <3>1. \A e \in 1..n : errorEnum[e] \in ToSet(errorEnum)
      BY <1>4 DEF ToSet
    <3> QED BY <1>7, <1>12, <3>1
  <2>4. \A e \in 1..(n + 1) : e \in 1..n \/ e = n + 1
    OBVIOUS
  <2>5. \A d, e \in 1..(n + 1) : d # e => errorEnum'[d] # errorEnum'[e]
    BY <1>7, <2>2, <2>3, <2>4
  <2>6. \A e \in 1..n : \E f \in 1..(k + 1) : StandsFirst(e, f)'
    BY <1>7, <1>8, <1>10, <2>2
  <2>7. StandsFirst(n + 1, k + 1)'
    <3>1. \A i \in 1..(k + 1 - 1) : i \in 1..k
      OBVIOUS
    <3>2. k + 1 - 1 = k /\ n + 1 <= k + 1 /\ (n + 1 = k + 1 <=> n = k)
      BY <1>2
    <3>3. Repeats(k)' <=> Repeats(k)
      BY <1>6
    <3>4. IF n = k THEN ~Repeats(k) ELSE Repeats(k)
      BY <1>7, <1>12
    <3>5. PICK e \in Nat, f \in Nat : e = n + 1 /\ f = k + 1 /\ f - 1 = k
      OBVIOUS
    <3>6. /\ e <= f /\ errorStrings'[f] = errorEnum'[e]
          /\ \A i \in 1..(f - 1) : errorStrings'[i] # errorEnum'[e]
          /\ IF e = f THEN ~Repeats(k)' ELSE Repeats(k)'
      BY <1>3, <2>2, <2>3, <3>2, <3>3, <3>4, <3>5
    <3>7. StandsFirst(e, f)'
      BY <3>5, <3>6 DEF StandsFirst
    <3> QED BY <3>5, <3>7
  <2>8. \A e \in 1..(n + 1) : \E f \in 1..(k + 1) : StandsFirst(e, f)'
    BY <1>10, <2>4, <2>6, <2>7
  <2>9. ToSet(errorEnum) \subseteq ToSet(errorEnum') /\ code \in ToSet(errorEnum')
    <3>1. \A e \in 1..n : e \in 1..(n + 1) /\ errorEnum'[e] = errorEnum[e]
      BY <2>2
    <3>2. n + 1 \in 1..(n + 1)
      OBVIOUS
    <3> QED BY <1>4, <2>2, <3>1, <3>2 DEF ToSet
  <2>10. \A i \in 1..(k + 1) : errorStrings'[i] \in ToSet(errorEnum')
    BY <1>3, <1>7, <1>9, <1>12, <2>9
  <2>11. \/ k + 1 = n + 1 /\ ~Repeats(k + 1)'
         \/ k + 1 > n + 1 /\ Repeats(k + 1)'
    <3>1. CASE k = n /\ ~Repeats(k)
      <4>1. \A i, j \in 1..k : i # j => errorStrings[i] # errorStrings[j]
        BY <3>1 DEF Repeats
      <4>2. \A i, j \in 1..(k + 1) : i # j => errorStrings'[i] # errorStrings'[j]
        BY <1>3, <1>9, <2>3, <4>1
      <4> QED BY <3>1, <4>2 DEF Repeats
    <3>2. CASE k > n /\ Repeats(k)
      <4>1. PICK i \in 1..k, j \in 1..k : i # j /\ errorStrings[i] = errorStrings[j]
        BY <3>2 DEF Repeats
      <4>2. Repeats(k + 1)'
        BY <1>3, <1>10, <4>1 DEF Repeats
      <4> QED BY <3>2, <4>2
    <3> QED BY <1>7, <1>12, <3>1, <3>2
  <2>12. TablesMatch'
    <3>1. n + 1 <= k + 1
      BY <1>2
    <3> QED BY <1>3, <2>2, <2>5, <2>8, <2>10, <2>11, <3>1 DEF TablesMatch
  <2> QED BY <1>3, <1>5, <1>12, <2>2, <2>9, <2>12
<1> QED BY <1>11, <1>12
LEMMA GenerateKeeps ==
  ASSUME ApiInv, GenerateApi
  PROVE  ApiInv'
<1>1. /\ apiPhase = "spec" /\ apiPhase' = "errors" /\ UNCHANGED parsedVars
      /\ UNCHANGED <<errorAt, errorEnum, errorStrings, answer>>
  BY DEF GenerateApi, errorVars
<1>2. UNCHANGED <<endpoints, apiTypes, apiVersion, apiOnLine, apiCur, apiText, apiBlock>>
  BY <1>1 DEF parsedVars
<1>3. ErrorsFit'
  BY <1>1, <1>2 DEF ApiInv, ErrorsFit, IsPast, Room, CodeOf
<1>4. TablesMatch'
  BY <1>1, ErrorTablesStay DEF ApiInv
<1>5. AnswerFits' /\ AnswersWait'
  BY <1>1, <1>2 DEF ApiInv, AnswerFits, AnswersWait
<1> QED BY <1>1, <1>3, <1>4, <1>5, ParsedStays DEF ApiInv

LEMMA WriteErrorKeeps ==
  ASSUME ApiInv, WriteError
  PROVE  ApiInv'
<1>1. PICK a \in Nat, b \in Nat : errorAt = <<a, b>> /\ a > 0 /\ b > 0
  <2>1. errorAt \in Nat \X Nat /\ errorAt[1] > 0 /\ errorAt[2] > 0
    BY DEF ApiInv, ErrorsFit
  <2>2. errorAt = <<errorAt[1], errorAt[2]>> /\ errorAt[1] \in Nat /\ errorAt[2] \in Nat
    BY <2>1
  <2> QED BY <2>1, <2>2
<1>2. errorAt[1] = a /\ errorAt[2] = b
  BY <1>1
<1>3. PICK code : code = CodeOf(endpoints[a].errors[b])
  OBVIOUS
<1>4. /\ apiPhase = "errors" /\ apiPhase' = "errors"
      /\ a <= Len(endpoints) /\ b <= Len(endpoints[a].errors)
      /\ errorEnum' = Unless(errorEnum, code) /\ errorStrings' = Append(errorStrings, code)
      /\ errorAt' = <<a, b + 1>> /\ UNCHANGED parsedVars /\ answer' = answer
  BY <1>2, <1>3 DEF WriteError
<1>5. UNCHANGED <<endpoints, apiTypes, apiVersion, apiOnLine, apiCur, apiText, apiBlock>>
  BY <1>4 DEF parsedVars
<1>6. a \in 1..Len(endpoints) /\ b \in 1..Len(endpoints[a].errors)
  <2>1. a \in 1..Len(endpoints)
    BY <1>1, <1>4, ApiParts
  <2>2. Len(endpoints[a].errors) \in Nat
    <3>1. endpoints[a] \in Endpoint
      BY <2>1, ApiParts
    <3> QED BY <3>1, EndpointParts
  <2> QED BY <1>1, <1>4, <2>1, <2>2
<1>7. code \in Codes
  BY <1>3, <1>6, CodesOfErrors
<1>8. /\ TablesMatch' /\ errorEnum' \in Seq(Codes) /\ errorStrings' \in Seq(Codes)
      /\ Room' => Room /\ ToSet(errorEnum) \subseteq ToSet(errorEnum')
                       /\ code \in ToSet(errorEnum')
  <2>1. TablesMatch /\ errorEnum \in Seq(Codes) /\ errorStrings \in Seq(Codes)
    BY DEF ApiInv, ErrorsFit
  <2> QED BY <1>4, <1>7, <2>1, TablesGrow
<1>9. ErrorsFit'
  <2>1. errorAt'[1] = a /\ errorAt'[2] = b + 1 /\ errorAt' \in Nat \X Nat /\ b + 1 > 0
    BY <1>1, <1>4
  <2>2. ASSUME NEW e \in 1..Len(endpoints), NEW i \in 1..Len(endpoints[e].errors),
               IsPast(e, i)', Room'
        PROVE  CodeOf(endpoints[e].errors[i]) \in ToSet(errorEnum')
    <3>1. IsPast(e, i) \/ (e = a /\ i = b)
      <4>1. e < a \/ (e = a /\ i < b + 1)
        BY <2>1, <2>2 DEF IsPast
      <4>2. i < b + 1 => i < b \/ i = b
        BY <1>1
      <4> QED BY <1>2, <4>1, <4>2 DEF IsPast
    <3>2. CASE IsPast(e, i)
      <4>1. Room
        BY <1>8, <2>2
      <4>2. CodeOf(endpoints[e].errors[i]) \in ToSet(errorEnum)
        BY <3>2, <4>1 DEF ApiInv, ErrorsFit
      <4> QED BY <1>8, <2>2, <4>2
    <3>3. CASE e = a /\ i = b
      BY <1>3, <1>8, <2>2, <3>3
    <3> QED BY <3>1, <3>2, <3>3
  <2>3. \A e \in 1..Len(endpoints') : \A i \in 1..Len(endpoints'[e].errors) :
          IsPast(e, i)' /\ Room' => CodeOf(endpoints[e].errors[i])' \in ToSet(errorEnum')
    BY <1>5, <2>2 DEF CodeOf
  <2> QED BY <1>1, <1>4, <1>8, <2>1, <2>3 DEF ErrorsFit
<1>10. AnswerFits' /\ AnswersWait'
  BY <1>4, <1>5 DEF ApiInv, AnswerFits, AnswersWait
<1> QED BY <1>4, <1>8, <1>9, <1>10, ParsedStays DEF ApiInv

LEMMA NextEndpointKeeps ==
  ASSUME ApiInv, NextEndpoint
  PROVE  ApiInv'
<1>1. PICK a \in Nat, b \in Nat : errorAt[1] = a /\ errorAt[2] = b /\ a > 0 /\ b > 0
  BY DEF ApiInv, ErrorsFit
<1>2. /\ apiPhase = "errors" /\ apiPhase' = "errors" /\ b > Len(endpoints[a].errors)
      /\ errorAt' = <<a + 1, 1>> /\ UNCHANGED <<errorEnum, errorStrings, answer>>
      /\ UNCHANGED parsedVars
  BY <1>1 DEF NextEndpoint
<1>3. UNCHANGED <<endpoints, apiTypes, apiVersion, apiOnLine, apiCur, apiText, apiBlock>>
  BY <1>2 DEF parsedVars
<1>4. ErrorsFit'
  <2>1. errorAt'[1] = a + 1 /\ errorAt'[2] = 1 /\ errorAt' \in Nat \X Nat /\ a + 1 > 0
    BY <1>1, <1>2
  <2>2. ASSUME NEW e \in 1..Len(endpoints), NEW i \in 1..Len(endpoints[e].errors), IsPast(e, i)'
        PROVE  IsPast(e, i)
    <3>1. Len(endpoints[e].errors) \in Nat
      <4>1. endpoints[e] \in Endpoint
        BY ApiParts
      <4> QED BY <4>1, EndpointParts
    <3>2. e < a \/ e = a
      BY <1>1, <2>1, <2>2 DEF IsPast
    <3>3. e = a => i < b
      BY <1>1, <1>2, <3>1
    <3> QED BY <1>1, <3>2, <3>3 DEF IsPast
  <2>3. \A e \in 1..Len(endpoints') : \A i \in 1..Len(endpoints'[e].errors) :
          IsPast(e, i)' /\ Room' => CodeOf(endpoints[e].errors[i])' \in ToSet(errorEnum')
    <3>1. \A e \in 1..Len(endpoints) : \A i \in 1..Len(endpoints[e].errors) :
            IsPast(e, i)' /\ Room => CodeOf(endpoints[e].errors[i]) \in ToSet(errorEnum)
      BY <2>2 DEF ApiInv, ErrorsFit
    <3> QED BY <1>2, <1>3, <3>1 DEF CodeOf, Room
  <2>4. errorEnum' \in Seq(Codes) /\ errorStrings' \in Seq(Codes)
    BY <1>2 DEF ApiInv, ErrorsFit
  <2> QED BY <1>2, <2>1, <2>3, <2>4 DEF ErrorsFit
<1>5. TablesMatch'
  BY <1>2, ErrorTablesStay DEF ApiInv
<1>6. AnswerFits' /\ AnswersWait'
  BY <1>2, <1>3 DEF ApiInv, AnswerFits, AnswersWait
<1> QED BY <1>2, <1>4, <1>5, <1>6, ParsedStays DEF ApiInv

-----------------------------------------------------------------------------
(* Answering. *)

LEMMA ServeKeeps ==
  ASSUME ApiInv, Serve
  PROVE  ApiInv'
<1>1. /\ apiPhase = "errors" /\ apiPhase' = "serving" /\ errorAt[1] > Len(endpoints)
      /\ UNCHANGED <<errorAt, errorEnum, errorStrings, answer>> /\ UNCHANGED parsedVars
  BY DEF Serve, errorVars
<1>2. UNCHANGED <<endpoints, apiTypes, apiVersion, apiOnLine, apiCur, apiText, apiBlock>>
  BY <1>1 DEF parsedVars
<1>3. ErrorsFit'
  BY <1>1, <1>2 DEF ApiInv, ErrorsFit, IsPast, Room, CodeOf
<1>4. TablesMatch'
  BY <1>1, ErrorTablesStay DEF ApiInv
<1>5. AnswerFits' /\ AnswersWait'
  BY <1>1, <1>2 DEF ApiInv, AnswerFits, AnswersWait
<1> QED BY <1>1, <1>3, <1>4, <1>5, ParsedStays DEF ApiInv

LEMMA DispatchKeeps ==
  ASSUME ApiInv, NEW method \in Methods, NEW path \in Paths, Dispatch(method, path)
  PROVE  ApiInv'
<1> DEFINE routes == {e \in DOMAIN endpoints :
                        endpoints[e].method = method /\ endpoints[e].path = path}
<1>1. /\ apiPhase = "serving" /\ apiPhase' = "serving"
      /\ UNCHANGED <<errorAt, errorEnum, errorStrings>> /\ UNCHANGED parsedVars
      /\ answer' = [method |-> method, path |-> path,
                    by |-> IF routes = {} THEN Answer404
                           ELSE CHOOSE e \in routes : \A r \in routes : e <= r]
  BY DEF Dispatch, errorVars
<1>2. UNCHANGED <<endpoints, apiTypes, apiVersion, apiOnLine, apiCur, apiText, apiBlock>>
  BY <1>1 DEF parsedVars
<1>3. ErrorsFit'
  BY <1>1, <1>2 DEF ApiInv, ErrorsFit, IsPast, Room, CodeOf
<1>4. TablesMatch'
  BY <1>1, ErrorTablesStay DEF ApiInv
<1>5. PICK n \in Nat : n = Len(endpoints) /\ DOMAIN endpoints = 1..n
  BY ApiParts
<1>6. /\ routes \in SUBSET Nat /\ routes \subseteq 1..n
      /\ \A e \in 1..n : e \in routes <=>
           endpoints[e].method = method /\ endpoints[e].path = path
  BY <1>5
<1>7. PICK by : by = IF routes = {} THEN Answer404
                     ELSE CHOOSE e \in routes : \A r \in routes : e <= r
  OBVIOUS
<1>8. answer'.method = method /\ answer'.path = path /\ answer'.by = by
  BY <1>1, <1>7
<1> HIDE DEF routes
<1>9. IF routes = {} THEN by = Answer404 ELSE by \in routes /\ \A r \in routes : by <= r
  <2>1. CASE routes = {}
    BY <1>7, <2>1
  <2>2. CASE routes # {}
    <3>1. \E e \in routes : \A r \in routes : e <= r
      BY <1>6, <2>2, Least
    <3>2. by = CHOOSE e \in routes : \A r \in routes : e <= r
      BY <1>7, <2>2
    <3> QED BY <2>2, <3>1, <3>2
  <2> QED BY <2>1, <2>2
<1>10. AnswerFits'
  <2>1. by \in 0..n
    <3>1. by = 0 \/ by \in 1..n
      BY <1>6, <1>9 DEF Answer404
    <3> QED BY <3>1
  <2>2. by # Answer404 => endpoints[by].method = method /\ endpoints[by].path = path
    BY <1>6, <1>9
  <2>3. \A e \in 1..n : endpoints[e].method = method /\ endpoints[e].path = path => by \in 1..e
    <3> SUFFICES ASSUME NEW e \in 1..n, e \in routes PROVE by \in 1..e
      BY <1>6
    <3>1. by \in 1..n /\ by <= e
      BY <1>6, <1>9
    <3> QED BY <3>1
  <2> QED BY <1>2, <1>5, <1>8, <2>1, <2>2, <2>3 DEF AnswerFits
<1>11. AnswersWait'
  BY <1>1 DEF AnswersWait
<1> QED BY <1>1, <1>3, <1>4, <1>10, <1>11, ParsedStays DEF ApiInv

LEMMA ApiStutters ==
  ASSUME ApiInv, UNCHANGED apiVars
  PROVE  ApiInv'
<1>1. /\ UNCHANGED <<errorAt, errorEnum, errorStrings, apiPhase, answer>> /\ UNCHANGED parsedVars
      /\ UNCHANGED <<endpoints, apiTypes, apiVersion, apiOnLine, apiCur, apiText, apiBlock>>
  BY DEF apiVars, parsedVars, errorVars
<1>2. ErrorsFit'
  BY <1>1 DEF ApiInv, ErrorsFit, IsPast, Room, CodeOf
<1>3. TablesMatch'
  BY <1>1, ErrorTablesStay DEF ApiInv
<1>4. AnswerFits' /\ AnswersWait'
  BY <1>1 DEF ApiInv, AnswerFits, AnswersWait
<1> QED BY <1>1, <1>2, <1>3, <1>4, ParsedStays DEF ApiInv

\* The endpoints and types are what is written in their blocks; the tables of errors hold
\* what is past (apigen.c:176-370, :473-494, :582-587, :622-629).
THEOREM ApiInvariant == ApiSpec => []ApiInv
<1>1. ApiInv /\ [ApiNext]_apiVars => ApiInv'
  <2> SUFFICES ASSUME ApiInv, [ApiNext]_apiVars PROVE ApiInv'
    OBVIOUS
  <2>1. CASE EndpointLine
    BY <2>1, EndpointLineKeeps
  <2>2. CASE BraceLine
    BY <2>2, BraceKeeps
  <2>3. CASE VersionLine
    BY <2>3, VersionKeeps
  <2>4. CASE TypeLine
    BY <2>4, TypeLineKeeps
  <2>5. CASE \E method \in Methods : MethodLine(method)
    BY <2>5, MethodKeeps
  <2>6. CASE \E path \in Paths : PathLine(path)
    BY <2>6, PathKeeps
  <2>7. CASE \E names \in ErrorLists : ErrorsLine(names)
    BY <2>7, ErrorsKeeps
  <2>8. CASE \E field \in Fields : FieldLine(field)
    BY <2>8, FieldKeeps
  <2>9. CASE GenerateApi
    BY <2>9, GenerateKeeps
  <2>10. CASE WriteError
    BY <2>10, WriteErrorKeeps
  <2>11. CASE NextEndpoint
    BY <2>11, NextEndpointKeeps
  <2>12. CASE Serve
    BY <2>12, ServeKeeps
  <2>13. CASE \E method \in Methods, path \in Paths : Dispatch(method, path)
    BY <2>13, DispatchKeeps
  <2>14. CASE TransportLine
    BY <2>14, TransportKeeps
  <2>15. CASE \E field \in Fields : TypeOnLine(field)
    BY <2>15, TypeOnLineKeeps
  <2>16. CASE UNCHANGED apiVars
    BY <2>16, ApiStutters
  <2> QED BY <2>1, <2>2, <2>3, <2>4, <2>5, <2>6, <2>7, <2>8, <2>9, <2>10, <2>11, <2>12, <2>13,
             <2>14, <2>15, <2>16 DEF ApiNext
<1> QED BY <1>1, ApiInitInv, PTL DEF ApiSpec
LEMMA OneLastWord ==
  ASSUME ApiInv, NEW b, NEW k, NEW d, NEW v, NEW w, LastSays(b, k, d, v), LastSays(b, k, d, w)
  PROVE  v = w
<1>1. Entries(b, k) \subseteq Nat
  BY ApiParts DEF Entries
<1>2. CASE Entries(b, k) = {}
  BY <1>2 DEF LastSays
<1>3. CASE Entries(b, k) # {}
  <2>1. PICK i \in Entries(b, k) : apiText[i].value = v /\ \A j \in Entries(b, k) : j <= i
    BY <1>3 DEF LastSays
  <2>2. PICK l \in Entries(b, k) : apiText[l].value = w /\ \A j \in Entries(b, k) : j <= l
    BY <1>3 DEF LastSays
  <2>3. i = l
    BY <1>1, <2>1, <2>2
  <2> QED BY <2>1, <2>2, <2>3
<1> QED BY <1>2, <1>3

LEMMA RequestsReach == ApiInv => RequestsReachTheirEndpoint
<1> SUFFICES ASSUME ApiInv PROVE RequestsReachTheirEndpoint
  OBVIOUS
<1> DEFINE Says(e) == /\ LastSays(<<"endpoint", e>>, "method", Get, answer.method)
                      /\ LastSays(<<"endpoint", e>>, "path", NoPath, answer.path)
<1>1. PICK n \in Nat : n = Len(endpoints) /\ DOMAIN endpoints = 1..n
  BY ApiParts
<1>2. \A e \in 1..n : /\ LastSays(<<"endpoint", e>>, "method", Get, endpoints[e].method)
                      /\ LastSays(<<"endpoint", e>>, "path", NoPath, endpoints[e].path)
  BY <1>1 DEF ApiInv, BlocksAreSaid, EndpointIsSaid
<1>3. /\ answer.by \in 0..n
      /\ answer.by # Answer404 => /\ endpoints[answer.by].method = answer.method
                                  /\ endpoints[answer.by].path = answer.path
      /\ answer.path # NoPath =>
           \A e \in 1..n :
             endpoints[e].method = answer.method /\ endpoints[e].path = answer.path =>
               answer.by \in 1..e
  BY <1>1 DEF ApiInv, AnswerFits
<1>4. answer.by # Answer404 => Says(answer.by)
  <2>1. answer.by # Answer404 => answer.by \in 1..n
    BY <1>3 DEF Answer404
  <2> QED BY <1>2, <1>3, <2>1
<1>5. ASSUME answer.path # NoPath, NEW e \in DOMAIN endpoints, Says(e)
      PROVE  answer.by \in 1..e
  <2>1. e \in 1..n
    BY <1>1
  <2>2. endpoints[e].method = answer.method
    BY <1>2, <1>5, <2>1, OneLastWord
  <2>3. endpoints[e].path = answer.path
    BY <1>2, <1>5, <2>1, OneLastWord
  <2> QED BY <1>3, <1>5, <2>1, <2>2, <2>3
<1> QED BY <1>4, <1>5 DEF RequestsReachTheirEndpoint

LEMMA ErrorsStand == ApiInv => ErrorsAreWritten /\ StringsFollowTheEnum
<1> SUFFICES ASSUME ApiInv PROVE ErrorsAreWritten /\ StringsFollowTheEnum
  OBVIOUS
<1>1. PICK n \in Nat, k \in Nat : /\ n = Len(errorEnum) /\ k = Len(errorStrings) /\ n <= k
                                  /\ DOMAIN errorEnum = 1..n /\ DOMAIN errorStrings = 1..k
  <2>1. errorEnum \in Seq(Codes) /\ errorStrings \in Seq(Codes)
    BY DEF ApiInv, ErrorsFit
  <2>2. Len(errorEnum) \in Nat /\ Len(errorStrings) \in Nat
        /\ DOMAIN errorEnum = 1..Len(errorEnum) /\ DOMAIN errorStrings = 1..Len(errorStrings)
    BY <2>1
  <2> QED BY <2>2 DEF ApiInv, TablesMatch
<1>2. ErrorsAreWritten
  <2>1. ASSUME apiPhase = "serving", Room,
               NEW e \in DOMAIN endpoints, NEW i \in DOMAIN endpoints[e].errors
        PROVE  CodeOf(endpoints[e].errors[i]) \in ToSet(errorEnum)
    <3>1. e \in 1..Len(endpoints) /\ i \in 1..Len(endpoints[e].errors)
      <4>1. e \in 1..Len(endpoints) /\ endpoints[e] \in Endpoint
        BY ApiParts
      <4> QED BY <4>1, EndpointParts
    <3>2. errorAt[1] > Len(endpoints) /\ errorAt[1] \in Nat
      BY <2>1 DEF ApiInv, ErrorsFit
    <3>3. e < errorAt[1]
      BY <3>1, <3>2, ApiParts
    <3> QED BY <2>1, <3>1, <3>3 DEF ApiInv, ErrorsFit, IsPast
  <2> QED BY <1>1, <2>1 DEF ErrorsAreWritten, Room
<1>3. \A d, e \in 1..n : d # e => errorEnum[d] # errorEnum[e]
  BY <1>1 DEF ApiInv, TablesMatch
<1>4. ASSUME NEW e \in 1..n
      PROVE  \E first \in 1..k :
               /\ errorStrings[first] = errorEnum[e]
               /\ \A i \in 1..(first - 1) : errorStrings[i] # errorEnum[e]
               /\ (\A i, j \in 1..(first - 1) : i # j => errorStrings[i] # errorStrings[j]) =>
                    errorStrings[e] = errorEnum[e]
  <2>1. PICK f \in 1..k : StandsFirst(e, f)
    BY <1>1 DEF ApiInv, TablesMatch
  <2>2. /\ e <= f /\ errorStrings[f] = errorEnum[e]
        /\ \A i \in 1..(f - 1) : errorStrings[i] # errorEnum[e]
        /\ IF e = f THEN ~Repeats(f - 1) ELSE Repeats(f - 1)
    BY <2>1 DEF StandsFirst
  <2>3. ~Repeats(f - 1) => errorStrings[e] = errorEnum[e]
    BY <2>2
  <2>4. (\A i, j \in 1..(f - 1) : i # j => errorStrings[i] # errorStrings[j]) <=> ~Repeats(f - 1)
    BY DEF Repeats
  <2> QED BY <2>2, <2>3, <2>4
<1>5. StringsFollowTheEnum
  BY <1>1, <1>3, <1>4 DEF StringsFollowTheEnum
<1> QED BY <1>2, <1>5

\* Every endpoint is what its own block of the .api file says, and every type whose block
\* is of several lines; a request is answered by the first endpoint it is of; every error
\* that is raised is in the enum while there is room, no index of the enum is past the
\* strings, and a string is its error's own if no error was named twice before it
\* (apigen.c:176-370, :473-494, :582-629).
THEOREM ApisAreAsWritten == ApiSpec => []ApiIsAsWritten
<1>1. ApiInv => ApiIsAsWritten
  <2> SUFFICES ASSUME ApiInv PROVE ApiIsAsWritten
    OBVIOUS
  <2>1. BlocksAreAsWritten
    <3>1. apiOnLine \subseteq 1..Len(apiTypes)
      BY DEF ApiInv, ApiTyped
    <3> QED BY <3>1, ApiParts DEF ApiInv, BlocksAreSaid, EndpointIsSaid, TypeIsSaid,
               FieldEntries, VersionIsSaid, BlocksAreAsWritten
  <2> QED BY <2>1, RequestsReach, ErrorsStand DEF ApiIsAsWritten
<1> QED BY <1>1, ApiInvariant, PTL

\* The tables of endpoints, errors, types and fields stay within their limits
\* (apigen.c:186, :242, :285, :308).
THEOREM ApiTypeSafe == ApiSpec => []ApiTypeOK
<1>1. ApiInv => ApiTypeOK
  <2> SUFFICES ASSUME ApiInv PROVE ApiTypeOK
    OBVIOUS
  <2>1. ApiTyped /\ DOMAIN endpoints = 1..Len(endpoints) /\ DOMAIN apiTypes = 1..Len(apiTypes)
        /\ answer.by \in 0..Len(endpoints)
    BY ApiParts DEF ApiInv, AnswerFits
  <2> QED BY <2>1 DEF ApiTyped, ApiTypeOK
<1> QED BY <1>1, ApiInvariant, PTL
=============================================================================
