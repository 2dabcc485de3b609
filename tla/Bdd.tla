-------------------------------- MODULE Bdd --------------------------------
(***************************************************************************)
(* bddgen (tools/bddgen/bddgen.c): what parse_feature makes of a Gherkin   *)
(* file, the tables of scenarios and steps it prints, and the runner       *)
(* run_all beside them, which carries out the step functions.              *)
(*                                                                         *)
(* Steps and scenarios are numbered from 1 where the code starts at 0.     *)
(* Every step remembers, for the properties only, the block it is counted  *)
(* in: <<f, 0>> is the Background of feature f, <<f, s>> its scenario s,    *)
(* and its place among the steps of that block.                            *)
(***************************************************************************)
EXTENDS Naturals, Sequences, FiniteSets

CONSTANTS
  MaxFeatures, MaxScenarios, MaxSteps,    \* MAX_FEATURES, MAX_SCENARIOS, MAX_STEPS
  MaxBddLines                             \* bound: the lines of a file

ASSUME BddAssumption ==
  {MaxFeatures, MaxScenarios, MaxSteps, MaxBddLines} \subseteq Nat

Keywords == {"Given", "When", "Then"}
Conjunctions == {"And", "But"}

VARIABLES
  features,       \* features[0 .. feature_count - 1]
  bddSteps,       \* steps[0 .. step_count - 1]
  bddParser,      \* the local variables of parse_feature
  bddLines,       \* the lines read
  run             \* the call of run_all

bddVars == <<features, bddSteps, bddParser, bddLines, run>>

NoScenario == <<0, 0>>

BddInit ==
  /\ features = <<>>
  /\ bddSteps = <<>>
  /\ bddParser = [scenario |-> NoScenario, inBackground |-> FALSE, last |-> "Given",
                  refused |-> FALSE, dropped |-> 0, lost |-> 0]
  /\ bddLines = 0
  /\ run = [state |-> "none", scenario |-> 0, step |-> 0, passed |-> TRUE, log |-> <<>>,
            scenarios |-> 0, failedScenarios |-> 0, steps |-> 0, failedSteps |-> 0]

-----------------------------------------------------------------------------
(* parse_feature, by kind of line. *)

ReadsFeature ==
  /\ run.state = "none" /\ ~bddParser.refused
  /\ bddLines < MaxBddLines
  /\ bddLines' = bddLines + 1
  /\ UNCHANGED run

\* "Too many features", "Too many scenarios": parse_feature returns -1.
Refuse ==
  /\ bddParser' = [bddParser EXCEPT !.refused = TRUE]
  /\ UNCHANGED <<features, bddSteps>>

\* The scenario and in_background of the feature before stay as they are.
FeatureLine ==
  /\ ReadsFeature
  /\ IF Len(features) >= MaxFeatures THEN Refuse
     ELSE /\ features' = Append(features, [scenarios |-> <<>>, background |-> 0])
          /\ UNCHANGED <<bddSteps, bddParser>>

BackgroundLine ==
  /\ ReadsFeature /\ features # <<>>
  /\ bddParser' = [bddParser EXCEPT !.inBackground = TRUE, !.scenario = NoScenario]
  /\ UNCHANGED <<features, bddSteps>>

\* Mutation of ScenarioLine: step_start leaves the Background's steps out.
ScenarioLineFromCounts ==
  /\ ReadsFeature /\ features # <<>>
  /\ LET f == Len(features)
         own == {i \in DOMAIN bddSteps : bddSteps[i].block[2] # 0}
     IN IF Len(features[f].scenarios) = MaxScenarios THEN Refuse
        ELSE /\ features' = [features EXCEPT ![f].scenarios =
                               Append(@, [start |-> Cardinality(own) + 1, count |-> 0])]
             /\ bddParser' = [bddParser EXCEPT !.inBackground = FALSE,
                                 !.scenario = <<f, Len(features[f].scenarios) + 1>>]
             /\ UNCHANGED bddSteps

ScenarioLine ==
  /\ ReadsFeature /\ features # <<>>
  /\ LET f == Len(features)
         s == Len(features[f].scenarios) + 1
     IN IF s > MaxScenarios THEN Refuse
        ELSE /\ features' = [features EXCEPT ![f].scenarios =
                               Append(@, [start |-> Len(bddSteps) + 1, count |-> 0])]
             /\ bddParser' = [bddParser EXCEPT !.inBackground = FALSE,
                                               !.scenario = <<f, s>>]
             /\ UNCHANGED bddSteps

\* The block a step line belongs to, or NoScenario where steps are passed over.
BlockOfStep ==
  IF bddParser.inBackground THEN <<Len(features), 0>> ELSE bddParser.scenario

StepsOf(block) == {i \in DOMAIN bddSteps : bddSteps[i].block = block}

\* parse_step: And and But stand for the keyword of the last step that has one.
Resolved(keyword) ==
  IF keyword \in Conjunctions THEN bddParser.last ELSE keyword

\* The counts go up whether or not there was room for the step.
CountStep(block) ==
  features' = IF block[2] = 0
              THEN [features EXCEPT ![block[1]].background = @ + 1]
              ELSE [features EXCEPT ![block[1]].scenarios[block[2]].count = @ + 1]

StepLine(keyword) ==
  LET block == BlockOfStep
      room == Len(bddSteps) < MaxSteps
  IN /\ ReadsFeature
     /\ IF block = NoScenario
        THEN /\ bddParser' = [bddParser EXCEPT !.lost = @ + 1]
             /\ UNCHANGED <<features, bddSteps>>
        ELSE /\ CountStep(block)
             /\ IF room
                THEN /\ bddSteps' = Append(bddSteps,
                          [keyword |-> keyword, resolved |-> Resolved(keyword),
                           block |-> block, place |-> Cardinality(StepsOf(block)) + 1])
                     /\ bddParser' = [bddParser EXCEPT !.last = Resolved(keyword)]
                ELSE /\ bddParser' = [bddParser EXCEPT !.dropped = @ + 1]
                     /\ UNCHANGED bddSteps

-----------------------------------------------------------------------------
(* The generated tables.  scenarios[] lists those of all features, with the *)
(* sum of the counts so far as the first step; scenario_count is that of    *)
(* the first feature.                                                       *)

ScenarioCount == IF features = <<>> THEN 0 ELSE Len(features[1].scenarios)

\* Before the n-th scenario of the first feature, whose rows come first.
SumBefore[n \in Nat] ==
  IF n <= 1 THEN 0 ELSE SumBefore[n - 1] + features[1].scenarios[n - 1].count

StepStart(n) == 1 + SumBefore[n]
StepTotal(n) == features[1].scenarios[n].count

-----------------------------------------------------------------------------
(* The generated runner.  log is what it has carried out. *)

RunAll ==
  /\ run.state = "none" /\ ~bddParser.refused /\ features # <<>>
  /\ run' = [run EXCEPT !.state = "running", !.scenario = 1]
  /\ UNCHANGED <<features, bddSteps, bddParser, bddLines>>

InScenario == run.state = "running" /\ run.scenario <= ScenarioCount

NextStep == StepStart(run.scenario) + run.step

\* The loop goes on while there are steps of the scenario and of the table.
HasStep == run.step < StepTotal(run.scenario) /\ NextStep <= Len(bddSteps)

\* A step function passes, or returns any other result: the scenario goes on.
RunStep(passes) ==
  /\ InScenario /\ HasStep
  /\ run' = [run EXCEPT !.step = @ + 1,
                        !.log = Append(@, [scenario |-> run.scenario, step |-> NextStep,
                                           passes |-> passes]),
                        !.steps = @ + 1,
                        !.failedSteps = IF passes THEN @ ELSE @ + 1,
                        !.passed = @ /\ passes]
  /\ UNCHANGED <<features, bddSteps, bddParser, bddLines>>

\* Mutation of EndScenario: passed is not set again.
EndScenarioKeeps ==
  /\ InScenario /\ ~HasStep
  /\ run' = [run EXCEPT !.scenario = @ + 1, !.step = 0,
                        !.scenarios = @ + 1,
                        !.failedScenarios = IF run.passed THEN @ ELSE @ + 1]
  /\ UNCHANGED <<features, bddSteps, bddParser, bddLines>>

EndScenario ==
  /\ InScenario /\ ~HasStep
  /\ run' = [run EXCEPT !.scenario = @ + 1, !.step = 0, !.passed = TRUE,
                        !.scenarios = @ + 1,
                        !.failedScenarios = IF run.passed THEN @ ELSE @ + 1]
  /\ UNCHANGED <<features, bddSteps, bddParser, bddLines>>

EndRun ==
  /\ run.state = "running" /\ ~InScenario
  /\ run' = [run EXCEPT !.state = "done"]
  /\ UNCHANGED <<features, bddSteps, bddParser, bddLines>>

BddNext ==
  \/ FeatureLine \/ BackgroundLine \/ ScenarioLine
  \/ \E keyword \in Keywords \cup Conjunctions : StepLine(keyword)
  \/ RunAll
  \/ \E passes \in BOOLEAN : RunStep(passes)
  \/ EndScenario \/ EndRun

BddSpec == BddInit /\ [][BddNext]_bddVars

-----------------------------------------------------------------------------
(* Properties. *)

Logged == {run.log[k] : k \in DOMAIN run.log}

\* The tables stay within their limits, and the runner within the tables
\* (bddgen.c:156, :242, :277, :533).
BddTypeOK ==
  /\ Len(features) <= MaxFeatures /\ Len(bddSteps) <= MaxSteps
  /\ \A f \in DOMAIN features : Len(features[f].scenarios) <= MaxScenarios
  /\ \A i \in DOMAIN bddSteps :
       /\ bddSteps[i].keyword \in Keywords \cup Conjunctions
       /\ bddSteps[i].resolved \in Keywords
  /\ bddParser.last \in Keywords
  /\ run.state \in {"none", "running", "done"}
  /\ \A e \in Logged : e.scenario \in 1..ScenarioCount /\ e.step \in DOMAIN bddSteps

\* The parser's range of a scenario is the scenario: what it counts lies in one
\* piece in the table, in the order of the file, whatever lines come in between,
\* as long as the table has room (bddgen.c:282-285, :306-312).
RangesAreScenarios ==
  bddParser.dropped = 0 =>
    \A f \in DOMAIN features : \A s \in DOMAIN features[f].scenarios :
      LET sc == features[f].scenarios[s]
      IN /\ StepsOf(<<f, s>>) = sc.start..(sc.start + sc.count - 1)
         /\ \A i \in StepsOf(<<f, s>>) : bddSteps[i].place = i - sc.start + 1

\* And and But mean the last Given, When or Then before them in their scenario, or in
\* their part of a Background that a scenario cuts in two.  Of a scenario that begins
\* with one of them nothing is said: it takes the keyword of the scenario before, and
\* so does the second part of a Background (bddgen.c:176-182).
AndKeepsToItsScenario ==
  \A i \in DOMAIN bddSteps :
    LET before == {j \in 1..(i - 1) :
                     /\ bddSteps[j].keyword \in Keywords
                     /\ \A k \in j..i : bddSteps[k].block = bddSteps[i].block}
    IN bddSteps[i].keyword \in Conjunctions /\ before # {} =>
         \E j \in before : /\ \A k \in before : k <= j
                          /\ bddSteps[i].resolved = bddSteps[j].keyword

\* The k-th step that is run is the next one of its scenario.
RunsItsOwn(k) ==
  LET e == run.log[k]
  IN /\ e.step \in StepsOf(<<1, e.scenario>>)
     /\ bddSteps[e.step].place =
          Cardinality({j \in 1..k : run.log[j].scenario = e.scenario})

\* A scenario runs its own steps, once each and in order, as a feature file has them
\* (specs/testing/e9livereload.feature:6-17).  BddBackground.cfg: the printed ranges
\* leave the Background out and the table of steps does not (bddgen.c:477-486, :501-510).
ScenariosRunTheirSteps ==
  bddParser.dropped = 0 => \A k \in DOMAIN run.log : RunsItsOwn(k)

\* The steps of the Background that come before scenario n.
BackgroundBefore(n) ==
  {i \in StepsOf(<<1, 0>>) : i < features[1].scenarios[n].start}

\* A scenario that no step of a Background comes before does run its own steps, whatever
\* scenarios and features there are besides (bddgen.c:477-486, :530-537).
BareScenariosRunTheirSteps ==
  bddParser.dropped = 0 =>
    \A k \in DOMAIN run.log : BackgroundBefore(run.log[k].scenario) = {} => RunsItsOwn(k)

\* When the run is over every step of every scenario has been counted, a step
\* that did not pass fails its own scenario and no other, and a failure keeps no
\* later step from running (bddgen.c:530-558).
FailuresStayInTheirScenario ==
  /\ run.steps = Len(run.log)
  /\ run.failedSteps = Cardinality({k \in DOMAIN run.log : ~run.log[k].passes})
  /\ run.failedScenarios =
       Cardinality({n \in 1..(run.scenario - 1) :
                      \E e \in Logged : e.scenario = n /\ ~e.passes})
  /\ run.state = "done" /\ bddParser.dropped = 0 =>
       /\ run.scenarios = ScenarioCount
       /\ \A n \in 1..ScenarioCount :
            Cardinality({k \in DOMAIN run.log : run.log[k].scenario = n}) = StepTotal(n)

\* What the parser makes of a feature: ranges and keywords.
StepsAreAsWritten == RangesAreScenarios /\ AndKeepsToItsScenario

\* What the runner makes of the tables: which steps run in a scenario, and which
\* scenario a failing step fails.
RunnerFollowsTheRanges == BareScenariosRunTheirSteps /\ FailuresStayInTheirScenario
=============================================================================
