------------------------------ MODULE FsmProofs ------------------------------
(***************************************************************************)
(* Theorems about FsmRuntime, for every machine, every application and     *)
(* every depth of re-entry.                                                *)
(***************************************************************************)
EXTENDS FsmRuntime, TLAPS

\* A call in progress is carrying out a case of the machine.
CallsHaveCases ==
  \A d \in 1 .. depth :
    /\ frame[d].pc \in CallbackKinds
    /\ HasCase(frame[d].source, frame[d].event)

TypeInv == FsmTypeOK /\ CallsHaveCases

LEMMA NoCallIsFrame == NoCall \in Frame
<1>1. AnyEvent \in FsmEvents
  BY FsmAssumption DEF AnyEvent
<1> QED BY <1>1, FsmAssumption DEF NoCall, Frame

\* The case chosen for a state and event that have one is a case of theirs.
LEMMA CaseOfIsCase ==
  ASSUME NEW s, NEW e, HasCase(s, e)
  PROVE  /\ CaseOf(s, e) \in Cases
         /\ CaseOf(s, e).source = s
         /\ CaseOf(s, e).event = e
         /\ CaseOf(s, e) \in FsmCase
BY FsmAssumption DEF HasCase, CaseOf

LEMMA TypeInit == FsmInit => TypeInv
<1> SUFFICES ASSUME FsmInit PROVE TypeInv
  OBVIOUS
<1>1. FsmTypeOK
  BY NoCallIsFrame, FsmAssumption DEF FsmInit, FsmTypeOK
<1>2. CallsHaveCases
  BY FsmAssumption DEF FsmInit, CallsHaveCases
<1> QED BY <1>1, <1>2 DEF TypeInv

\* Moving the innermost call on to another callback.
LEMMA GotoKeeps ==
  ASSUME TypeInv, depth > 0, depth' = depth,
         NEW pc \in CallbackKinds, Goto(pc)
  PROVE  /\ frame' \in [1 .. MaxFrames -> Frame]
         /\ CallsHaveCases'
         /\ \A d \in 1 .. depth : /\ frame'[d].source = frame[d].source
                                  /\ frame'[d].event = frame[d].event
                                  /\ d # depth => frame'[d] = frame[d]
         /\ frame'[depth].pc = pc
<1> USE FsmAssumption
<1>1. depth \in 1 .. MaxFrames /\ frame \in [1 .. MaxFrames -> Frame]
  BY DEF TypeInv, FsmTypeOK
<1>2. frame' = [frame EXCEPT ![depth].pc = pc]
  BY DEF Goto
<1>3. \A d \in 1 .. depth : /\ frame'[d].source = frame[d].source
                            /\ frame'[d].event = frame[d].event
                            /\ d # depth => frame'[d] = frame[d]
  BY <1>1, <1>2 DEF Frame
<1>4. frame'[depth].pc = pc
  BY <1>1, <1>2 DEF Frame
<1>5. frame' \in [1 .. MaxFrames -> Frame]
  BY <1>1, <1>2 DEF Frame, CallbackKinds
<1>6. CallsHaveCases'
  BY <1>1, <1>3, <1>4 DEF TypeInv, CallsHaveCases, HasCase
<1> QED BY <1>3, <1>4, <1>5, <1>6

\* Leaving the innermost call.
LEMMA ReturnKeeps ==
  ASSUME TypeInv, depth > 0, Return
  PROVE  /\ depth' \in 0 .. MaxFrames
         /\ frame' \in [1 .. MaxFrames -> Frame]
         /\ CallsHaveCases'
         /\ \A d \in 1 .. depth' : frame'[d] = frame[d]
<1> USE FsmAssumption
<1>1. depth \in 1 .. MaxFrames /\ frame \in [1 .. MaxFrames -> Frame]
  BY DEF TypeInv, FsmTypeOK
<1>2. depth' = depth - 1 /\ frame' = [frame EXCEPT ![depth] = NoCall]
  BY DEF Return
<1>3. \A d \in 1 .. depth' : d \in 1 .. depth /\ frame'[d] = frame[d]
  BY <1>1, <1>2
<1>4. frame' \in [1 .. MaxFrames -> Frame]
  BY <1>1, <1>2, NoCallIsFrame
<1>5. CallsHaveCases'
  BY <1>3 DEF TypeInv, CallsHaveCases, HasCase
<1> QED BY <1>1, <1>2, <1>3, <1>4, <1>5

LEMMA TypeStep == TypeInv /\ [FsmNext]_fsmVars => TypeInv'
<1> SUFFICES ASSUME TypeInv, [FsmNext]_fsmVars PROVE TypeInv'
  OBVIOUS
<1> USE FsmAssumption
<1>t. /\ currentState \in FsmStates /\ depth \in 0 .. MaxFrames
      /\ frame \in [1 .. MaxFrames -> Frame] /\ entered \subseteq Paired
  BY DEF TypeInv, FsmTypeOK
<1>1. ASSUME NEW e \in FsmEvents, FsmDispatch(e) PROVE TypeInv'
  <2> DEFINE new == [pc |-> IF CaseOf(currentState, e).guard THEN "guard" ELSE "exit",
                     event |-> e, source |-> currentState]
  <2>1. /\ depth' = depth + 1 /\ depth' \in 1 .. MaxFrames
        /\ currentState' = currentState
        /\ frame' = [frame EXCEPT ![depth + 1] = new]
        /\ entered' \subseteq Paired
    BY <1>1, <1>t DEF FsmDispatch
  <2>2. new \in Frame
    BY <1>t DEF Frame, CallbackKinds
  <2>3. frame' \in [1 .. MaxFrames -> Frame]
    BY <1>t, <2>1, <2>2
  <2>4. ASSUME NEW d \in 1 .. depth'
        PROVE  frame'[d].pc \in CallbackKinds
               /\ HasCase(frame'[d].source, frame'[d].event)
    <3>1. CASE d = depth'
      <4>1. frame'[d] = new
        BY <1>t, <2>1, <3>1
      <4>2. HasCase(currentState, e)
        BY <1>1 DEF FsmDispatch
      <4> QED BY <4>1, <4>2 DEF CallbackKinds
    <3>2. CASE d # depth'
      <4>1. d \in 1 .. depth /\ frame'[d] = frame[d]
        BY <1>t, <2>1, <3>2
      <4> QED BY <4>1 DEF TypeInv, CallsHaveCases
    <3> QED BY <3>1, <3>2
  <2>5. CallsHaveCases'
    BY <2>4 DEF CallsHaveCases, HasCase
  <2> QED BY <1>t, <2>1, <2>3, <2>5 DEF TypeInv, FsmTypeOK
<1>2. CASE GuardAllows
  BY <1>2, <1>t, GotoKeeps DEF GuardAllows, At, TypeInv, FsmTypeOK, CallbackKinds
<1>3. CASE GuardRefuses
  BY <1>3, <1>t, ReturnKeeps DEF GuardRefuses, At, TypeInv, FsmTypeOK
<1>4. CASE ExitReturns
  BY <1>4, <1>t, GotoKeeps DEF ExitReturns, At, TypeInv, FsmTypeOK, CallbackKinds
<1>5. CASE Move
  <2>1. depth > 0 /\ depth' = depth /\ Goto("entry")
    BY <1>5 DEF Move, At
  <2>2. Chosen \in FsmCase
    BY <2>1, <1>t, CaseOfIsCase DEF Chosen, F, TypeInv, CallsHaveCases
  <2>3. currentState' \in FsmStates /\ entered' \subseteq Paired
    BY <1>5, <1>t, <2>2 DEF Move, FsmCase
  <2> QED BY <2>1, <2>3, <1>t, GotoKeeps DEF TypeInv, FsmTypeOK, CallbackKinds
<1>6. CASE Finish
  BY <1>6, <1>t, ReturnKeeps DEF Finish, At, TypeInv, FsmTypeOK
<1>7. CASE UNCHANGED fsmVars
  BY <1>7 DEF fsmVars, TypeInv, FsmTypeOK, CallsHaveCases, HasCase
<1> QED BY <1>1, <1>2, <1>3, <1>4, <1>5, <1>6, <1>7 DEF FsmNext, Step

\* Every variable of the generated machine stays in its type: dispatch never
\* leaves it in a state that the .sm file does not have.
THEOREM TypeSafe == FsmSpec => []FsmTypeOK
<1>1. FsmSpec => []TypeInv
  BY TypeInit, TypeStep, PTL DEF FsmSpec
<1>2. TypeInv => FsmTypeOK
  BY DEF TypeInv
<1> QED BY <1>1, <1>2, PTL

-----------------------------------------------------------------------------
(* Entry callbacks that dispatch.                                          *)

\* Only the innermost call is anywhere else than in its entry callback, and
\* until it moves the machine is in the state of its case.
OthersInEntry == \A d \in 1 .. depth : d # depth => frame[d].pc = "entry"

TopIsCurrent ==
  depth > 0 /\ frame[depth].pc \in {"guard", "exit", "action"}
    => frame[depth].source = currentState

PairInv == TypeInv /\ OthersInEntry /\ TopIsCurrent /\ InsideCurrentState

LEMMA PairInit == FsmInit => PairInv
<1> SUFFICES ASSUME FsmInit PROVE PairInv
  OBVIOUS
<1>1. TypeInv
  BY TypeInit
<1>2. depth = 0 /\ entered = {currentState} \cap Paired
  BY DEF FsmInit
<1> QED BY <1>1, <1>2
        DEF PairInv, OthersInEntry, TopIsCurrent, InsideCurrentState

\* When the innermost call returns, the one it interrupted, if any, was in its
\* entry callback.
LEMMA PairReturn ==
  ASSUME PairInv, TypeInv', depth > 0, Return, UNCHANGED currentState,
         entered' = {currentState} \cap Paired
  PROVE  PairInv'
<1>1. depth \in Nat /\ depth' = depth - 1
  BY FsmAssumption DEF PairInv, TypeInv, FsmTypeOK, Return
<1>2. \A d \in 1 .. depth' : frame'[d].pc = "entry"
  BY <1>1, ReturnKeeps DEF PairInv, OthersInEntry
<1>3. depth' > 0 => F'.pc = "entry"
  BY <1>1, <1>2 DEF F
<1>4. OthersInEntry'
  BY <1>2 DEF OthersInEntry
<1>5. TopIsCurrent'
  BY <1>3 DEF TopIsCurrent, F
<1>6. InsideCurrentState'
  BY <1>3 DEF InsideCurrentState
<1> QED BY <1>4, <1>5, <1>6 DEF PairInv

\* A step of the innermost call from one callback to the next.
LEMMA PairGoto ==
  ASSUME PairInv, TypeInv', depth > 0, depth' = depth,
         NEW pc \in CallbackKinds, Goto(pc),
         pc # "entry" => frame[depth].source = currentState',
         entered' = IF pc \in {"exit", "action"} THEN {} ELSE {currentState'} \cap Paired
  PROVE  PairInv'
<1>1. depth \in Nat
  BY DEF PairInv, TypeInv, FsmTypeOK
<1>2. /\ \A d \in 1 .. depth : /\ frame'[d].source = frame[d].source
                               /\ d # depth => frame'[d] = frame[d]
      /\ frame'[depth].pc = pc
  BY GotoKeeps DEF PairInv
<1>3. OthersInEntry'
  BY <1>2 DEF PairInv, OthersInEntry
<1>4. TopIsCurrent'
  BY <1>1, <1>2 DEF TopIsCurrent
<1>5. InsideCurrentState'
  BY <1>2 DEF InsideCurrentState, F
<1> QED BY <1>3, <1>4, <1>5 DEF PairInv

LEMMA PairStep ==
  ASSUME Reentrant \subseteq {"entry"}
  PROVE  PairInv /\ [FsmNext]_fsmVars => PairInv'
<1> SUFFICES ASSUME PairInv, [FsmNext]_fsmVars PROVE PairInv'
  OBVIOUS
<1>t. /\ TypeInv /\ currentState \in FsmStates /\ depth \in 0 .. MaxFrames
      /\ frame \in [1 .. MaxFrames -> Frame] /\ MaxFrames \in Nat
  BY FsmAssumption DEF PairInv, TypeInv, FsmTypeOK
<1>p. TypeInv'
  BY <1>t, TypeStep
<1>1. ASSUME NEW e \in FsmEvents, FsmDispatch(e) PROVE PairInv'
  <2> DEFINE guarded == CaseOf(currentState, e).guard
             new == [pc |-> IF guarded THEN "guard" ELSE "exit",
                     event |-> e, source |-> currentState]
  <2>0. depth = 0 \/ frame[depth].pc = "entry"
    BY <1>1 DEF FsmDispatch, InCallback, F
  <2>1. /\ depth' = depth + 1 /\ depth + 1 \in 1 .. MaxFrames
        /\ frame' = [frame EXCEPT ![depth + 1] = new]
        /\ currentState' = currentState
        /\ entered' = IF guarded THEN entered ELSE entered \ {currentState}
    BY <1>1, <1>t DEF FsmDispatch
  <2>2. frame'[depth'] = new /\ \A d \in 1 .. depth : frame'[d] = frame[d]
    BY <1>t, <2>1
  <2>3. entered = {currentState} \cap Paired
    BY <2>0 DEF PairInv, InsideCurrentState, F
  <2>4. OthersInEntry'
    BY <1>t, <2>0, <2>1, <2>2 DEF PairInv, OthersInEntry
  <2>5. TopIsCurrent'
    BY <2>1, <2>2 DEF TopIsCurrent
  <2>6. InsideCurrentState'
    <3>1. depth' > 0 /\ F' = new
      BY <1>t, <2>1, <2>2 DEF F
    <3>2. CASE guarded
      BY <2>1, <2>3, <3>1, <3>2 DEF InsideCurrentState
    <3>3. CASE ~guarded
      BY <2>1, <2>3, <3>1, <3>3 DEF InsideCurrentState
    <3> QED BY <3>2, <3>3
  <2> QED BY <1>p, <2>4, <2>5, <2>6 DEF PairInv
<1>2. CASE GuardAllows
  <2>1. /\ depth > 0 /\ depth' = depth /\ currentState' = currentState /\ Goto("exit")
        /\ frame[depth].pc = "guard" /\ entered' = entered \ {frame[depth].source}
    BY <1>2 DEF GuardAllows, At, F
  <2>2. frame[depth].source = currentState /\ entered = {currentState} \cap Paired
    BY <2>1 DEF PairInv, TopIsCurrent, InsideCurrentState, F
  <2>3. entered' = {}
    BY <2>1, <2>2
  <2> QED BY <1>p, <2>1, <2>2, <2>3, PairGoto DEF CallbackKinds
<1>3. CASE GuardRefuses
  <2>1. depth > 0 /\ F.pc = "guard" /\ Return /\ UNCHANGED <<currentState, entered>>
    BY <1>3 DEF GuardRefuses, At
  <2>2. entered' = {currentState} \cap Paired
    BY <2>1 DEF PairInv, InsideCurrentState
  <2> QED BY <1>p, <2>1, <2>2, PairReturn
<1>4. CASE ExitReturns
  <2>1. /\ depth > 0 /\ depth' = depth /\ currentState' = currentState /\ Goto("action")
        /\ frame[depth].pc = "exit" /\ entered' = entered
    BY <1>4 DEF ExitReturns, At, F
  <2>2. frame[depth].source = currentState /\ entered = {}
    BY <2>1 DEF PairInv, TopIsCurrent, InsideCurrentState, F
  <2> QED BY <1>p, <2>1, <2>2, PairGoto DEF CallbackKinds
<1>5. CASE Move
  <2>1. /\ depth > 0 /\ depth' = depth /\ Goto("entry") /\ F.pc = "action"
        /\ currentState' = Chosen.target
        /\ entered' = entered \union ({Chosen.target} \cap Paired)
    BY <1>5 DEF Move, At
  <2>2. entered' = {currentState'} \cap Paired
    BY <2>1 DEF PairInv, InsideCurrentState
  <2> QED BY <1>p, <2>1, <2>2, PairGoto DEF CallbackKinds
<1>6. CASE Finish
  <2>1. depth > 0 /\ F.pc = "entry" /\ Return /\ UNCHANGED <<currentState, entered>>
    BY <1>6 DEF Finish, At
  <2>2. entered' = {currentState} \cap Paired
    BY <2>1 DEF PairInv, InsideCurrentState
  <2> QED BY <1>p, <2>1, <2>2, PairReturn
<1>7. CASE UNCHANGED fsmVars
  BY <1>7, <1>p DEF fsmVars, PairInv, OthersInEntry, TopIsCurrent,
                    InsideCurrentState, F
<1> QED BY <1>1, <1>2, <1>3, <1>4, <1>5, <1>6, <1>7 DEF FsmNext, Step

LEMMA PairInvariant ==
  ASSUME Reentrant \subseteq {"entry"}
  PROVE  FsmSpec => []PairInv
BY PairInit, PairStep, PTL DEF FsmSpec

\* If the application dispatches from entry callbacks only, it is told to enter
\* and to exit each state alternately, and is always inside the current one.
THEOREM EntryExitPaired ==
  ASSUME Reentrant \subseteq {"entry"}
  PROVE  FsmSpec => []InsideCurrentState
<1>1. PairInv => InsideCurrentState
  BY DEF PairInv
<1> QED BY <1>1, PairInvariant, PTL

\* Nor is a case ever carried out from a state the machine has left.
THEOREM CasesAreCurrent ==
  ASSUME Reentrant \subseteq {"entry"}
  PROVE  FsmSpec => []CaseIsCurrent
<1>1. PairInv => CaseIsCurrent
  BY DEF PairInv, OthersInEntry, TopIsCurrent, CaseIsCurrent
<1> QED BY <1>1, PairInvariant, PTL

-----------------------------------------------------------------------------
(* Refinement: a flat machine is HsmMachine without a hierarchy.           *)

\* The case of the hierarchical machine that a case of the flat one is.
Lifted(c) ==
  [source |-> c.source, event |-> c.event, guard |-> c.guard,
   action |-> c.action, target |-> c.target, history |-> FALSE]

\* In a hierarchy of roots a state has nothing below it.
LEMMA FlatBelow ==
  ASSUME NEW p \in FsmStates
  PROVE  Promise!Below[p] = {p}
<1> DEFINE Closed(S) == p \in S /\ \A c \in FsmStates :
                          [s \in FsmStates |-> 0][c] \in S => c \in S
<1>1. Promise!Below[p] =
        {s \in FsmStates : \A S \in SUBSET FsmStates : Closed(S) => s \in S}
  BY DEF Promise!Below, Promise!State, FsmStates
<1>2. Closed({p})
  BY DEF FsmStates
<1>3. {p} \in SUBSET FsmStates
  OBVIOUS
<1>4. \A S \in SUBSET FsmStates : Closed(S) => p \in S
  OBVIOUS
<1> HIDE DEF Closed
<1> QED BY <1>1, <1>2, <1>3, <1>4

LEMMA MoveIsTake ==
  ASSUME PairInv, Move
  PROVE  Promise!Next
<1> DEFINE c == Lifted(Chosen)
<1>1. /\ depth \in 1 .. MaxFrames /\ F.pc = "action"
      /\ currentState' = Chosen.target
  BY FsmAssumption DEF PairInv, TypeInv, FsmTypeOK, Move, At
<1>2. /\ Chosen \in Cases /\ Chosen.source = F.source /\ Chosen \in FsmCase
  BY <1>1, CaseOfIsCase DEF Chosen, F, PairInv, TypeInv, CallsHaveCases
<1>3. Chosen.source = currentState
  BY <1>1, <1>2 DEF PairInv, TopIsCurrent, F
<1>4. c.source \in FsmStates /\ c.target \in FsmStates /\ c.source = currentState
      /\ c.target = Chosen.target /\ c.history = FALSE
  BY <1>2, <1>3 DEF Lifted, FsmCase
<1>5. Promise!Below[c.source] = {c.source}
  BY <1>4, FlatBelow
<1>6. Promise!MayTake(c)
  BY <1>4, <1>5 DEF Promise!MayTake
<1>7. [s \in FsmStates |-> 0]' = [s \in Promise!State |->
        IF s = [t \in FsmStates |-> 0][c.source] THEN currentState
        ELSE [t \in FsmStates |-> 0][s]]
  BY <1>4 DEF FsmStates, Promise!State
<1>8. c.target # 0 /\ currentState' = c.target
  BY <1>1, <1>4 DEF FsmStates
<1>9. Promise!Take(c)
  BY <1>4, <1>6, <1>7, <1>8 DEF Promise!Take
<1>10. c \in {[source |-> d.source, event |-> d.event, guard |-> d.guard,
               action |-> d.action, target |-> d.target, history |-> FALSE] :
                d \in Cases}
  BY <1>2 DEF Lifted
<1> QED BY <1>9, <1>10 DEF Promise!Next

\* If the application dispatches from entry callbacks only, the generated code
\* implements the machine the .sm file describes: each step of it is one
\* dispatch of HsmMachine, taken from the current state, or changes nothing.
THEOREM FsmImplementsMachine ==
  ASSUME Reentrant \subseteq {"entry"}
  PROVE  FsmSpec => Promise!Spec /\ DispatchIsOneStep
<1>1. FsmInit => Promise!Init
  BY DEF FsmInit, Promise!Init, Promise!State, FsmStates
<1>2. PairInv /\ [FsmNext]_fsmVars => [Promise!Next]_(Promise!vars)
  <2> SUFFICES ASSUME PairInv, [FsmNext]_fsmVars, ~Move
               PROVE  UNCHANGED Promise!vars
    BY MoveIsTake
  <2>1. currentState' = currentState
    BY DEF FsmNext, Step, FsmDispatch, GuardAllows, GuardRefuses, ExitReturns, Finish,
           fsmVars
  <2> QED BY <2>1 DEF Promise!vars, FsmStates
<1>3. [Promise!Next]_(Promise!vars) =>
        [UNCHANGED Promise!vars \/ Promise!Next]_(Promise!vars)
  OBVIOUS
<1> QED BY <1>1, <1>2, <1>3, PairInvariant, PTL
        DEF FsmSpec, DispatchIsOneStep, Promise!Spec
=============================================================================
