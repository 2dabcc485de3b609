------------------------------ MODULE HsmProofs ------------------------------
(***************************************************************************)
(* Theorems about HsmRuntime and HsmObserved, for every hierarchy, every   *)
(* application and every depth of re-entry, after the lemmas about the     *)
(* tree of states they rest on: what Below is, for every table whose       *)
(* parents come before their children.                                     *)
(***************************************************************************)
EXTENDS HsmObserved, TLAPS

\* p and all the children of members.
Closed(p, S) == p \in S /\ \A c \in State : Parent[c] \in S => c \in S

LEMMA BelowDef ==
  ASSUME NEW p \in State
  PROVE  Below[p] = {s \in State : \A S \in SUBSET State : Closed(p, S) => s \in S}
BY DEF Below, Closed

\* Below[p] is contained in every closed set, and is one.
LEMMA BelowInduction ==
  ASSUME NEW p \in State, NEW S \in SUBSET State, Closed(p, S)
  PROVE  Below[p] \subseteq S
BY BelowDef

LEMMA BelowClosed ==
  ASSUME NEW p \in State
  PROVE  Closed(p, Below[p]) /\ Below[p] \subseteq State
<1>1. p \in Below[p]
  BY BelowDef DEF Closed
<1>2. ASSUME NEW c \in State, Parent[c] \in Below[p]
      PROVE  c \in Below[p]
  <2> SUFFICES ASSUME NEW S \in SUBSET State, Closed(p, S) PROVE c \in S
    BY BelowDef
  <2>1. Parent[c] \in S
    BY <1>2, BelowInduction
  <2> QED BY <2>1 DEF Closed
<1> QED BY <1>1, <1>2, BelowDef DEF Closed

\* A state below p other than p has its parent below p.
LEMMA BelowParent ==
  ASSUME NEW p \in State, NEW s \in Below[p], s # p
  PROVE  Parent[s] \in Below[p]
<1> DEFINE S == {x \in Below[p] : x = p \/ Parent[x] \in Below[p]}
<1>1. S \in SUBSET State
  BY BelowClosed
<1>2. Closed(p, S)
  BY BelowClosed DEF Closed
<1> HIDE DEF S
<1>3. s \in S
  BY <1>1, <1>2, BelowInduction
<1> QED BY <1>3 DEF S

\* Numbers grow downwards.
LEMMA BelowGrows ==
  ASSUME NEW p \in State, NEW s \in Below[p]
  PROVE  p <= s
<1> DEFINE S == {x \in State : p <= x}
<1>1. Closed(p, S)
  <2>1. p \in S
    BY DEF State
  <2>2. ASSUME NEW c \in State, Parent[c] \in S PROVE c \in S
    BY <2>2, HierarchyAssumption DEF IsHierarchy, State
  <2> QED BY <2>1, <2>2 DEF Closed
<1> HIDE DEF S
<1>2. s \in S
  BY <1>1, BelowInduction DEF S
<1> QED BY <1>2 DEF S

\* Below a child is below its parent, and the parent is not below the child.
LEMMA BelowChild ==
  ASSUME NEW c \in State, Parent[c] # 0
  PROVE  /\ Parent[c] \in State
         /\ Below[c] \subseteq Below[Parent[c]] \ {Parent[c]}
<1>1. Parent[c] \in State /\ Parent[c] < c
  BY HierarchyAssumption DEF IsHierarchy, State
<1>2. c \in Below[Parent[c]]
  BY <1>1, BelowClosed DEF Closed
<1>3. Closed(c, Below[Parent[c]]) /\ Below[Parent[c]] \in SUBSET State
  BY <1>1, <1>2, BelowClosed DEF Closed
<1>4. Parent[c] \notin Below[c]
  BY <1>1, BelowGrows DEF State
<1> QED BY <1>1, <1>3, <1>4, BelowInduction

\* What is below a state below p is below p.
LEMMA BelowWithin ==
  ASSUME NEW p \in State, NEW s \in Below[p]
  PROVE  Below[s] \subseteq Below[p]
BY BelowClosed, BelowInduction DEF Closed

\* The states above a state form a chain.
LEMMA BelowChain ==
  ASSUME NEW a \in State, NEW b \in State, NEW s \in Below[a], s \in Below[b]
  PROVE  a \in Below[b] \/ b \in Below[a]
<1> SUFFICES ASSUME a \notin Below[b], b \notin Below[a] PROVE FALSE
  OBVIOUS
<1> DEFINE S == Below[b] \ Below[a]
<1>1. S \in SUBSET State /\ b \in S
  BY BelowClosed DEF Closed
<1>2. ASSUME NEW c \in State, Parent[c] \in S PROVE c \in S
  <2>1. c \in Below[b]
    BY <1>2, BelowClosed DEF Closed
  <2>2. c # a
    BY <2>1
  <2> QED BY <1>2, <2>1, <2>2, BelowParent
<1>3. Closed(b, S)
  BY <1>1, <1>2 DEF Closed
<1> HIDE DEF S
<1>4. s \in S
  BY <1>1, <1>3, BelowInduction
<1> QED BY <1>4 DEF S

-----------------------------------------------------------------------------

\* A call in progress is at a state of the climb or in a case of it.
CallsHaveCases ==
  \A d \in 1 .. depth :
    /\ frame[d].pc \in CallbackKinds \union {"check"}
    /\ frame[d].pc \in CallbackKinds =>
         frame[d].check # 0 /\ HasCase(frame[d].check, frame[d].event)

TypeInv == TypeOK /\ CallsHaveCases

LEMMA Constants ==
  /\ N \in Nat \ {0} /\ MaxFrames \in Nat \ {0}
  /\ Initial \in State /\ Cases \subseteq Case
  /\ Parent \in [State -> 0 .. N] /\ \A s \in State : Parent[s] < s
BY HierarchyAssumption, RuntimeAssumption DEF IsHierarchy

LEMMA IdleIsFrame == Idle \in Frame
<1>1. AnyEvent \in Events
  BY HierarchyAssumption DEF IsHierarchy, AnyEvent
<1> QED BY <1>1, Constants DEF Idle, Frame

\* The case chosen for a state and event that have one is theirs, and the only
\* one.
LEMMA CaseOfIsCase ==
  ASSUME NEW s, NEW e, HasCase(s, e)
  PROVE  /\ CaseOf(s, e) \in Cases
         /\ CaseOf(s, e).source = s
         /\ CaseOf(s, e).event = e
         /\ CaseOf(s, e) \in Case
         /\ \A c \in Cases : c.source = s /\ c.event = e => c = CaseOf(s, e)
<1>1. CaseOf(s, e) \in Cases /\ CaseOf(s, e).source = s /\ CaseOf(s, e).event = e
  BY DEF HasCase, CaseOf
<1> QED BY <1>1, HierarchyAssumption DEF IsHierarchy

LEMMA TypeInit == Init => TypeInv
<1> SUFFICES ASSUME Init PROVE TypeInv
  OBVIOUS
<1>1. TypeOK
  BY IdleIsFrame, Constants DEF Init, TypeOK, State
<1>2. CallsHaveCases
  BY DEF Init, CallsHaveCases
<1> QED BY <1>1, <1>2 DEF TypeInv

\* What a step of the innermost call does to the frames: it goes to another
\* place, where it has a case if that is a callback, and the calls it
\* interrupted stay where they are.
LEMMA FrameStep ==
  ASSUME TypeInv, depth > 0, depth' = depth,
         NEW f \in Frame, frame' = [frame EXCEPT ![depth] = f],
         f.pc \in CallbackKinds \union {"check"},
         f.pc \in CallbackKinds => f.check # 0 /\ HasCase(f.check, f.event)
  PROVE  /\ frame' \in [1 .. MaxFrames -> Frame]
         /\ CallsHaveCases'
         /\ frame'[depth] = f
         /\ \A d \in 1 .. depth : d # depth => frame'[d] = frame[d]
<1>1. depth \in 1 .. MaxFrames /\ frame \in [1 .. MaxFrames -> Frame]
  BY Constants DEF TypeInv, TypeOK
<1>2. frame'[depth] = f /\ \A d \in 1 .. depth : d # depth => frame'[d] = frame[d]
  BY <1>1
<1>3. frame' \in [1 .. MaxFrames -> Frame]
  BY <1>1
<1>4. CallsHaveCases'
  BY <1>1, <1>2 DEF TypeInv, CallsHaveCases, HasCase
<1> QED BY <1>2, <1>3, <1>4

\* The frame that Goto makes of the innermost one.
LEMMA GotoFrame ==
  ASSUME TypeInv, depth > 0, NEW pc \in CallbackKinds \union {"check"}, Goto(pc)
  PROVE  /\ F \in Frame
         /\ [F EXCEPT !.pc = pc] \in Frame
         /\ [F EXCEPT !.pc = pc].pc = pc
         /\ [F EXCEPT !.pc = pc].check = F.check
         /\ [F EXCEPT !.pc = pc].event = F.event
         /\ frame' = [frame EXCEPT ![depth] = [F EXCEPT !.pc = pc]]
<1>1. depth \in 1 .. MaxFrames /\ frame \in [1 .. MaxFrames -> Frame]
  BY Constants DEF TypeInv, TypeOK
<1>2. F \in Frame
  BY <1>1 DEF F
<1>3. frame' = [frame EXCEPT ![depth] = [F EXCEPT !.pc = pc]]
  BY <1>1 DEF Goto, F
<1> QED BY <1>2, <1>3 DEF Frame, CallbackKinds

\* Leaving the innermost call.
LEMMA ReturnKeeps ==
  ASSUME TypeInv, depth > 0, Return
  PROVE  /\ depth' = depth - 1
         /\ depth' \in 0 .. MaxFrames
         /\ frame' \in [1 .. MaxFrames -> Frame]
         /\ CallsHaveCases'
         /\ \A d \in 1 .. depth' : d \in 1 .. depth /\ d # depth
                                   /\ frame'[d] = frame[d]
<1>1. depth \in 1 .. MaxFrames /\ frame \in [1 .. MaxFrames -> Frame]
      /\ MaxFrames \in Nat
  BY Constants DEF TypeInv, TypeOK
<1>2. depth' = depth - 1 /\ frame' = [frame EXCEPT ![depth] = Idle]
  BY DEF Return
<1>3. \A d \in 1 .. depth' : d \in 1 .. depth /\ d # depth /\ frame'[d] = frame[d]
  BY <1>1, <1>2
<1>4. frame' \in [1 .. MaxFrames -> Frame]
  BY <1>1, <1>2, IdleIsFrame
<1>5. CallsHaveCases'
  BY <1>3 DEF TypeInv, CallsHaveCases, HasCase
<1> QED BY <1>1, <1>2, <1>3, <1>4, <1>5

\* Entering a call.
LEMMA DispatchKeeps ==
  ASSUME TypeInv, NEW e \in Events, Dispatch(e)
  PROVE  /\ depth' = depth + 1 /\ depth' \in 1 .. MaxFrames
         /\ frame' \in [1 .. MaxFrames -> Frame]
         /\ CallsHaveCases'
         /\ frame'[depth'] = [pc |-> "check", event |-> e, check |-> current]
         /\ \A d \in 1 .. depth : frame'[d] = frame[d]
         /\ UNCHANGED <<current, history, alive>>
<1> DEFINE new == [pc |-> "check", event |-> e, check |-> current]
<1>1. /\ depth \in 0 .. MaxFrames /\ frame \in [1 .. MaxFrames -> Frame]
      /\ MaxFrames \in Nat /\ current \in 0 .. N
  BY Constants DEF TypeInv, TypeOK
<1>2. /\ depth' = depth + 1 /\ depth < MaxFrames
      /\ frame' = [frame EXCEPT ![depth + 1] = new]
      /\ UNCHANGED <<current, history, alive>>
  BY DEF Dispatch
<1>3. new \in Frame
  BY <1>1 DEF Frame
<1>4. frame'[depth'] = new /\ \A d \in 1 .. depth : frame'[d] = frame[d]
  BY <1>1, <1>2
<1>5. frame' \in [1 .. MaxFrames -> Frame]
  BY <1>1, <1>2, <1>3
<1>6. \A d \in 1 .. depth' : d = depth' \/ d \in 1 .. depth
  BY <1>1, <1>2
<1>7. CallsHaveCases'
  BY <1>4, <1>6 DEF TypeInv, CallsHaveCases, HasCase, CallbackKinds
<1> QED BY <1>1, <1>2, <1>4, <1>5, <1>7

\* The case the innermost call is in.
LEMMA ChosenIsCase ==
  ASSUME TypeInv, depth > 0, F.pc \in CallbackKinds
  PROVE  /\ F \in Frame /\ F.check \in State /\ HasCase(F.check, F.event)
         /\ Chosen \in Cases /\ Chosen \in Case
         /\ Chosen.source = F.check /\ Chosen.event = F.event
         /\ Chosen.target \in 0 .. N
<1>1. depth \in 1 .. depth /\ F \in Frame
  BY Constants DEF TypeInv, TypeOK, F
<1>2. F.check \in State /\ HasCase(F.check, F.event)
  BY <1>1 DEF TypeInv, CallsHaveCases, F, Frame, State
<1>3. Chosen \in Cases /\ Chosen \in Case /\ Chosen.source = F.check
      /\ Chosen.event = F.event
  BY <1>2, CaseOfIsCase DEF Chosen
<1> QED BY <1>1, <1>2, <1>3 DEF Case

-----------------------------------------------------------------------------
(* Type correctness: one step per action.                                  *)

\* Steps of the innermost call that stay in it, by where they go.
LEMMA GotoKeeps ==
  ASSUME TypeInv, depth > 0, depth' = depth,
         NEW pc \in CallbackKinds \union {"check"}, Goto(pc),
         pc \in CallbackKinds => F.check # 0 /\ HasCase(F.check, F.event)
  PROVE  /\ frame' \in [1 .. MaxFrames -> Frame]
         /\ CallsHaveCases'
         /\ frame'[depth] = [F EXCEPT !.pc = pc]
         /\ frame'[depth].pc = pc
         /\ frame'[depth].check = F.check
         /\ frame'[depth].event = F.event
         /\ \A d \in 1 .. depth : d # depth => frame'[d] = frame[d]
<1> DEFINE f == [F EXCEPT !.pc = pc]
<1>1. f \in Frame /\ f.pc = pc /\ f.check = F.check /\ f.event = F.event
      /\ frame' = [frame EXCEPT ![depth] = f]
  BY GotoFrame
<1>2. f.pc \in CallbackKinds \union {"check"}
      /\ (f.pc \in CallbackKinds => f.check # 0 /\ HasCase(f.check, f.event))
  BY <1>1
<1> HIDE DEF f
<1>3. /\ frame' \in [1 .. MaxFrames -> Frame]
      /\ CallsHaveCases'
      /\ frame'[depth] = f
      /\ \A d \in 1 .. depth : d # depth => frame'[d] = frame[d]
  BY <1>1, <1>2, FrameStep
<1> QED BY <1>1, <1>3 DEF f

\* Where Goto leads.
LEMMA GotoGoes ==
  ASSUME TypeInv, depth > 0, NEW pc \in CallbackKinds, Goto(pc)
  PROVE  frame'[depth].pc = pc
<1>1. depth \in 1 .. MaxFrames /\ frame \in [1 .. MaxFrames -> Frame]
  BY Constants DEF TypeInv, TypeOK
<1>2. frame' = [frame EXCEPT ![depth] = [F EXCEPT !.pc = pc]]
      /\ [F EXCEPT !.pc = pc].pc = pc
  BY GotoFrame
<1> QED BY <1>1, <1>2

\* Going up to the parent, from a level without a case or from a guard.
LEMMA ClimbKeeps ==
  ASSUME TypeInv, depth > 0, depth' = depth, F.check \in State,
         frame' = [frame EXCEPT ![depth] =
                     [pc |-> "check", event |-> F.event, check |-> Parent[F.check]]]
  PROVE  /\ frame' \in [1 .. MaxFrames -> Frame]
         /\ CallsHaveCases'
         /\ frame'[depth] = [pc |-> "check", event |-> F.event,
                             check |-> Parent[F.check]]
         /\ \A d \in 1 .. depth : d # depth => frame'[d] = frame[d]
<1> DEFINE f == [pc |-> "check", event |-> F.event, check |-> Parent[F.check]]
<1>1. F \in Frame
  BY Constants DEF TypeInv, TypeOK, F
<1>2. f \in Frame /\ f.pc = "check"
  BY <1>1, Constants DEF Frame
<1>3. frame' = [frame EXCEPT ![depth] = f]
  OBVIOUS
<1>4. f.pc \in CallbackKinds \union {"check"} /\ f.pc \notin CallbackKinds
  BY <1>2 DEF CallbackKinds
<1> HIDE DEF f
<1>5. /\ frame' \in [1 .. MaxFrames -> Frame]
      /\ CallsHaveCases'
      /\ frame'[depth] = f
      /\ \A d \in 1 .. depth : d # depth => frame'[d] = frame[d]
  BY <1>2, <1>3, <1>4, FrameStep
<1> QED BY <1>5 DEF f

\* Ascend, in the form of ClimbKeeps.
LEMMA AscendClimbs ==
  ASSUME TypeInv, Ascend
  PROVE  /\ depth > 0 /\ F.pc = "check" /\ F.check \in State
         /\ ~HasCase(F.check, F.event)
         /\ frame' = [frame EXCEPT ![depth] =
                        [pc |-> "check", event |-> F.event, check |-> Parent[F.check]]]
         /\ UNCHANGED <<current, history, depth, alive>>
<1>1. depth > 0 /\ F.pc = "check" /\ F.check # 0 /\ ~HasCase(F.check, F.event)
      /\ UNCHANGED <<current, history, depth, alive>>
  BY DEF Ascend, At
<1>2. depth \in 1 .. MaxFrames /\ frame \in [1 .. MaxFrames -> Frame] /\ F \in Frame
  BY <1>1, Constants DEF TypeInv, TypeOK, F
<1>3. F.check \in State
  BY <1>1, <1>2, Constants DEF Frame, State
<1>4. frame' = [frame EXCEPT ![depth] = [F EXCEPT !.check = Parent[F.check]]]
  BY <1>2 DEF Ascend, F
<1>5. [F EXCEPT !.check = Parent[F.check]]
        = [pc |-> "check", event |-> F.event, check |-> Parent[F.check]]
  BY <1>1, <1>2 DEF Frame
<1> QED BY <1>1, <1>3, <1>4, <1>5

\* Where a transition leads is a state or, as 0, nowhere at all.
LEMMA DestinationType ==
  ASSUME TypeInv, depth > 0, F.pc \in CallbackKinds
  PROVE  Destination(Chosen) \in 0 .. N
<1>1. Chosen.target \in 0 .. N
  BY ChosenIsCase
<1>2. current \in 0 .. N /\ history \in [State -> 0 .. N]
  BY DEF TypeInv, TypeOK
<1>3. Chosen.target # 0 => Chosen.target \in State
  BY <1>1, Constants DEF State
<1> QED BY <1>1, <1>2, <1>3 DEF Destination

LEMMA TypeStep == TypeInv /\ [Next]_vars => TypeInv'
<1> SUFFICES ASSUME TypeInv, [Next]_vars PROVE TypeInv'
  OBVIOUS
<1>0. /\ current \in 0 .. N /\ history \in [State -> 0 .. N]
      /\ depth \in 0 .. MaxFrames /\ frame \in [1 .. MaxFrames -> Frame]
      /\ alive \in BOOLEAN /\ CallsHaveCases /\ MaxFrames \in Nat
  BY Constants DEF TypeInv, TypeOK
<1>same. ASSUME UNCHANGED <<current, history, depth, frame>>, alive' \in BOOLEAN
         PROVE  TypeInv'
  BY <1>0, <1>same DEF TypeInv, TypeOK, CallsHaveCases, HasCase
<1>moves. ASSUME current' \in 0 .. N, history' \in [State -> 0 .. N],
                 depth' \in 0 .. MaxFrames, UNCHANGED alive,
                 frame' \in [1 .. MaxFrames -> Frame], CallsHaveCases'
          PROVE  TypeInv'
  BY <1>0, <1>moves DEF TypeInv, TypeOK
<1>1. ASSUME NEW e \in Events, Dispatch(e) PROVE TypeInv'
  <2>1. /\ depth' \in 1 .. MaxFrames /\ frame' \in [1 .. MaxFrames -> Frame]
        /\ CallsHaveCases' /\ UNCHANGED <<current, history, alive>>
    BY <1>1, DispatchKeeps
  <2> QED BY <1>0, <1>moves, <2>1
<1>2. ASSUME NEW s \in Queried, IsIn(s) PROVE TypeInv'
  BY <1>2, <1>same DEF IsIn
<1>3. CASE TakeCase
  <2>1. depth > 0 /\ F.check # 0 /\ HasCase(F.check, F.event)
        /\ UNCHANGED <<current, history, depth, alive>>
    BY <1>3 DEF TakeCase, At
  <2>2. PICK pc \in {"guard", "exit"} : Goto(pc)
    BY <1>3 DEF TakeCase
  <2> QED BY <1>0, <1>moves, <2>1, <2>2, GotoKeeps DEF CallbackKinds
<1>4. CASE Ascend
  BY <1>0, <1>moves, <1>4, AscendClimbs, ClimbKeeps
<1>5. CASE PassRoot
  <2>1. CASE EnumUnsigned
    BY <1>5, <1>same, <2>1 DEF PassRoot
  <2>2. CASE ~EnumUnsigned
    BY <1>0, <1>moves, <1>5, <2>2, ReturnKeeps DEF PassRoot, At
  <2> QED BY <2>1, <2>2
<1>6. CASE GuardAllows
  <2>1. depth > 0 /\ F.pc = "guard" /\ Goto("exit")
        /\ UNCHANGED <<current, history, depth, alive>>
    BY <1>6 DEF GuardAllows, At
  <2>2. F.check # 0 /\ HasCase(F.check, F.event)
    BY <2>1, ChosenIsCase DEF CallbackKinds, State
  <2> QED BY <1>0, <1>moves, <2>1, <2>2, GotoKeeps DEF CallbackKinds
<1>7. CASE GuardRefuses
  <2>1. depth > 0 /\ F.pc = "guard" /\ UNCHANGED <<current, history, depth, alive>>
    BY <1>7 DEF GuardRefuses, At
  <2>2. F.check \in State
    BY <2>1, ChosenIsCase DEF CallbackKinds
  <2> QED BY <1>0, <1>moves, <1>7, <2>1, <2>2, ClimbKeeps DEF GuardRefuses
<1>8. CASE SaveHistory
  <2>1. depth > 0 /\ F.pc = "exit" /\ Goto("action")
        /\ UNCHANGED <<current, depth, alive>>
    BY <1>8 DEF SaveHistory, At
  <2>2. F.check # 0 /\ HasCase(F.check, F.event)
    BY <2>1, ChosenIsCase DEF CallbackKinds, State
  <2>3. history' \in [State -> 0 .. N]
    BY <1>0, <1>8 DEF SaveHistory
  <2> QED BY <1>0, <1>moves, <2>1, <2>2, <2>3, GotoKeeps DEF CallbackKinds
<1>9. CASE Move
  <2>1. depth > 0 /\ F.pc = "action" /\ Goto("entry")
        /\ UNCHANGED <<history, depth, alive>>
    BY <1>9 DEF Move, At
  <2>2. F.check # 0 /\ HasCase(F.check, F.event)
    BY <2>1, ChosenIsCase DEF CallbackKinds, State
  <2>3. current' \in 0 .. N
    BY <1>9, <2>1, DestinationType DEF Move, CallbackKinds
  <2> QED BY <1>0, <1>moves, <2>1, <2>2, <2>3, GotoKeeps DEF CallbackKinds
<1>10. CASE Finish
  BY <1>0, <1>moves, <1>10, ReturnKeeps DEF Finish, At
<1>11. CASE UNCHANGED vars
  BY <1>0, <1>same, <1>11 DEF vars
<1> QED BY <1>1, <1>2, <1>3, <1>4, <1>5, <1>6, <1>7, <1>8, <1>9, <1>10, <1>11
        DEF Next, Step

\* The variables keep their types, whatever the hierarchy, the compiler's enum
\* and the callbacks from which the application calls dispatch again.
THEOREM TypeSafe == Spec => []TypeOK
<1>1. TypeInv => TypeOK
  BY DEF TypeInv
<1> QED BY <1>1, TypeInit, TypeStep, PTL DEF Spec

-----------------------------------------------------------------------------
(* The walk, when only entry callbacks call dispatch again.                *)

\* The calls that were interrupted have done everything but return.
OthersInEntry == \A d \in 1 .. depth : d # depth => frame[d].pc = "entry"

\* Until it moves the machine, the innermost call is at the current state or
\* above it.
TopActive ==
  depth > 0 /\ F.pc # "entry" /\ F.check # 0 => current \in Below[F.check]

\* A case that is nearer to the current state was not simply missed.
SkippedGuarded ==
  depth > 0 /\ F.pc # "entry" /\ F.check # 0 =>
    \A c \in Cases :
      /\ c.event = F.event
      /\ c.source \in Below[F.check] \ {F.check}
      /\ current \in Below[c.source]
      => c.guard

WalkInv == OthersInEntry /\ TopActive /\ SkippedGuarded

\* A guard was asked because its case has one.
GuardsAreAsked ==
  \A d \in 1 .. depth :
    frame[d].pc = "guard" => CaseOf(frame[d].check, frame[d].event).guard

\* WalkInv as a statement about the innermost frame f alone.
WalkAt(f, state) ==
  f.pc # "entry" /\ f.check # 0 =>
    /\ state \in Below[f.check]
    /\ \A c \in Cases :
         /\ c.event = f.event
         /\ c.source \in Below[f.check] \ {f.check}
         /\ state \in Below[c.source]
         => c.guard

LEMMA WalkTop ==
  /\ WalkInv /\ depth > 0 => WalkAt(F, current)
  /\ OthersInEntry' /\ (depth' > 0 => WalkAt(frame'[depth'], current')) => WalkInv'
BY DEF WalkInv, WalkAt, TopActive, SkippedGuarded, F

\* A step of the innermost call leaves the others in their entry callbacks.
LEMMA OthersStay ==
  ASSUME OthersInEntry, depth' = depth,
         \A d \in 1 .. depth : d # depth => frame'[d] = frame[d]
  PROVE  OthersInEntry'
BY DEF OthersInEntry

\* Going on in the same case.
LEMMA WalkGoto ==
  ASSUME WalkInv, depth > 0, depth' = depth, current' = current,
         frame'[depth].check = F.check, frame'[depth].event = F.event,
         F.pc # "entry",
         \A d \in 1 .. depth : d # depth => frame'[d] = frame[d]
  PROVE  WalkInv'
<1>1. OthersInEntry'
  BY OthersStay DEF WalkInv
<1>2. WalkAt(frame'[depth'], current')
  BY WalkTop DEF WalkAt
<1> QED BY <1>1, <1>2, WalkTop

\* Going up, from a level without a case or with one whose guard refused.
LEMMA WalkClimb ==
  ASSUME WalkInv, depth > 0, depth' = depth, current' = current,
         F.pc # "entry", F.check \in State, current \in State,
         frame'[depth] = [pc |-> "check", event |-> F.event,
                          check |-> Parent[F.check]],
         \A c \in Cases : c.source = F.check /\ c.event = F.event => c.guard,
         \A d \in 1 .. depth : d # depth => frame'[d] = frame[d]
  PROVE  WalkInv'
<1>1. OthersInEntry'
  BY OthersStay DEF WalkInv
<1>2. WalkAt(frame'[depth'], current')
  <2> DEFINE p == Parent[F.check]
  <2>1. frame'[depth'].check = p /\ frame'[depth'].event = F.event
    OBVIOUS
  <2>2. WalkAt(F, current) /\ F.check # 0
    BY WalkTop, Constants DEF State
  <2>3. current \in Below[F.check]
    BY <2>2 DEF WalkAt
  <2> HIDE DEF p
  <2>4. SUFFICES ASSUME p # 0
                 PROVE  /\ current \in Below[p]
                        /\ \A c \in Cases :
                             /\ c.event = F.event
                             /\ c.source \in Below[p] \ {p}
                             /\ current \in Below[c.source]
                             => c.guard
    BY <2>1 DEF WalkAt
  <2>5. p \in State /\ Below[F.check] \subseteq Below[p]
    BY <2>4, BelowChild DEF p
  <2>6. ASSUME NEW c \in Cases, c.event = F.event, c.source \in Below[p] \ {p},
               current \in Below[c.source]
        PROVE  c.guard
    <3>1. c.source \in State
      BY Constants DEF Case
    <3>2. CASE c.source = F.check
      BY <2>6, <3>2
    <3>3. CASE c.source \in Below[F.check] /\ c.source # F.check
      BY <2>2, <2>6, <3>3 DEF WalkAt
    <3>4. CASE F.check \in Below[c.source] /\ c.source # F.check
      <4>1. p \in Below[c.source]
        BY <3>1, <3>4, BelowParent DEF p
      <4>2. c.source <= p /\ p <= c.source
        BY <2>5, <2>6, <3>1, <4>1, BelowGrows
      <4>3. c.source = p
        BY <2>5, <3>1, <4>2, Constants DEF State
      <4> QED BY <2>6, <4>3
    <3> QED BY <2>3, <2>6, <3>1, <3>2, <3>3, <3>4, BelowChain
  <2> QED BY <2>3, <2>5, <2>6
<1> QED BY <1>1, <1>2, WalkTop

\* Returning to an interrupted call, or to the application.
LEMMA WalkReturn ==
  ASSUME TypeInv, WalkInv, depth > 0, Return
  PROVE  WalkInv'
<1>1. /\ depth' = depth - 1 /\ depth' \in 0 .. MaxFrames
      /\ \A d \in 1 .. depth' : d \in 1 .. depth /\ d # depth /\ frame'[d] = frame[d]
  BY ReturnKeeps
<1>2. \A d \in 1 .. depth' : frame'[d].pc = "entry"
  BY <1>1 DEF WalkInv, OthersInEntry
<1>3. OthersInEntry'
  BY <1>2 DEF OthersInEntry
<1>4. depth' > 0 => depth' \in 1 .. depth'
  BY <1>1, Constants
<1>5. depth' > 0 => WalkAt(frame'[depth'], current')
  BY <1>2, <1>4 DEF WalkAt
<1> QED BY <1>3, <1>5, WalkTop

\* A call starts at the current state: nothing is nearer.
LEMMA WalkDispatch ==
  ASSUME Reentrant \subseteq {"entry"}, TypeInv, WalkInv,
         NEW e \in Events, Dispatch(e)
  PROVE  WalkInv'
<1> DEFINE new == [pc |-> "check", event |-> e, check |-> current]
<1>1. /\ depth' = depth + 1 /\ frame'[depth'] = new /\ current' = current
      /\ \A d \in 1 .. depth : frame'[d] = frame[d]
  BY DispatchKeeps
<1>2. depth \in 0 .. MaxFrames /\ MaxFrames \in Nat /\ current \in 0 .. N
  BY Constants DEF TypeInv, TypeOK
<1>3. depth > 0 => F.pc = "entry"
  <2>1. depth = 0 \/ InCallback
    BY DEF Dispatch, ApplicationRuns
  <2>2. InCallback => F.pc \in Reentrant
    BY DEF InCallback
  <2>3. \A x \in Reentrant : x = "entry"
    OBVIOUS
  <2>4. depth > 0 => InCallback
    BY <1>2, <2>1
  <2> QED BY <2>2, <2>3, <2>4
<1>4. \A d \in 1 .. depth : frame[d].pc = "entry"
  BY <1>3 DEF WalkInv, OthersInEntry, F
<1>5. OthersInEntry'
  <2>1. \A d \in 1 .. depth' : d # depth' => d \in 1 .. depth
    BY <1>1, <1>2
  <2> QED BY <1>1, <1>4, <2>1 DEF OthersInEntry
<1>6. WalkAt(new, current)
  <2> SUFFICES ASSUME current # 0
               PROVE  /\ current \in Below[current]
                      /\ \A c \in Cases :
                           ~ (/\ c.source \in Below[current] \ {current}
                              /\ current \in Below[c.source])
    BY DEF WalkAt
  <2>1. current \in State
    BY <1>2, Constants DEF State
  <2>2. ASSUME NEW c \in Cases, c.source \in Below[current],
               current \in Below[c.source]
        PROVE  c.source = current
    <3>1. c.source \in State
      BY Constants DEF Case
    <3>2. c.source <= current /\ current <= c.source
      BY <2>1, <2>2, <3>1, BelowGrows
    <3> QED BY <2>1, <3>1, <3>2, Constants DEF State
  <2> QED BY <2>1, <2>2, BelowClosed DEF Closed
<1> QED BY <1>1, <1>5, <1>6, WalkTop

\* The level a climb leaves has no case for the event, or one with a guard.
LEMMA GuardsStep ==
  TypeInv /\ GuardsAreAsked /\ [Next]_vars => GuardsAreAsked'
<1> SUFFICES ASSUME TypeInv, GuardsAreAsked, [Next]_vars PROVE GuardsAreAsked'
  OBVIOUS
<1>0. depth \in 0 .. MaxFrames /\ MaxFrames \in Nat
  BY Constants DEF TypeInv, TypeOK
<1>same. ASSUME UNCHANGED <<depth, frame>> PROVE GuardsAreAsked'
  BY <1>same DEF GuardsAreAsked, CaseOf
<1>stays. ASSUME depth > 0, depth' = depth,
                 frame'[depth].pc = "guard" =>
                   CaseOf(frame'[depth].check, frame'[depth].event).guard,
                 \A d \in 1 .. depth : d # depth => frame'[d] = frame[d]
          PROVE  GuardsAreAsked'
  <2> SUFFICES ASSUME NEW d \in 1 .. depth, frame'[d].pc = "guard"
               PROVE  CaseOf(frame'[d].check, frame'[d].event).guard
    BY <1>stays DEF GuardsAreAsked
  <2>1. CASE d = depth
    BY <1>stays, <2>1
  <2>2. CASE d # depth
    BY <1>stays, <2>2 DEF GuardsAreAsked
  <2> QED BY <2>1, <2>2
<1>1. ASSUME NEW e \in Events, Dispatch(e) PROVE GuardsAreAsked'
  <2>1. /\ depth' = depth + 1 /\ frame'[depth'].pc = "check"
        /\ \A d \in 1 .. depth : frame'[d] = frame[d]
    <3>1. frame'[depth'] = [pc |-> "check", event |-> e, check |-> current]
      BY <1>1, DispatchKeeps
    <3> QED BY <1>1, <3>1, DispatchKeeps
  <2>2. \A d \in 1 .. depth' : d # depth' => d \in 1 .. depth
    BY <1>0, <2>1
  <2> QED BY <2>1, <2>2 DEF GuardsAreAsked, CaseOf
<1>2. ASSUME NEW s \in Queried, IsIn(s) PROVE GuardsAreAsked'
  BY <1>2, <1>same DEF IsIn
<1>3. CASE TakeCase
  <2>1. depth > 0 /\ depth' = depth /\ F.check # 0 /\ HasCase(F.check, F.event)
    BY <1>3 DEF TakeCase, At
  <2>2. CASE Chosen.guard /\ Goto("guard")
    <3>1. frame'[depth].check = F.check /\ frame'[depth].event = F.event
          /\ \A d \in 1 .. depth : d # depth => frame'[d] = frame[d]
      BY <2>1, <2>2, GotoKeeps DEF CallbackKinds
    <3> QED BY <1>stays, <2>1, <2>2, <3>1 DEF Chosen
  <2>3. CASE Goto("exit")
    <3>1. frame'[depth].pc = "exit"
          /\ \A d \in 1 .. depth : d # depth => frame'[d] = frame[d]
      BY <2>1, <2>3, GotoKeeps DEF CallbackKinds
    <3> QED BY <1>stays, <2>1, <3>1
  <2> QED BY <1>3, <2>2, <2>3 DEF TakeCase
<1>climb. ASSUME depth > 0, depth' = depth, F.check \in State,
                 frame' = [frame EXCEPT ![depth] =
                             [pc |-> "check", event |-> F.event,
                              check |-> Parent[F.check]]]
          PROVE  GuardsAreAsked'
  <2>1. frame'[depth].pc = "check"
        /\ \A d \in 1 .. depth : d # depth => frame'[d] = frame[d]
    BY <1>climb, ClimbKeeps
  <2> QED BY <1>climb, <1>stays, <2>1
<1>4. CASE Ascend
  BY <1>4, <1>climb, AscendClimbs
<1>5. CASE PassRoot
  <2>1. CASE EnumUnsigned
    BY <1>5, <1>same, <2>1 DEF PassRoot
  <2>2. CASE ~EnumUnsigned
    <3>1. \A d \in 1 .. depth' : d \in 1 .. depth /\ frame'[d] = frame[d]
      BY <1>5, <2>2, ReturnKeeps DEF PassRoot, At
    <3> QED BY <3>1 DEF GuardsAreAsked, CaseOf
  <2> QED BY <2>1, <2>2
<1>6. ASSUME NEW pc \in {"exit", "action", "entry"}, depth > 0, depth' = depth,
             F.pc \in CallbackKinds, Goto(pc)
      PROVE  GuardsAreAsked'
  <2>1. F.check # 0 /\ HasCase(F.check, F.event)
    BY <1>6, ChosenIsCase, Constants DEF State
  <2>2. frame'[depth].pc = pc
        /\ \A d \in 1 .. depth : d # depth => frame'[d] = frame[d]
    BY <1>6, <2>1, GotoKeeps DEF CallbackKinds
  <2> QED BY <1>6, <1>stays, <2>2
<1>7. CASE GuardAllows
  BY <1>6, <1>7 DEF GuardAllows, At, CallbackKinds
<1>8. CASE GuardRefuses
  <2>1. depth > 0 /\ depth' = depth /\ F.pc = "guard"
    BY <1>8 DEF GuardRefuses, At
  <2>2. F.check \in State
    BY <2>1, ChosenIsCase DEF CallbackKinds
  <2> QED BY <1>8, <1>climb, <2>1, <2>2 DEF GuardRefuses
<1>9. CASE SaveHistory
  BY <1>6, <1>9 DEF SaveHistory, At, CallbackKinds
<1>10. CASE Move
  BY <1>6, <1>10 DEF Move, At, CallbackKinds
<1>11. CASE Finish
  <2>1. \A d \in 1 .. depth' : d \in 1 .. depth /\ frame'[d] = frame[d]
    BY <1>11, ReturnKeeps DEF Finish, At
  <2> QED BY <2>1 DEF GuardsAreAsked, CaseOf
<1>12. CASE UNCHANGED vars
  BY <1>12, <1>same DEF vars
<1> QED BY <1>1, <1>2, <1>3, <1>4, <1>5, <1>7, <1>8, <1>9, <1>10, <1>11, <1>12
        DEF Next, Step

\* The invariants that hold whatever the application does in its callbacks.
BaseInv == TypeInv /\ GuardsAreAsked

LEMMA BaseInvariant == Spec => []BaseInv
<1>1. Init => BaseInv
  BY TypeInit DEF BaseInv, GuardsAreAsked, Init
<1>2. BaseInv /\ [Next]_vars => BaseInv'
  BY TypeStep, GuardsStep DEF BaseInv
<1> QED BY <1>1, <1>2, PTL DEF Spec

\* What is known of the innermost call and of what it leaves, under BaseInv.
LEMMA LeftLevel ==
  ASSUME BaseInv, depth > 0,
         \/ F.pc = "check" /\ ~HasCase(F.check, F.event)
         \/ F.pc = "guard",
         NEW c \in Cases, c.source = F.check, c.event = F.event
  PROVE  c.guard
<1>1. CASE F.pc = "check" /\ ~HasCase(F.check, F.event)
  BY <1>1 DEF HasCase
<1>2. CASE F.pc = "guard"
  <2>1. Chosen.guard
    <3>1. depth \in 1 .. depth
      BY Constants DEF BaseInv, TypeInv, TypeOK
    <3> QED BY <1>2, <3>1 DEF BaseInv, GuardsAreAsked, Chosen, F
  <2>2. c = Chosen
    BY CaseOfIsCase DEF HasCase, Chosen
  <2> QED BY <2>1, <2>2
<1> QED BY <1>1, <1>2

\* The owner of the case that is being carried out is above the current state.
LEMMA OwnerAbove ==
  ASSUME BaseInv, WalkInv, depth > 0, F.pc # "entry", F.check # 0
  PROVE  F.check \in State /\ current \in State /\ current \in Below[F.check]
<1>1. depth \in 1 .. MaxFrames /\ frame \in [1 .. MaxFrames -> Frame] /\ F \in Frame
  BY Constants DEF BaseInv, TypeInv, TypeOK, F
<1>2. F.check \in State
  BY <1>1, Constants DEF Frame, State
<1>3. current \in Below[F.check]
  BY DEF WalkInv, TopActive
<1> QED BY <1>2, <1>3, BelowClosed

LEMMA WalkStep ==
  ASSUME Reentrant \subseteq {"entry"}, BaseInv, WalkInv, [Next]_vars
  PROVE  WalkInv'
<1>0. TypeInv /\ depth \in 0 .. MaxFrames /\ MaxFrames \in Nat
  BY Constants DEF BaseInv, TypeInv, TypeOK
<1>same. ASSUME UNCHANGED <<depth, frame, current>> PROVE WalkInv'
  <2>1. OthersInEntry'
    BY <1>same DEF WalkInv, OthersInEntry
  <2>2. depth' > 0 => WalkAt(frame'[depth'], current')
    BY <1>same, WalkTop DEF F
  <2> QED BY <2>1, <2>2, WalkTop
<1>goto. ASSUME NEW pc \in {"guard", "exit", "action"}, depth > 0,
                UNCHANGED <<depth, current>>, Goto(pc),
                F.pc # "entry", F.check # 0, HasCase(F.check, F.event)
         PROVE  WalkInv'
  <2>1. frame'[depth].check = F.check /\ frame'[depth].event = F.event
        /\ \A d \in 1 .. depth : d # depth => frame'[d] = frame[d]
    BY <1>0, <1>goto, GotoKeeps DEF CallbackKinds
  <2> QED BY <1>goto, <2>1, WalkGoto
<1>climb. ASSUME depth > 0, UNCHANGED <<depth, current>>, F.check \in State,
                 \/ F.pc = "check" /\ ~HasCase(F.check, F.event)
                 \/ F.pc = "guard",
                 frame' = [frame EXCEPT ![depth] =
                             [pc |-> "check", event |-> F.event,
                              check |-> Parent[F.check]]]
          PROVE  WalkInv'
  <2>1. frame'[depth] = [pc |-> "check", event |-> F.event,
                         check |-> Parent[F.check]]
        /\ \A d \in 1 .. depth : d # depth => frame'[d] = frame[d]
    BY <1>0, <1>climb, ClimbKeeps
  <2>2. F.pc # "entry" /\ F.check # 0
    BY <1>climb, Constants DEF State
  <2>3. current \in State
    BY <1>climb, <2>2, OwnerAbove
  <2>4. \A c \in Cases : c.source = F.check /\ c.event = F.event => c.guard
    BY <1>climb, LeftLevel
  <2> QED BY <1>climb, <2>1, <2>2, <2>3, <2>4, WalkClimb
<1>1. ASSUME NEW e \in Events, Dispatch(e) PROVE WalkInv'
  BY <1>0, <1>1, WalkDispatch
<1>2. ASSUME NEW s \in Queried, IsIn(s) PROVE WalkInv'
  BY <1>2, <1>same DEF IsIn
<1>3. CASE TakeCase
  BY <1>3, <1>goto DEF TakeCase, At
<1>4. CASE Ascend
  BY <1>0, <1>4, <1>climb, AscendClimbs
<1>5. CASE PassRoot
  <2>1. CASE EnumUnsigned
    BY <1>5, <1>same, <2>1 DEF PassRoot
  <2>2. CASE ~EnumUnsigned
    BY <1>0, <1>5, <2>2, WalkReturn DEF PassRoot, At
  <2> QED BY <2>1, <2>2
<1>6. CASE GuardAllows
  <2>1. depth > 0 /\ F.pc = "guard" /\ UNCHANGED <<depth, current>> /\ Goto("exit")
    BY <1>6 DEF GuardAllows, At
  <2>2. F.check # 0 /\ HasCase(F.check, F.event)
    BY <1>0, <2>1, ChosenIsCase, Constants DEF CallbackKinds, State
  <2> QED BY <1>goto, <2>1, <2>2
<1>7. CASE GuardRefuses
  <2>1. depth > 0 /\ F.pc = "guard" /\ UNCHANGED <<depth, current>>
    BY <1>7 DEF GuardRefuses, At
  <2>2. F.check \in State
    BY <1>0, <2>1, ChosenIsCase DEF CallbackKinds
  <2> QED BY <1>7, <1>climb, <2>1, <2>2 DEF GuardRefuses
<1>8. CASE SaveHistory
  <2>1. depth > 0 /\ F.pc = "exit" /\ UNCHANGED <<depth, current>> /\ Goto("action")
    BY <1>8 DEF SaveHistory, At
  <2>2. F.check # 0 /\ HasCase(F.check, F.event)
    BY <1>0, <2>1, ChosenIsCase, Constants DEF CallbackKinds, State
  <2> QED BY <1>goto, <2>1, <2>2
<1>9. CASE Move
  <2>1. depth > 0 /\ F.pc = "action" /\ depth' = depth /\ Goto("entry")
    BY <1>9 DEF Move, At
  <2>2. F.check # 0 /\ HasCase(F.check, F.event)
    BY <1>0, <2>1, ChosenIsCase, Constants DEF CallbackKinds, State
  <2>3. frame'[depth].pc = "entry"
        /\ \A d \in 1 .. depth : d # depth => frame'[d] = frame[d]
    BY <1>0, <2>1, <2>2, GotoKeeps DEF CallbackKinds
  <2>4. OthersInEntry'
    BY <2>1, <2>3, OthersStay DEF WalkInv
  <2> QED BY <2>1, <2>3, <2>4, WalkTop DEF WalkAt
<1>10. CASE Finish
  BY <1>0, <1>10, WalkReturn DEF Finish, At
<1>11. CASE UNCHANGED vars
  BY <1>11, <1>same DEF vars
<1> QED BY <1>1, <1>2, <1>3, <1>4, <1>5, <1>6, <1>7, <1>8, <1>9, <1>10, <1>11
        DEF Next, Step

\* The state saved for the parent of an owner is below the owner.
LEMMA HistoryStep ==
  ASSUME BaseInv, WalkInv, HistoryInside, [Next]_vars
  PROVE  HistoryInside'
<1>same. ASSUME UNCHANGED history PROVE HistoryInside'
  BY <1>same DEF HistoryInside
<1>1. CASE SaveHistory
  <2>1. depth > 0 /\ F.pc = "exit"
    BY <1>1 DEF SaveHistory, At
  <2>2. Chosen.source = F.check /\ F.check \in State
    BY <2>1, ChosenIsCase DEF BaseInv, CallbackKinds
  <2>3. current \in Below[F.check]
    BY <2>1, <2>2, OwnerAbove, Constants DEF State
  <2>4. history' = [s \in State |-> IF s = Parent[F.check] THEN current
                                    ELSE history[s]]
    BY <1>1, <2>2 DEF SaveHistory
  <2>5. SUFFICES ASSUME NEW p \in State
                 PROVE  history'[p] = 0 \/ history'[p] \in Below[p] \ {p}
    BY DEF HistoryInside
  <2>6. CASE p = Parent[F.check]
    <3>1. Parent[F.check] # 0
      BY <2>6, Constants DEF State
    <3>2. current \in Below[p] \ {p}
      BY <2>2, <2>3, <2>6, <3>1, BelowChild
    <3> QED BY <2>4, <2>6, <3>2
  <2>7. CASE p # Parent[F.check]
    BY <2>4, <2>7 DEF HistoryInside
  <2> QED BY <2>6, <2>7
<1>2. CASE ~SaveHistory
  BY <1>2, <1>same DEF Next, Step, vars, Dispatch, IsIn, TakeCase, Ascend, PassRoot,
     GuardAllows, GuardRefuses, Move, Finish
<1> QED BY <1>1, <1>2

\* The inductive invariant behind SourceIsActive, HistoryInside and
\* DispatchIsOneStep.
SafeInv == BaseInv /\ WalkInv /\ HistoryInside

LEMMA SafeInvariant ==
  ASSUME Reentrant \subseteq {"entry"}
  PROVE  Spec => []SafeInv
<1>1. Init => SafeInv
  BY TypeInit DEF SafeInv, BaseInv, GuardsAreAsked, WalkInv, OthersInEntry, TopActive,
     SkippedGuarded, HistoryInside, Init
<1>2. SafeInv /\ [Next]_vars => SafeInv'
  BY TypeStep, GuardsStep, WalkStep, HistoryStep DEF SafeInv, BaseInv
<1> QED BY <1>1, <1>2, PTL DEF Spec

\* A case is carried out only while the state that owns it is active: while the
\* exit callback or the action runs, the current state is the owner or below it.
THEOREM SourceStaysActive ==
  ASSUME Reentrant \subseteq {"entry"}
  PROVE  Spec => []SourceIsActive
<1>1. SafeInv => SourceIsActive
  <2> SUFFICES ASSUME SafeInv, NEW d \in 1 .. depth,
                      frame[d].pc \in {"exit", "action"}
               PROVE  current \in Below[frame[d].check]
    BY DEF SourceIsActive
  <2>1. d = depth
    BY DEF SafeInv, WalkInv, OthersInEntry
  <2>2. depth > 0 /\ F.pc # "entry" /\ F = frame[d]
    BY <2>1, Constants DEF SafeInv, BaseInv, TypeInv, TypeOK, F
  <2>3. F.check # 0
    BY <2>2 DEF SafeInv, BaseInv, TypeInv, CallsHaveCases, CallbackKinds
  <2> QED BY <2>2, <2>3 DEF SafeInv, WalkInv, TopActive
<1> QED BY <1>1, SafeInvariant, PTL

\* The state saved as the history of a composite is inside that composite.
THEOREM HistoryStaysInside ==
  ASSUME Reentrant \subseteq {"entry"}
  PROVE  Spec => []HistoryInside
<1>1. SafeInv => HistoryInside
  BY DEF SafeInv
<1> QED BY <1>1, SafeInvariant, PTL

-----------------------------------------------------------------------------
(* The climb ends: the safety part of InnermostCallReturns.                *)

\* A bound of the steps a call has left, while no other interrupts it.
StepsLeft(f) ==
  5 * f.check + IF f.pc = "check" THEN 4 ELSE IF f.pc = "guard" THEN 3
                ELSE IF f.pc = "exit" THEN 2 ELSE IF f.pc = "action" THEN 1 ELSE 0

\* Every step of the innermost call ends it, ends the process or leaves it fewer.
CallsRunOut ==
  [][Step /\ alive' =>
       \/ depth' = depth - 1
       \/ depth' = depth /\ StepsLeft(F') \in 0 .. StepsLeft(F) - 1]_vars

LEMMA RunsOut ==
  ASSUME TypeInv, Step, alive'
  PROVE  \/ depth' = depth - 1
         \/ depth' = depth /\ StepsLeft(F') \in 0 .. StepsLeft(F) - 1
<1>1. depth > 0
  BY DEF Step, TakeCase, Ascend, PassRoot, GuardAllows, GuardRefuses, SaveHistory,
         Move, Finish, At
<1>2. /\ depth \in 1 .. depth /\ frame \in [1 .. MaxFrames -> Frame] /\ F \in Frame
      /\ F.check \in Nat
  BY <1>1, Constants DEF TypeInv, TypeOK, F, Frame
<1>goto. ASSUME NEW pc \in CallbackKinds, depth' = depth, Goto(pc),
                \/ F.pc = "check" /\ HasCase(F.check, F.event) /\ F.check # 0
                \/ F.pc = "guard" /\ pc # "guard"
                \/ F.pc = "exit" /\ pc \in {"action", "entry"}
                \/ F.pc = "action" /\ pc = "entry"
         PROVE  StepsLeft(F') \in 0 .. StepsLeft(F) - 1
  <2>1. F.check # 0 /\ HasCase(F.check, F.event)
    <3>1. CASE F.pc \in CallbackKinds
      BY <1>1, <3>1, ChosenIsCase, Constants DEF State
    <3> QED BY <1>goto, <3>1 DEF CallbackKinds
  <2>2. F'.pc = pc /\ F'.check = F.check
    BY <1>1, <1>goto, <2>1, GotoKeeps DEF F
  <2> QED BY <1>2, <1>goto, <2>2 DEF StepsLeft, CallbackKinds
<1>climb. ASSUME depth' = depth, F.check \in State, F.pc \in {"check", "guard"},
                 frame' = [frame EXCEPT ![depth] =
                             [pc |-> "check", event |-> F.event,
                              check |-> Parent[F.check]]]
          PROVE  StepsLeft(F') \in 0 .. StepsLeft(F) - 1
  <2>1. F' = [pc |-> "check", event |-> F.event, check |-> Parent[F.check]]
    BY <1>1, <1>climb, ClimbKeeps DEF F
  <2>2. F'.pc = "check" /\ F'.check = Parent[F.check]
    BY <2>1
  <2>3. Parent[F.check] \in Nat /\ Parent[F.check] <= F.check - 1
    BY <1>climb, Constants DEF State
  <2>4. StepsLeft(F') = 5 * Parent[F.check] + 4
    BY <2>2 DEF StepsLeft
  <2>5. StepsLeft(F) \in {5 * F.check + 4, 5 * F.check + 3}
    BY <1>climb DEF StepsLeft
  <2> HIDE DEF StepsLeft
  <2> QED BY <1>2, <2>3, <2>4, <2>5
<1>3. CASE TakeCase
  BY <1>3, <1>goto DEF TakeCase, At, CallbackKinds
<1>4. CASE Ascend
  BY <1>4, <1>climb, AscendClimbs
<1>5. CASE PassRoot
  BY <1>5 DEF PassRoot, Return
<1>6. CASE GuardAllows
  BY <1>6, <1>goto DEF GuardAllows, At, CallbackKinds
<1>7. CASE GuardRefuses
  <2>1. F.pc = "guard" /\ depth' = depth
    BY <1>7 DEF GuardRefuses, At
  <2>2. F.check \in State
    BY <1>1, <2>1, ChosenIsCase DEF CallbackKinds
  <2> QED BY <1>7, <1>climb, <2>1, <2>2 DEF GuardRefuses
<1>8. CASE SaveHistory
  BY <1>8, <1>goto DEF SaveHistory, At, CallbackKinds
<1>9. CASE Move
  BY <1>9, <1>goto DEF Move, At, CallbackKinds
<1>10. CASE Finish
  BY <1>10 DEF Finish, Return
<1> QED BY <1>3, <1>4, <1>5, <1>6, <1>7, <1>8, <1>9, <1>10 DEF Step

\* A call of dispatch that is not interrupted takes at most 5 steps for each level of
\* the climb: whatever the guards say, it returns or is killed by a wild read.
THEOREM CallsEnd == Spec => CallsRunOut
<1>1. TypeInv /\ [Next]_vars =>
        [Step /\ alive' =>
           \/ depth' = depth - 1
           \/ depth' = depth /\ StepsLeft(F') \in 0 .. StepsLeft(F) - 1]_vars
  BY RunsOut
<1>2. BaseInv => TypeInv
  BY DEF BaseInv
<1> QED BY <1>1, <1>2, BaseInvariant, PTL DEF Spec, CallsRunOut

-----------------------------------------------------------------------------
(* When no history is used before it was saved.                            *)

\* The machine is in a state; in one with a case to a history, or below it, that
\* history was saved; and a case that is about to move the machine has saved the
\* history of its owner's parent.
HistoriesHeld ==
  /\ current # 0
  /\ \A c \in Cases :
       c.history /\ c.target # 0 /\ current \in Below[c.source] =>
         history[c.target] # 0
  /\ depth > 0 /\ F.pc = "action" /\ Parent[F.check] # 0 =>
       history[Parent[F.check]] # 0

\* Only SaveHistory brings a call to its action.
LEMMA ActionComesFromSave ==
  ASSUME SafeInv, [Next]_vars, depth' > 0, frame'[depth'].pc = "action"
  PROVE  SaveHistory \/ UNCHANGED <<current, history, depth, frame>>
<1> SUFFICES ASSUME ~SaveHistory PROVE UNCHANGED <<current, history, depth, frame>>
  OBVIOUS
<1>0. /\ TypeInv /\ depth \in 0 .. MaxFrames /\ MaxFrames \in Nat
      /\ frame \in [1 .. MaxFrames -> Frame]
  BY Constants DEF SafeInv, BaseInv, TypeInv, TypeOK
<1>goto. ASSUME NEW pc \in {"guard", "exit", "entry"}, depth > 0, depth' = depth, Goto(pc)
         PROVE  FALSE
  BY <1>0, <1>goto, GotoGoes DEF CallbackKinds
<1>climb. ASSUME depth > 0, depth' = depth, F.check \in State,
                 frame' = [frame EXCEPT ![depth] =
                             [pc |-> "check", event |-> F.event,
                              check |-> Parent[F.check]]]
          PROVE  FALSE
  BY <1>0, <1>climb
<1>return. ASSUME depth > 0, Return PROVE FALSE
  <2>1. \A d \in 1 .. depth' : d \in 1 .. depth /\ d # depth /\ frame'[d] = frame[d]
    BY <1>0, <1>return, ReturnKeeps
  <2>2. depth' \in 1 .. depth'
    BY <1>0, <1>return DEF Return
  <2> QED BY <2>1, <2>2 DEF SafeInv, WalkInv, OthersInEntry
<1>1. ASSUME NEW e \in Events, Dispatch(e) PROVE FALSE
  <2>1. frame'[depth'] = [pc |-> "check", event |-> e, check |-> current]
    BY <1>0, <1>1, DispatchKeeps
  <2> QED BY <2>1
<1>2. ASSUME NEW s \in Queried, IsIn(s)
      PROVE  UNCHANGED <<current, history, depth, frame>>
  BY <1>2 DEF IsIn
<1>3. CASE TakeCase
  BY <1>3, <1>goto DEF TakeCase, At
<1>4. CASE Ascend
  BY <1>0, <1>4, <1>climb, AscendClimbs
<1>5. CASE PassRoot
  BY <1>5, <1>return DEF PassRoot, At
<1>6. CASE GuardAllows
  BY <1>6, <1>goto DEF GuardAllows, At
<1>7. CASE GuardRefuses
  <2>1. depth > 0 /\ F.pc = "guard" /\ depth' = depth
    BY <1>7 DEF GuardRefuses, At
  <2>2. F.check \in State
    BY <1>0, <2>1, ChosenIsCase DEF CallbackKinds
  <2> QED BY <1>7, <1>climb, <2>1, <2>2 DEF GuardRefuses
<1>8. CASE Move
  BY <1>8, <1>goto DEF Move, At
<1>9. CASE Finish
  BY <1>9, <1>return DEF Finish, At
<1>10. CASE UNCHANGED vars
  BY <1>10 DEF vars
<1> QED BY <1>1, <1>2, <1>3, <1>4, <1>5, <1>6, <1>7, <1>8, <1>9, <1>10 DEF Next, Step

\* The case in whose action the innermost call is, and where the machine then is.
LEMMA ActionOwner ==
  ASSUME SafeInv, At("action")
  PROVE  /\ depth > 0 /\ Chosen \in Cases /\ Chosen \in Case
         /\ Chosen.source = F.check /\ F.check \in State
         /\ current \in Below[Chosen.source]
<1>1. depth > 0 /\ F.pc = "action"
  BY DEF At
<1>2. /\ Chosen \in Cases /\ Chosen \in Case /\ F.check \in State
      /\ Chosen.source = F.check
  BY <1>1, ChosenIsCase DEF SafeInv, BaseInv, CallbackKinds
<1>3. current \in Below[F.check]
  BY <1>1, <1>2, OwnerAbove, Constants DEF SafeInv, State
<1> QED BY <1>1, <1>2, <1>3

LEMMA HeldIsSaved ==
  ASSUME SafeInv, HistoriesHeld
  PROVE  HistoryWasSaved
BY ActionOwner DEF HistoriesHeld, HistoryWasSaved

\* A move goes where its case leads: no history it needs is missing.
LEMMA MoveLeads ==
  ASSUME SafeInv, HistoriesHeld, Move, Chosen.target # 0
  PROVE  current' # 0 /\ current' \in LeadsTo(Chosen)
<1>1. At("action") /\ current' = Destination(Chosen)
  BY DEF Move
<1>2. Chosen.target \in State
  BY <1>1, ActionOwner, Constants DEF Case, State
<1>3. CASE Chosen.history
  <2>1. history[Chosen.target] # 0
    BY <1>1, <1>3, HeldIsSaved DEF HistoryWasSaved
  <2>2. current' = history[Chosen.target]
    BY <1>1, <1>3, <2>1 DEF Destination
  <2>3. history[Chosen.target] \in Below[Chosen.target]
    BY <1>2, <2>1 DEF SafeInv, HistoryInside
  <2> QED BY <1>3, <2>1, <2>2, <2>3 DEF LeadsTo
<1>4. CASE ~Chosen.history
  <2>1. current' = Chosen.target
    BY <1>1, <1>4 DEF Destination
  <2> QED BY <1>4, <2>1 DEF LeadsTo
<1> QED BY <1>3, <1>4

LEMMA HeldStep ==
  ASSUME HistoryIsKept, SafeInv, HistoriesHeld, [Next]_vars
  PROVE  HistoriesHeld'
<1>0. /\ TypeInv /\ current \in 0 .. N /\ history \in [State -> 0 .. N]
      /\ depth \in 0 .. MaxFrames
  BY DEF SafeInv, BaseInv, TypeInv, TypeOK
<1>1. ASSUME UNCHANGED <<current, history>>, ~SaveHistory PROVE HistoriesHeld'
  <2>1. /\ current' # 0
        /\ \A c \in Cases :
             c.history /\ c.target # 0 /\ current' \in Below[c.source] =>
               history'[c.target] # 0
    BY <1>1 DEF HistoriesHeld
  <2>2. ASSUME depth' > 0, F'.pc = "action", Parent[F'.check] # 0
        PROVE  history'[Parent[F'.check]] # 0
    <3>1. UNCHANGED <<depth, frame>>
      BY <1>1, <2>2, ActionComesFromSave DEF F
    <3> QED BY <1>1, <2>2, <3>1 DEF HistoriesHeld, F
  <2> QED BY <2>1, <2>2 DEF HistoriesHeld
<1>2. CASE SaveHistory
  <2>1. /\ depth > 0 /\ F.pc = "exit" /\ Goto("action")
        /\ UNCHANGED <<current, depth, alive>>
    BY <1>2 DEF SaveHistory, At
  <2>2. /\ Chosen.source = F.check /\ F.check \in State /\ HasCase(F.check, F.event)
    BY <1>0, <2>1, ChosenIsCase DEF CallbackKinds
  <2>3. history' = [s \in State |-> IF s = Parent[F.check] THEN current ELSE history[s]]
    BY <1>2, <2>2 DEF SaveHistory
  <2>4. \A s \in State : history[s] # 0 => history'[s] # 0
    BY <2>3 DEF HistoriesHeld
  <2>5. F'.check = F.check
    <3>1. F.check # 0
      BY <2>2, Constants DEF State
    <3> QED BY <1>0, <2>1, <2>2, <3>1, GotoKeeps DEF F, CallbackKinds
  <2>6. Parent[F.check] # 0 => history'[Parent[F.check]] # 0
    <3>1. Parent[F.check] # 0 => Parent[F.check] \in State
      BY <2>2, Constants DEF State
    <3> QED BY <2>3, <3>1 DEF HistoriesHeld
  <2>7. \A c \in Cases : c.target # 0 => c.target \in State
    BY Constants DEF Case, State
  <2> QED BY <2>1, <2>4, <2>5, <2>6, <2>7 DEF HistoriesHeld
<1>3. CASE Move
  <2>1. /\ At("action") /\ current' = Destination(Chosen)
        /\ Goto("entry") /\ UNCHANGED <<history, depth>>
    BY <1>3 DEF Move
  <2>2. /\ depth > 0 /\ Chosen \in Cases /\ Chosen \in Case
        /\ Chosen.source = F.check /\ F.check \in State
        /\ current \in Below[Chosen.source]
    BY <2>1, ActionOwner
  <2>3. F'.pc = "entry"
    BY <1>0, <2>1, <2>2, GotoGoes DEF F, CallbackKinds
  <2>4. F.pc = "action" /\ HistoryWasSaved
    BY <2>1, HeldIsSaved DEF At
  <2>5. CASE Chosen.target = 0
    <3>1. current' = current
      BY <2>1, <2>5 DEF Destination
    <3> QED BY <2>1, <2>3, <3>1 DEF HistoriesHeld
  <2>6. CASE Chosen.target # 0
    <3>1. Chosen.target \in State
      BY <2>2, <2>6, Constants DEF Case, State
    <3>2. current' # 0 /\ current' \in LeadsTo(Chosen)
      BY <1>3, <2>6, MoveLeads
    <3>3. ASSUME NEW c \in Cases, c.history, c.target # 0, current' \in Below[c.source]
          PROVE  history[c.target] # 0
      <4>0. c.source \in State
        BY Constants DEF Case
      <4>1. Chosen.source \in Below[c.source] \/ Parent[Chosen.source] = c.target
        <5>1. LeadsTo(Chosen) \cap Below[c.source] # {}
          BY <3>2, <3>3
        <5> QED BY <2>2, <3>3, <5>1 DEF HistoryIsKept
      <4>2. CASE Chosen.source \in Below[c.source]
        <5>1. current \in Below[c.source]
          BY <2>2, <4>0, <4>2, BelowWithin
        <5> QED BY <3>3, <5>1 DEF HistoriesHeld
      <4>3. CASE Parent[Chosen.source] = c.target
        BY <2>2, <2>4, <3>3, <4>3 DEF HistoriesHeld
      <4> QED BY <4>1, <4>2, <4>3
    <3> QED BY <2>1, <2>3, <3>2, <3>3 DEF HistoriesHeld
  <2> QED BY <2>5, <2>6
<1>4. CASE ~SaveHistory /\ ~Move
  <2>1. UNCHANGED <<current, history>>
    BY <1>4 DEF Next, Step, vars, Dispatch, IsIn, TakeCase, Ascend, PassRoot,
       GuardAllows, GuardRefuses, Finish
  <2> QED BY <1>1, <1>4, <2>1
<1> QED BY <1>2, <1>3, <1>4

LEMMA HeldInvariant ==
  ASSUME Reentrant \subseteq {"entry"}, HistoryIsKept
  PROVE  Spec => [](SafeInv /\ HistoriesHeld)
<1>1. Init => HistoriesHeld
  BY Constants DEF Init, HistoriesHeld, HistoryIsKept, State
<1>2. SafeInv /\ HistoriesHeld /\ [Next]_vars => HistoriesHeld'
  BY HeldStep
<1> QED BY <1>1, <1>2, SafeInvariant, PTL DEF Spec

\* Where the states with a case to a history are reached from outside by cases of
\* that composite's children only, a transition to a history is never carried out
\* before one was saved, if only entry callbacks call dispatch again.
THEOREM HistoryIsSavedFirst ==
  ASSUME Reentrant \subseteq {"entry"}, HistoryIsKept
  PROVE  Spec => []HistoryWasSaved
<1>1. SafeInv /\ HistoriesHeld => HistoryWasSaved
  BY HeldIsSaved
<1> QED BY <1>1, HeldInvariant, PTL

-----------------------------------------------------------------------------
(* Shallow history: where it holds, the saved state is the one last left.  *)

\* A case that is about to move the machine has saved the current state for its
\* owner's parent; and in a state with a case to a history, or below it, what is
\* saved for that composite is where the machine was when it last left it.
SavedIsLastLeft ==
  /\ depth > 0 /\ F.pc = "action" /\ Parent[F.check] # 0 =>
       history[Parent[F.check]] = current
  /\ \A c \in Cases :
       c.history /\ c.target # 0 /\ current \in Below[c.source] =>
         history[c.target] = lastLeft[c.target]

\* A state below p other than p is below a child of p.
LEMMA BelowSomeChild ==
  ASSUME NEW p \in State, NEW s \in Below[p], s # p
  PROVE  \E c \in State : Parent[c] = p /\ s \in Below[c]
<1> DEFINE S == {x \in Below[p] : x = p \/ \E c \in State : Parent[c] = p /\ x \in Below[c]}
<1>1. S \in SUBSET State
  BY BelowClosed
<1>2. Closed(p, S)
  <2>1. p \in S
    BY BelowClosed DEF Closed
  <2>2. ASSUME NEW x \in State, Parent[x] \in S PROVE x \in S
    <3>1. x \in Below[p]
      BY <2>2, BelowClosed DEF Closed
    <3>2. CASE Parent[x] = p
      <4>1. x \in Below[x]
        BY BelowClosed DEF Closed
      <4> QED BY <3>1, <3>2, <4>1
    <3>3. CASE Parent[x] # p
      <4>1. PICK c \in State : Parent[c] = p /\ Parent[x] \in Below[c]
        BY <2>2, <3>3
      <4>2. x \in Below[c]
        BY <4>1, BelowClosed DEF Closed
      <4> QED BY <3>1, <4>1, <4>2
    <3> QED BY <3>2, <3>3
  <2> HIDE DEF S
  <2> QED BY <2>1, <2>2 DEF Closed
<1> HIDE DEF S
<1>3. s \in S
  BY <1>1, <1>2, BelowInduction
<1> QED BY <1>3 DEF S

\* The observer only watches: what holds of the machine holds of it observed.
LEMMA ObservedStepIs == [ObservedNext]_observed => [Next]_vars
BY DEF ObservedNext, ObservedMove, observed, vars, Next, Step

LEMMA ObservedSteps == ObservedSpec => Spec
<1>1. ObservedInit => Init
  BY DEF ObservedInit
<1> QED BY <1>1, ObservedStepIs, PTL DEF ObservedSpec, Spec

LEMMA LastLeftStep ==
  ASSUME HistoryIsKept, HistoryFromOutside, SafeInv, HistoriesHeld, SavedIsLastLeft,
         [ObservedNext]_observed
  PROVE  SavedIsLastLeft'
<1>0. /\ TypeInv /\ history \in [State -> 0 .. N] /\ [Next]_vars
      /\ \A c \in Cases : c.source \in State /\ (c.target # 0 => c.target \in State)
  BY ObservedStepIs, Constants DEF SafeInv, BaseInv, TypeInv, TypeOK, Case, State
<1>1. ASSUME UNCHANGED <<current, history, lastLeft>>, ~SaveHistory
      PROVE  SavedIsLastLeft'
  <2>1. ASSUME depth' > 0, F'.pc = "action", Parent[F'.check] # 0
        PROVE  history'[Parent[F'.check]] = current'
    <3>1. UNCHANGED <<depth, frame>>
      BY <1>0, <1>1, <2>1, ActionComesFromSave DEF F
    <3> QED BY <1>1, <2>1, <3>1 DEF SavedIsLastLeft, F
  <2> QED BY <1>1, <2>1 DEF SavedIsLastLeft
<1>2. CASE SaveHistory /\ UNCHANGED lastLeft
  <2>1. /\ depth > 0 /\ F.pc = "exit" /\ Goto("action")
        /\ UNCHANGED <<current, depth, alive>>
    BY <1>2 DEF SaveHistory, At
  <2>2. Chosen.source = F.check /\ F.check \in State /\ HasCase(F.check, F.event)
    BY <1>0, <2>1, ChosenIsCase DEF CallbackKinds
  <2>3. history' = [s \in State |-> IF s = Parent[F.check] THEN current ELSE history[s]]
    BY <1>2, <2>2 DEF SaveHistory
  <2>4. F'.check = F.check /\ F.check # 0
    <3>1. F.check # 0
      BY <2>2, Constants DEF State
    <3> QED BY <1>0, <2>1, <2>2, <3>1, GotoKeeps DEF F, CallbackKinds
  <2>5. Parent[F.check] # 0 => history'[Parent[F.check]] = current
    <3>1. Parent[F.check] # 0 => Parent[F.check] \in State
      BY <2>2, Constants DEF State
    <3> QED BY <2>3, <3>1
  <2>6. current \in Below[F.check]
    BY <2>1, <2>4, OwnerAbove DEF SafeInv
  <2>7. ASSUME NEW c \in Cases, c.history, c.target # 0, current \in Below[c.source]
        PROVE  history'[c.target] = lastLeft[c.target]
    <3>1. current \notin Below[c.target]
      BY <2>7 DEF HistoryFromOutside
    <3>2. c.target # Parent[F.check]
      BY <2>2, <2>6, <2>7, <3>1, BelowChild
    <3> QED BY <1>0, <2>3, <2>7, <3>2 DEF SavedIsLastLeft
  <2> QED BY <1>2, <2>1, <2>4, <2>5, <2>7 DEF SavedIsLastLeft
<1>3. CASE ObservedMove
  <2>1. /\ Move /\ At("action") /\ current' = Destination(Chosen)
        /\ Goto("entry") /\ UNCHANGED <<history, depth>>
    BY <1>3 DEF ObservedMove, Move
  <2>2. /\ depth > 0 /\ F.pc = "action" /\ Chosen \in Cases
        /\ Chosen.source = F.check /\ F.check \in State
        /\ current \in Below[F.check]
    BY <2>1, ActionOwner DEF At
  <2>3. F'.pc = "entry"
    BY <1>0, <2>1, <2>2, GotoGoes DEF F, CallbackKinds
  <2>4. ASSUME NEW c \in Cases, c.history, c.target # 0, current' \in Below[c.source]
        PROVE  history[c.target] = lastLeft'[c.target]
    <3>0. c.target \in State /\ c.source \in State /\ current' \notin Below[c.target]
      BY <1>0, <2>4 DEF HistoryFromOutside
    <3>1. lastLeft'[c.target] = IF current \in Below[c.target] \ {c.target}
                                THEN current ELSE lastLeft[c.target]
      BY <1>3, <3>0 DEF ObservedMove
    <3>2. ASSUME current \in Below[c.source]
          PROVE  history[c.target] = lastLeft'[c.target]
      <4>1. current \notin Below[c.target]
        BY <2>4, <3>2 DEF HistoryFromOutside
      <4> QED BY <2>4, <3>1, <3>2, <4>1 DEF SavedIsLastLeft
    <3>3. CASE Chosen.target = 0
      BY <2>1, <2>4, <3>2, <3>3 DEF Destination
    <3>4. CASE Chosen.target # 0
      <4>1. LeadsTo(Chosen) \cap Below[c.source] # {}
        BY <2>1, <2>4, <3>4, MoveLeads
      <4>2. Chosen.source \in Below[c.source] \/ Parent[Chosen.source] = c.target
        BY <2>2, <2>4, <4>1 DEF HistoryIsKept
      <4>3. CASE Chosen.source \in Below[c.source]
        BY <2>2, <3>0, <3>2, <4>3, BelowWithin
      <4>4. CASE Parent[Chosen.source] = c.target
        <5>1. current \in Below[c.target] \ {c.target}
          BY <2>2, <2>4, <4>4, BelowChild
        <5>2. history[c.target] = current
          BY <2>2, <2>4, <4>4 DEF SavedIsLastLeft
        <5> QED BY <3>1, <5>1, <5>2
      <4> QED BY <4>2, <4>3, <4>4
    <3> QED BY <3>3, <3>4
  <2> QED BY <2>1, <2>3, <2>4 DEF SavedIsLastLeft
<1>4. CASE ~SaveHistory /\ ~ObservedMove
  <2>1. UNCHANGED <<current, history, lastLeft>>
    BY <1>4 DEF ObservedNext, observed, Dispatch, TakeCase, Ascend, PassRoot,
       GuardAllows, GuardRefuses, Finish
  <2> QED BY <1>1, <1>4, <2>1
<1>5. SaveHistory /\ ~ObservedMove => UNCHANGED lastLeft
  BY DEF ObservedNext, observed
<1> QED BY <1>2, <1>3, <1>4, <1>5

LEMMA LastLeftInvariant ==
  ASSUME Reentrant \subseteq {"entry"}, HistoryIsKept, HistoryFromOutside
  PROVE  ObservedSpec => [](SafeInv /\ HistoriesHeld /\ SavedIsLastLeft)
<1>1. ObservedInit => SavedIsLastLeft
  BY Constants DEF ObservedInit, Init, SavedIsLastLeft, HistoryIsKept
<1>2. SafeInv /\ HistoriesHeld /\ SavedIsLastLeft /\ [ObservedNext]_observed
      => SavedIsLastLeft'
  BY LastLeftStep
<1>3. ObservedSpec => Spec
  BY ObservedSteps
<1> QED BY <1>1, <1>2, <1>3, HeldInvariant, PTL DEF ObservedSpec

\* Where a state with a case to the history of a composite is entered, from
\* outside it, by cases of that composite's children only, and is itself outside
\* the composite, the history is shallow as the usage text promises: the machine
\* goes back to the child it was in when it last left the composite.
THEOREM HistoryIsShallow ==
  ASSUME Reentrant \subseteq {"entry"}, HistoryIsKept, HistoryFromOutside
  PROVE  ObservedSpec => ShallowHistory
<1>1. ASSUME SafeInv, HistoriesHeld, SavedIsLastLeft, NEW c \in Cases,
             ObservedMove, Chosen = c, c.history, c.target # 0,
             lastLeft[c.target] # 0, history[c.target] # 0
      PROVE  \E s \in State : /\ Parent[s] = c.target
                              /\ lastLeft[c.target] \in Below[s]
                              /\ current' \in Below[s]
  <2>1. At("action") /\ current' = Destination(Chosen)
    BY <1>1 DEF ObservedMove, Move
  <2>2. current \in Below[c.source]
    BY <1>1, <2>1, ActionOwner
  <2>3. history[c.target] = lastLeft[c.target]
    BY <1>1, <2>2 DEF SavedIsLastLeft
  <2>4. current' = history[c.target]
    BY <1>1, <2>1 DEF Destination
  <2>5. c.target \in State
    BY <1>1, Constants DEF Case, State
  <2>6. history[c.target] \in Below[c.target] /\ history[c.target] # c.target
    BY <1>1, <2>5 DEF SafeInv, HistoryInside
  <2> QED BY <2>3, <2>4, <2>5, <2>6, BelowSomeChild
<1>2. SafeInv /\ HistoriesHeld /\ SavedIsLastLeft =>
        (\A c \in Cases :
           /\ ObservedMove /\ Chosen = c /\ c.history /\ c.target # 0
           /\ lastLeft[c.target] # 0 /\ history[c.target] # 0
           => \E s \in State : /\ Parent[s] = c.target
                               /\ lastLeft[c.target] \in Below[s]
                               /\ current' \in Below[s])
  BY <1>1
<1> QED BY <1>2, LastLeftInvariant, PTL DEF ShallowHistory

-----------------------------------------------------------------------------
(* When the climb past the root cannot happen.                             *)

\* The machine is in a state, and so is every climb.
InTable ==
  /\ alive
  /\ current # 0
  /\ \A d \in 1 .. depth : frame[d].check # 0

\* A climb leaves a level only for the parent it has.
LEMMA ParentExists ==
  ASSUME BaseInv, RootsTakeAll, depth > 0, F.check \in State,
         \/ F.pc = "check" /\ ~HasCase(F.check, F.event)
         \/ F.pc = "guard"
  PROVE  Parent[F.check] # 0
<1>1. F.event \in Events
  BY Constants DEF BaseInv, TypeInv, TypeOK, F, Frame
<1>2. SUFFICES ASSUME Parent[F.check] = 0 PROVE FALSE
  OBVIOUS
<1>3. HasCase(F.check, F.event) /\ ~Chosen.guard
  BY <1>1, <1>2 DEF RootsTakeAll, Chosen
<1>4. Chosen \in Cases /\ Chosen.source = F.check /\ Chosen.event = F.event
  BY <1>3, CaseOfIsCase DEF Chosen
<1> QED BY <1>3, <1>4, LeftLevel

LEMMA InTableStep ==
  ASSUME RootsTakeAll, Queried = {}, BaseInv, InTable, HistoryWasSaved,
         [Next]_vars
  PROVE  InTable'
<1>0. /\ TypeInv /\ depth \in 0 .. MaxFrames /\ MaxFrames \in Nat
      /\ current \in 0 .. N /\ frame \in [1 .. MaxFrames -> Frame]
  BY Constants DEF BaseInv, TypeInv, TypeOK
<1>same. ASSUME UNCHANGED <<current, depth, frame, alive>> PROVE InTable'
  BY <1>same DEF InTable
<1>stays. ASSUME depth > 0, UNCHANGED <<depth, alive>>, current' # 0,
                 frame'[depth].check # 0,
                 \A d \in 1 .. depth : d # depth => frame'[d] = frame[d]
          PROVE  InTable'
  BY <1>stays DEF InTable
<1>top. depth > 0 => F.check \in State
  <2>1. ASSUME depth > 0 PROVE depth \in 1 .. depth /\ F \in Frame /\ F.check # 0
    BY <1>0, <2>1 DEF InTable, F
  <2> QED BY <2>1, Constants DEF Frame, State
<1>goto. ASSUME NEW pc \in CallbackKinds, depth > 0, UNCHANGED <<depth, alive>>,
                current' # 0, Goto(pc), HasCase(F.check, F.event)
         PROVE  InTable'
  <2>1. F.check # 0
    BY <1>goto, <1>top, Constants DEF State
  <2>2. frame'[depth].check = F.check
        /\ \A d \in 1 .. depth : d # depth => frame'[d] = frame[d]
    BY <1>0, <1>goto, <2>1, GotoKeeps
  <2> QED BY <1>goto, <1>stays, <2>1, <2>2
<1>climb. ASSUME depth > 0, UNCHANGED <<current, depth, alive>>,
                 \/ F.pc = "check" /\ ~HasCase(F.check, F.event)
                 \/ F.pc = "guard",
                 frame' = [frame EXCEPT ![depth] =
                             [pc |-> "check", event |-> F.event,
                              check |-> Parent[F.check]]]
          PROVE  InTable'
  <2>1. Parent[F.check] # 0
    BY <1>top, <1>climb, ParentExists
  <2>2. frame'[depth].check = Parent[F.check]
        /\ \A d \in 1 .. depth : d # depth => frame'[d] = frame[d]
    <3>1. frame'[depth] = [pc |-> "check", event |-> F.event,
                           check |-> Parent[F.check]]
          /\ \A d \in 1 .. depth : d # depth => frame'[d] = frame[d]
      BY <1>0, <1>top, <1>climb, ClimbKeeps
    <3> QED BY <3>1
  <2> QED BY <1>climb, <1>stays, <2>1, <2>2 DEF InTable
<1>1. ASSUME NEW e \in Events, Dispatch(e) PROVE InTable'
  <2>1. /\ depth' = depth + 1 /\ UNCHANGED <<current, alive>>
        /\ frame'[depth'] = [pc |-> "check", event |-> e, check |-> current]
        /\ \A d \in 1 .. depth : frame'[d] = frame[d]
    BY <1>0, <1>1, DispatchKeeps
  <2>2. \A d \in 1 .. depth' : d # depth' => d \in 1 .. depth
    BY <1>0, <2>1
  <2>3. frame'[depth'].check # 0
    BY <2>1 DEF InTable
  <2> QED BY <2>1, <2>2, <2>3 DEF InTable
<1>2. ASSUME NEW s \in Queried, IsIn(s) PROVE InTable'
  BY <1>2
<1>3. CASE TakeCase
  <2>1. PICK pc \in {"guard", "exit"} : Goto(pc)
    BY <1>3 DEF TakeCase
  <2> QED BY <1>3, <1>goto, <2>1 DEF TakeCase, At, InTable, CallbackKinds
<1>4. CASE Ascend
  BY <1>0, <1>4, <1>climb, AscendClimbs
<1>5. CASE PassRoot
  BY <1>5, <1>top, Constants DEF PassRoot, At, State
<1>case. depth > 0 /\ F.pc \in CallbackKinds => HasCase(F.check, F.event)
  BY <1>0, ChosenIsCase
<1>6. CASE GuardAllows
  BY <1>6, <1>goto, <1>case DEF GuardAllows, At, InTable, CallbackKinds
<1>7. CASE GuardRefuses
  BY <1>7, <1>climb DEF GuardRefuses, At
<1>8. CASE SaveHistory
  BY <1>8, <1>goto, <1>case DEF SaveHistory, At, InTable, CallbackKinds
<1>9. CASE Move
  <2>1. current' # 0
    BY <1>9 DEF Move, Destination, HistoryWasSaved, InTable
  <2> QED BY <1>9, <1>goto, <1>case, <2>1 DEF Move, At, CallbackKinds
<1>10. CASE Finish
  <2>1. depth > 0 /\ Return /\ UNCHANGED <<current, alive>>
    BY <1>10 DEF Finish, At
  <2>2. \A d \in 1 .. depth' : d \in 1 .. depth /\ frame'[d] = frame[d]
    BY <1>0, <2>1, ReturnKeeps
  <2> QED BY <2>1, <2>2 DEF InTable
<1>11. CASE UNCHANGED vars
  BY <1>11, <1>same DEF vars
<1> QED BY <1>1, <1>2, <1>3, <1>4, <1>5, <1>6, <1>7, <1>8, <1>9, <1>10, <1>11
        DEF Next, Step

\* Where every root takes every event and no history is used before it was
\* saved, no read leaves state_info[], whatever callbacks call dispatch again
\* and whatever type the compiler gives the enum.
THEOREM ReadsStayInTable ==
  ASSUME RootsTakeAll, Queried = {}
  PROVE  Spec /\ []HistoryWasSaved => []NoWildRead
<1>1. Init => InTable
  BY Constants DEF Init, InTable, State
<1>2. BaseInv /\ InTable /\ HistoryWasSaved /\ [Next]_vars => InTable'
  BY InTableStep
<1>3. InTable => NoWildRead
  BY DEF InTable, NoWildRead
<1> QED BY <1>1, <1>2, <1>3, BaseInvariant, PTL DEF Spec

\* A machine whose roots take every event and whose histories are kept is never
\* read outside state_info[], whatever type the compiler gives the enum.
THEOREM KeptReadsStayInTable ==
  ASSUME RootsTakeAll, Queried = {}, Reentrant \subseteq {"entry"}, HistoryIsKept
  PROVE  Spec => []NoWildRead
BY ReadsStayInTable, HistoryIsSavedFirst, PTL

-----------------------------------------------------------------------------
(* dispatch is one step of HsmMachine.                                     *)

\* The promise speaks of the same tree.
LEMMA SameTree ==
  /\ Promise!State = State
  /\ \A p \in State : Promise!Below[p] = Below[p]
BY DEF Promise!State, State, Promise!Below, Below

\* The step that saves history carries out the innermost case that was allowed.
LEMMA SaveTakes ==
  ASSUME Reentrant \subseteq {"entry"}, SafeInv, SaveHistory,
         (EnumUnsigned => HistoryWasSaved)'
  PROVE  Promise!Next
<1>1. depth > 0 /\ F.pc = "exit" /\ alive /\ Goto("action")
      /\ UNCHANGED <<current, depth, alive>>
  BY DEF SaveHistory, At
<1>2. TypeInv /\ history \in [State -> 0 .. N]
  BY DEF SafeInv, BaseInv, TypeInv, TypeOK
<1>3. /\ F.check \in State /\ HasCase(F.check, F.event)
      /\ Chosen \in Cases /\ Chosen \in Case
      /\ Chosen.source = F.check /\ Chosen.event = F.event
      /\ Chosen.target \in 0 .. N
  BY <1>1, <1>2, ChosenIsCase DEF CallbackKinds
<1>4. F.check # 0
  BY <1>3, Constants DEF State
<1>5. current \in Below[F.check]
  BY <1>1, <1>4, OwnerAbove DEF SafeInv
<1>6. /\ frame'[depth].pc = "action" /\ frame'[depth].check = F.check
      /\ frame'[depth].event = F.event
  BY <1>1, <1>2, <1>3, <1>4, GotoKeeps DEF CallbackKinds
<1>7. F'.pc = "action" /\ Chosen' = Chosen
  BY <1>1, <1>6 DEF F, Chosen, CaseOf
<1>8. Promise!MayTake(Chosen)
  <2>1. current \in Promise!Below[Chosen.source]
    BY <1>3, <1>5, SameTree
  <2>2. ASSUME NEW d \in Cases, d.event = Chosen.event,
               d.source \in Promise!Below[Chosen.source] \ {Chosen.source},
               current \in Promise!Below[d.source]
        PROVE  d.guard
    <3>1. d.source \in State
      BY Constants DEF Case
    <3>2. d.source \in Below[F.check] \ {F.check} /\ current \in Below[d.source]
      BY <1>3, <2>2, <3>1, SameTree
    <3> QED BY <1>1, <1>3, <1>4, <2>2, <3>2 DEF SafeInv, WalkInv, SkippedGuarded
  <2>3. PromisedCurrent = current
    BY <1>1 DEF PromisedCurrent
  <2> QED BY <2>1, <2>2, <2>3 DEF Promise!MayTake
<1>9. history' = [s \in Promise!State |->
                    IF s = Parent[Chosen.source] THEN PromisedCurrent
                    ELSE history[s]]
  BY <1>1, SameTree DEF SaveHistory, PromisedCurrent
<1>10. PromisedCurrent' = Destination(Chosen)'
  BY <1>1, <1>7 DEF PromisedCurrent
<1>11. Destination(Chosen)' =
         IF Chosen.target = 0 THEN current
         ELSE IF Chosen.history /\ (EnumUnsigned \/ history'[Chosen.target] # 0)
              THEN history'[Chosen.target]
              ELSE Chosen.target
  BY <1>1, <1>7 DEF Destination
<1>12. EnumUnsigned /\ Chosen.history /\ Chosen.target # 0
         => history'[Chosen.target] # 0
  BY <1>1, <1>7 DEF HistoryWasSaved, At
<1>13. PromisedCurrent' =
         IF Chosen.target = 0 THEN PromisedCurrent
         ELSE IF Chosen.history /\ history'[Chosen.target] # 0
              THEN history'[Chosen.target]
              ELSE Chosen.target
  <2>1. PromisedCurrent = current
    BY <1>1 DEF PromisedCurrent
  <2> QED BY <1>10, <1>11, <1>12, <2>1
<1>14. Promise!Take(Chosen)
  BY <1>8, <1>9, <1>13 DEF Promise!Take
<1> QED BY <1>3, <1>14 DEF Promise!Next

\* If only entry callbacks call dispatch, and no history is used before it was
\* saved or the compiler gives the enum a signed type, the generated code
\* implements HsmMachine: a call of dispatch is one step of it, taken when
\* history is saved, or changes nothing.
THEOREM HsmImplementsMachine ==
  ASSUME Reentrant \subseteq {"entry"}
  PROVE  Spec /\ [](EnumUnsigned => HistoryWasSaved) => DispatchIsOneStep
<1> DEFINE Kept == EnumUnsigned => HistoryWasSaved
<1>1. Init => Promise!Init
  BY SameTree DEF Init, Promise!Init, PromisedCurrent
<1>2. SafeInv /\ Kept' /\ [Next]_vars => [Promise!Next]_(Promise!vars)
  <2> SUFFICES ASSUME SafeInv, [Next]_vars, ~SaveHistory
               PROVE  UNCHANGED <<PromisedCurrent, history>>
    BY SaveTakes DEF Promise!vars
  <2>0. /\ TypeInv /\ depth \in 0 .. MaxFrames /\ MaxFrames \in Nat
        /\ frame \in [1 .. MaxFrames -> Frame]
    BY Constants DEF SafeInv, BaseInv, TypeInv, TypeOK
  <2>same. ASSUME UNCHANGED <<current, history, depth, frame>>
           PROVE  UNCHANGED <<PromisedCurrent, history>>
    BY <2>same DEF PromisedCurrent, Destination, F, Chosen, CaseOf
  <2>quiet. ASSUME UNCHANGED <<current, history>>,
                   depth > 0 => F.pc # "action",
                   depth' > 0 => frame'[depth'].pc # "action"
            PROVE  UNCHANGED <<PromisedCurrent, history>>
    BY <2>quiet DEF PromisedCurrent, F
  <2>goto. ASSUME NEW pc \in {"guard", "exit"}, depth > 0, Goto(pc),
                  UNCHANGED <<current, history, depth>>, F.pc # "action"
           PROVE  UNCHANGED <<PromisedCurrent, history>>
    <3>1. frame'[depth].pc = pc
      BY <2>0, <2>goto, GotoGoes DEF CallbackKinds
    <3> QED BY <2>goto, <2>quiet, <3>1
  <2>climb. ASSUME depth > 0, UNCHANGED <<current, history, depth>>,
                   F.pc # "action", F.check \in State,
                   frame' = [frame EXCEPT ![depth] =
                               [pc |-> "check", event |-> F.event,
                                check |-> Parent[F.check]]]
            PROVE  UNCHANGED <<PromisedCurrent, history>>
    <3>1. frame'[depth].pc = "check"
      BY <2>0, <2>climb
    <3> QED BY <2>climb, <2>quiet, <3>1
  <2>return. ASSUME depth > 0, Return, UNCHANGED <<current, history>>,
                    F.pc # "action"
             PROVE  UNCHANGED <<PromisedCurrent, history>>
    <3>1. \A d \in 1 .. depth' : d \in 1 .. depth /\ d # depth
                                 /\ frame'[d] = frame[d]
      BY <2>0, <2>return, ReturnKeeps
    <3>2. depth' > 0 => depth' \in 1 .. depth'
      BY <2>0, <2>return DEF Return
    <3>3. depth' > 0 => frame'[depth'].pc # "action"
      BY <3>1, <3>2 DEF SafeInv, WalkInv, OthersInEntry
    <3> QED BY <2>quiet, <2>return, <3>3
  <2>1. ASSUME NEW e \in Events, Dispatch(e)
        PROVE  UNCHANGED <<PromisedCurrent, history>>
    <3>1. depth = 0 \/ InCallback
      BY <2>1 DEF Dispatch, ApplicationRuns
    <3>2. InCallback => F.pc \in Reentrant
      BY DEF InCallback
    <3>3. \A x \in Reentrant : x # "action"
      OBVIOUS
    <3>4. depth > 0 => InCallback
      BY <2>0, <3>1
    <3>5. /\ frame'[depth'] = [pc |-> "check", event |-> e, check |-> current]
          /\ UNCHANGED <<current, history>>
      BY <2>0, <2>1, DispatchKeeps
    <3> QED BY <2>quiet, <3>2, <3>3, <3>4, <3>5
  <2>2. ASSUME NEW s \in Queried, IsIn(s)
        PROVE  UNCHANGED <<PromisedCurrent, history>>
    BY <2>2, <2>same DEF IsIn
  <2>3. CASE TakeCase
    BY <2>3, <2>goto DEF TakeCase, At
  <2>4. CASE Ascend
    BY <2>0, <2>4, <2>climb, AscendClimbs
  <2>5. CASE PassRoot
    <3>1. CASE EnumUnsigned
      BY <2>5, <2>same, <3>1 DEF PassRoot
    <3>2. CASE ~EnumUnsigned
      BY <2>5, <2>return, <3>2 DEF PassRoot, At
    <3> QED BY <3>1, <3>2
  <2>6. CASE GuardAllows
    BY <2>6, <2>goto DEF GuardAllows, At
  <2>7. CASE GuardRefuses
    <3>1. depth > 0 /\ F.pc = "guard" /\ UNCHANGED <<current, history, depth>>
      BY <2>7 DEF GuardRefuses, At
    <3>2. F.check \in State
      BY <2>0, <3>1, ChosenIsCase DEF CallbackKinds
    <3> QED BY <2>7, <2>climb, <3>1, <3>2 DEF GuardRefuses
  <2>8. CASE Move
    <3>1. /\ depth > 0 /\ F.pc = "action" /\ current' = Destination(Chosen)
          /\ Goto("entry") /\ UNCHANGED <<history, depth>>
      BY <2>8 DEF Move, At
    <3>2. frame'[depth].pc = "entry"
      BY <2>0, <3>1, GotoGoes DEF CallbackKinds
    <3>3. PromisedCurrent = Destination(Chosen) /\ PromisedCurrent' = current'
      BY <3>1, <3>2 DEF PromisedCurrent, F
    <3> QED BY <3>1, <3>3
  <2>9. CASE Finish
    BY <2>9, <2>return DEF Finish, At
  <2>10. CASE UNCHANGED vars
    BY <2>10, <2>same DEF vars
  <2> QED BY <2>1, <2>2, <2>3, <2>4, <2>5, <2>6, <2>7, <2>8, <2>9, <2>10
          DEF Next, Step
<1> QED BY <1>1, <1>2, SafeInvariant, PTL DEF Spec, DispatchIsOneStep, Promise!Spec

\* A machine whose histories are kept implements HsmMachine, whatever type the
\* compiler gives the enum.
THEOREM KeptImplementsMachine ==
  ASSUME Reentrant \subseteq {"entry"}, HistoryIsKept
  PROVE  Spec => DispatchIsOneStep
<1>1. HistoryWasSaved => (EnumUnsigned => HistoryWasSaved)
  OBVIOUS
<1> QED BY <1>1, HsmImplementsMachine, HistoryIsSavedFirst, PTL
=============================================================================
