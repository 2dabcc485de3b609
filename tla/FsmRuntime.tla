----------------------------- MODULE FsmRuntime -----------------------------
(***************************************************************************)
(* The flat state machine that smgen writes: <prefix>_init and             *)
(* <prefix>_dispatch over the tables of one .sm file.                      *)
(*                                                                         *)
(* dispatch looks up the current state and the event; in their case it     *)
(* asks the guard, calls the exit callback of the state, the action and,   *)
(* having moved, the entry callback of the target.  Without a case, or     *)
(* when the guard refuses, it returns false and changes nothing.  As in    *)
(* HsmRuntime the callbacks may call dispatch again.                       *)
(***************************************************************************)
EXTENDS Integers

CONSTANTS
  N,             \* number of states
  FsmEvents,
  Cases,         \* the cases of dispatch, one per state and event
  InitialState,  \* the state of `initial:'
  HasEntry,      \* the states with an entry callback
  HasExit,       \* the states with an exit callback
  Reentrant,     \* the kinds of callback from which the application dispatches
  MaxFrames      \* bound: calls of dispatch in progress; 1 is no re-entry

FsmStates == 1 .. N

FsmCase == [source: FsmStates, event: FsmEvents, guard: BOOLEAN, action: BOOLEAN,
            target: FsmStates]

CallbackKinds == {"guard", "exit", "action", "entry"}

\* Anything else does not compile: an unknown target or initial state is an
\* undeclared enumerator, a second case for a state and event a duplicate label.
ASSUME FsmAssumption ==
  /\ N \in Nat \ {0}
  /\ FsmEvents # {}
  /\ Cases \subseteq FsmCase
  /\ \A c, d \in Cases : c.source = d.source /\ c.event = d.event => c = d
  /\ InitialState \in FsmStates
  /\ HasEntry \subseteq FsmStates
  /\ HasExit \subseteq FsmStates
  /\ Reentrant \subseteq CallbackKinds
  /\ MaxFrames \in Nat \ {0}

VARIABLES
  currentState,  \* ctx->current_state
  depth,         \* calls of dispatch in progress
  frame,         \* where each of them is, its event and the state it began in
  entered        \* the states, of those with both callbacks, that the application
                 \* was told to enter and was not told since to exit

fsmVars == <<currentState, depth, frame, entered>>

Paired == HasEntry \cap HasExit

AnyEvent == CHOOSE e \in FsmEvents : TRUE
NoCall   == [pc |-> "idle", event |-> AnyEvent, source |-> InitialState]

HasCase(s, e) == \E c \in Cases : c.source = s /\ c.event = e
CaseOf(s, e)  == CHOOSE c \in Cases : c.source = s /\ c.event = e

\* The innermost call, and the case it is in.
F      == frame[depth]
Chosen == CaseOf(F.source, F.event)

-----------------------------------------------------------------------------
\* Mutation of FsmInit: the entry callback is called without looking for one.
InitEntersAnyway ==
  /\ currentState = InitialState
  /\ depth = 0
  /\ frame = [d \in 1 .. MaxFrames |-> NoCall]
  /\ entered = {InitialState}

FsmInit ==
  /\ currentState = InitialState
  /\ depth = 0
  /\ frame = [d \in 1 .. MaxFrames |-> NoCall]
  /\ entered = {InitialState} \cap Paired

\* The innermost call is inside a callback that uses the machine.
InCallback ==
  /\ depth > 0
  /\ F.pc \in Reentrant
  /\ CASE F.pc = "guard"  -> TRUE
       [] F.pc = "exit"   -> Chosen.source \in HasExit
       [] F.pc = "action" -> Chosen.action
       [] F.pc = "entry"  -> Chosen.target \in HasEntry

At(pc) == depth > 0 /\ F.pc = pc

Goto(pc) == frame' = [frame EXCEPT ![depth].pc = pc]

Return ==
  /\ depth' = depth - 1
  /\ frame' = [frame EXCEPT ![depth] = NoCall]

\* The application calls dispatch(ctx, e), and the current state has a case for
\* it.  (If it has none the call returns false at once.)
FsmDispatch(e) ==
  /\ depth = 0 \/ InCallback
  /\ depth < MaxFrames
  /\ HasCase(currentState, e)
  /\ depth' = depth + 1
  /\ LET guarded == CaseOf(currentState, e).guard IN
       /\ frame' = [frame EXCEPT ![depth + 1] =
                      [pc     |-> IF guarded THEN "guard" ELSE "exit",
                       event  |-> e,
                       source |-> currentState]]
       /\ entered' = IF guarded THEN entered ELSE entered \ {currentState}
  /\ UNCHANGED currentState

\* Mutation of GuardAllows: no call of the exit callback.
GuardSkipsExit ==
  /\ At("guard")
  /\ Goto("exit")
  /\ UNCHANGED <<currentState, depth, entered>>

\* The guard returns true; the exit callback of the source is called.
GuardAllows ==
  /\ At("guard")
  /\ Goto("exit")
  /\ entered' = entered \ {F.source}
  /\ UNCHANGED <<currentState, depth>>

\* if (!guard(ctx)) return false;
GuardRefuses ==
  /\ At("guard")
  /\ Return
  /\ UNCHANGED <<currentState, entered>>

\* Mutation of ExitReturns: the machine moves before the action is called.
ExitReturnsMoved ==
  /\ At("exit")
  /\ Goto("action")
  /\ currentState' = Chosen.target
  /\ UNCHANGED <<depth, entered>>

ExitReturns ==
  /\ At("exit")
  /\ Goto("action")
  /\ UNCHANGED <<currentState, depth, entered>>

\* Mutation of Move: the target handles the same event as well.
MoveOnward ==
  /\ At("action")
  /\ currentState' = IF HasCase(Chosen.target, F.event)
                THEN CaseOf(Chosen.target, F.event).target ELSE Chosen.target
  /\ entered' = entered \union ({currentState'} \cap Paired)
  /\ Goto("entry")
  /\ UNCHANGED depth

\* The action returns, the machine moves, and the entry callback of the target
\* is called.
Move ==
  /\ At("action")
  /\ currentState' = Chosen.target
  /\ entered' = entered \union ({Chosen.target} \cap Paired)
  /\ Goto("entry")
  /\ UNCHANGED depth

\* The entry callback returns: return true.
Finish ==
  /\ At("entry")
  /\ Return
  /\ UNCHANGED <<currentState, entered>>

Step == GuardAllows \/ GuardRefuses \/ ExitReturns \/ Move \/ Finish

FsmNext == Step \/ \E e \in FsmEvents : FsmDispatch(e)

FsmSpec == FsmInit /\ [][FsmNext]_fsmVars

-----------------------------------------------------------------------------
Frame == [pc: CallbackKinds \union {"idle"}, event: FsmEvents, source: FsmStates]

FsmTypeOK ==
  /\ currentState \in FsmStates
  /\ depth \in 0 .. MaxFrames
  /\ frame \in [1 .. MaxFrames -> Frame]
  /\ entered \subseteq Paired

\* Of the states with both callbacks the application is inside exactly one, the
\* current one, except between an exit callback and the move, when it is inside
\* none: what an entry callback acquires, an exit callback releases, once.
InsideCurrentState ==
  entered = IF depth > 0 /\ F.pc \in {"exit", "action"} THEN {}
           ELSE {currentState} \cap Paired

\* A case is carried out from the state it belongs to: no guard or callback has
\* moved the machine between the switch and the move.
CaseIsCurrent ==
  \A d \in 1 .. depth :
    frame[d].pc \in {"guard", "exit", "action"} =>
      d = depth /\ frame[d].source = currentState

\* A flat machine is a hierarchical one in which every state is a root and no
\* target is a history.
Promise == INSTANCE HsmMachine WITH
  Events  <- FsmEvents,
  Initial <- InitialState,
  current <- currentState,
  Parent  <- [s \in FsmStates |-> 0],
  Cases   <- {[source |-> c.source, event |-> c.event, guard |-> c.guard,
               action |-> c.action, target |-> c.target, history |-> FALSE] :
                c \in Cases},
  history <- [s \in FsmStates |-> 0]

\* Each dispatch is one step of the machine the .sm file describes, which is
\* Promise!Spec; with the stutter in front, TLC looks for a step of HsmMachine only
\* when the machine moves.
DispatchIsOneStep ==
  Promise!Init /\ [][UNCHANGED Promise!vars \/ Promise!Next]_(Promise!vars)
=============================================================================
