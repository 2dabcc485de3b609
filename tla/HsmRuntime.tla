----------------------------- MODULE HsmRuntime -----------------------------
(***************************************************************************)
(* The state machine that hsmgen writes: <prefix>_init, <prefix>_dispatch  *)
(* and <prefix>_is_in over the tables of one .hsm file.                    *)
(*                                                                         *)
(* dispatch climbs from the current state through its ancestors until one  *)
(* has a case for the event whose guard allows it, then calls the exit     *)
(* callback, saves history, calls the action, moves, calls the entry       *)
(* callback and returns true.  Guards and callbacks are the application's  *)
(* code and receive the context, so they may call dispatch again: `frame'  *)
(* is the C stack of the calls in progress, and Reentrant says from which  *)
(* kinds of callback the application does so.                              *)
(*                                                                         *)
(* States are numbered from 1; 0 is the code's -1, (state_t)-1 once it is  *)
(* stored in a variable of the generated enum type.                        *)
(***************************************************************************)
EXTENDS HsmHierarchy

CONSTANTS
  HasEntry,     \* the states with an entry callback
  HasExit,      \* the states with an exit callback
  Queried,      \* the states the application passes to is_in
  Reentrant,    \* the callbacks from which the application calls dispatch
  MaxFrames,    \* bound: calls of dispatch in progress; 1 is no re-entry
  EnumUnsigned  \* the compiler gives the state enum an unsigned type

CallbackKinds == {"guard", "exit", "action", "entry"}

ASSUME RuntimeAssumption ==
  /\ HasEntry \subseteq State
  /\ HasExit \subseteq State
  /\ Queried \subseteq State
  /\ Reentrant \subseteq CallbackKinds
  /\ MaxFrames \in Nat \ {0}
  /\ EnumUnsigned \in BOOLEAN

VARIABLES
  current,  \* ctx->current_state
  history,  \* ctx->history[]
  depth,    \* calls of dispatch in progress
  frame,    \* their local variables and where each of them is
  alive     \* FALSE once the process was killed by a wild read

vars == <<current, history, depth, frame, alive>>

-----------------------------------------------------------------------------
AnyEvent == CHOOSE e \in Events : TRUE
Idle     == [pc |-> "idle", event |-> AnyEvent, check |-> 0]

\* Mutation of Init: STATE_COUNT stands for no history.
InitWithCount ==
  /\ current = Initial
  /\ history = [s \in State |-> N + 1]
  /\ depth = 0
  /\ frame = [d \in 1 .. MaxFrames |-> Idle]
  /\ alive = TRUE

Init ==
  /\ current = Initial
  /\ history = [s \in State |-> 0]
  /\ depth = 0
  /\ frame = [d \in 1 .. MaxFrames |-> Idle]
  /\ alive = TRUE

\* The innermost call, the case it is in, and a step of it.
F      == frame[depth]
Chosen == CaseOf(F.check, F.event)

At(pc) == alive /\ depth > 0 /\ F.pc = pc

Goto(pc) == frame' = [frame EXCEPT ![depth].pc = pc]

\* The innermost call is inside a callback that uses the machine.
InCallback ==
  /\ depth > 0
  /\ F.pc \in Reentrant
  /\ CASE F.pc = "guard"  -> TRUE
       [] F.pc = "exit"   -> Chosen.source \in HasExit
       [] F.pc = "action" -> Chosen.action
       [] F.pc = "entry"  -> Chosen.target \in HasEntry

ApplicationRuns == alive /\ (depth = 0 \/ InCallback)

Return ==
  /\ depth' = depth - 1
  /\ frame' = [frame EXCEPT ![depth] = Idle]

\* The application calls dispatch(ctx, e).
Dispatch(e) ==
  /\ ApplicationRuns
  /\ depth < MaxFrames
  /\ depth' = depth + 1
  /\ frame' = [frame EXCEPT ![depth + 1] =
                 [pc |-> "check", event |-> e, check |-> current]]
  /\ UNCHANGED <<current, history, alive>>

\* case check: case event: found.
TakeCase ==
  /\ At("check")
  /\ F.check # 0
  /\ HasCase(F.check, F.event)
  /\ Goto(IF Chosen.guard THEN "guard" ELSE "exit")
  /\ UNCHANGED <<current, history, depth, alive>>

\* Mutation of Ascend: the climb misses every other level.
AscendTwice ==
  /\ At("check")
  /\ F.check # 0
  /\ ~HasCase(F.check, F.event)
  /\ frame' = [frame EXCEPT ![depth].check =
                 IF Parent[F.check] = 0 THEN 0 ELSE Parent[Parent[F.check]]]
  /\ UNCHANGED <<current, history, depth, alive>>

\* check = state_info[check].parent: no case for the event at this level.
Ascend ==
  /\ At("check")
  /\ F.check # 0
  /\ ~HasCase(F.check, F.event)
  /\ frame' = [frame EXCEPT ![depth].check = Parent[F.check]]
  /\ UNCHANGED <<current, history, depth, alive>>

\* Above the root check is (state_t)-1.  With an unsigned enum check >= 0 still
\* holds and state_info[check] is read far outside the table; with a signed one
\* the loop ends and dispatch returns false.
PassRoot ==
  /\ At("check")
  /\ F.check = 0
  /\ IF EnumUnsigned
     THEN alive' = FALSE /\ UNCHANGED <<depth, frame>>
     ELSE Return /\ UNCHANGED alive
  /\ UNCHANGED <<current, history>>

GuardAllows ==
  /\ At("guard")
  /\ Goto("exit")
  /\ UNCHANGED <<current, history, depth, alive>>

\* Mutation of GuardRefuses: the same level is tried again.
GuardAskedAgain ==
  /\ At("guard")
  /\ Goto("check")
  /\ UNCHANGED <<current, history, depth, alive>>

\* if (!guard(ctx)) break: on to the parent, as if there were no case.
GuardRefuses ==
  /\ At("guard")
  /\ frame' = [frame EXCEPT ![depth] =
                 [pc |-> "check", event |-> F.event, check |-> Parent[F.check]]]
  /\ UNCHANGED <<current, history, depth, alive>>

\* Where the case leads.  An unresolved target leads nowhere; a history target
\* leads to the saved state or, if history[i] >= 0 fails, to the composite, and
\* it never fails for an unsigned enum.  (First a mutation: history is ignored.)
DestinationWithoutHistory(c) == IF c.target = 0 THEN current ELSE c.target

Destination(c) ==
  IF c.target = 0 THEN current
  ELSE IF c.history /\ (EnumUnsigned \/ history[c.target] # 0)
       THEN history[c.target]
       ELSE c.target

\* Mutations of SaveHistory: history is kept for the owner of the case and not
\* for its parent; the machine moves before the action is called.
SaveOwnHistory ==
  /\ At("exit")
  /\ history' = [history EXCEPT ![Chosen.source] = current]
  /\ Goto("action")
  /\ UNCHANGED <<current, depth, alive>>

MoveBeforeAction ==
  /\ At("exit")
  /\ current' = Destination(Chosen)
  /\ Goto("action")
  /\ UNCHANGED <<history, depth, alive>>

\* The exit callback returns; history is saved for the parent of the state that
\* owns the case, from the current state as it now is.
SaveHistory ==
  /\ At("exit")
  /\ history' = [s \in State |-> IF s = Parent[Chosen.source] THEN current
                                 ELSE history[s]]
  /\ Goto("action")
  /\ UNCHANGED <<current, depth, alive>>

\* The action callback returns and the machine moves.
Move ==
  /\ At("action")
  /\ current' = Destination(Chosen)
  /\ Goto("entry")
  /\ UNCHANGED <<history, depth, alive>>

\* The entry callback returns: return true.
Finish ==
  /\ At("entry")
  /\ Return
  /\ UNCHANGED <<current, history, alive>>

\* The application calls is_in(ctx, s), which climbs as dispatch does.
IsIn(s) ==
  /\ ApplicationRuns
  /\ alive' = (EnumUnsigned => current # 0 /\ current \in Below[s])
  /\ UNCHANGED <<current, history, depth, frame>>

Step == \/ TakeCase \/ Ascend \/ PassRoot
        \/ GuardAllows \/ GuardRefuses
        \/ SaveHistory \/ Move \/ Finish

Next ==
  \/ \E e \in Events : Dispatch(e)
  \/ \E s \in Queried : IsIn(s)
  \/ Step

Spec == Init /\ [][Next]_vars

\* The generated code runs, and the callbacks return.
FairSpec == Spec /\ WF_vars(Step)

-----------------------------------------------------------------------------
Frame == [pc: {"idle", "check", "guard", "exit", "action", "entry"},
          event: Events, check: 0 .. N]

TypeOK ==
  /\ current \in 0 .. N
  /\ history \in [State -> 0 .. N]
  /\ depth \in 0 .. MaxFrames
  /\ frame \in [1 .. MaxFrames -> Frame]
  /\ alive \in BOOLEAN

\* A case is carried out only while its state is active: when the exit callback
\* or the action runs, the current state is still the owner of the case or one
\* of its descendants.  The walk, the guards and the callbacks before it have
\* not moved the machine away.  (Holds when only entry callbacks, the last thing
\* dispatch does, call dispatch again.)
SourceIsActive ==
  \A d \in 1 .. depth :
    frame[d].pc \in {"exit", "action"} => current \in Below[frame[d].check]

\* What is saved as the history of a composite state is a state inside it: a
\* transition to its history never leads outside it.
HistoryInside ==
  \A p \in State : history[p] = 0 \/ history[p] \in Below[p] \ {p}

\* A transition to the history of a composite is carried out only after a state
\* was saved for it: the fallback to the composite itself, which an unsigned enum
\* disables, is not needed.  (A duty of the .hsm file, not of the code.)
HistoryWasSaved ==
  At("action") /\ Chosen.history /\ Chosen.target # 0
    => history[Chosen.target] # 0

\* The generated code never reads outside state_info[].
NoWildRead == alive

\* A call of dispatch that cannot be interrupted by another returns: the climb
\* through the parents ends, unless it ends the process.
InnermostCallReturns ==
  (depth = MaxFrames) ~> (depth < MaxFrames \/ ~alive)

\* dispatch as one step that takes effect when history is saved.
PromisedCurrent ==
  IF depth > 0 /\ F.pc = "action" THEN Destination(Chosen) ELSE current

Promise == INSTANCE HsmMachine WITH current <- PromisedCurrent

\* If only entry callbacks call dispatch, it carries out the innermost case that
\* its guard allows, as one step, and nothing else moves the machine or its
\* history.
DispatchIsOneStep == Promise!Spec
=============================================================================
