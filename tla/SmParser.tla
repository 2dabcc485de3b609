------------------------------ MODULE SmParser ------------------------------
(***************************************************************************)
(* smgen's parser (tools/smgen/smgen.c): what parse_spec makes of a .sm    *)
(* file, a line at a time, and which transitions the generated dispatch    *)
(* then carries out in a state.                                            *)
(*                                                                         *)
(* A state is its place in the file.  smWritten and smCallbacks are what   *)
(* the author wrote on lines of its own, with the block it stands in; the  *)
(* parser itself keeps the name of the block with a transition.  What may  *)
(* stand in the braces of a state on one line, a form the usage text does  *)
(* not have, is read by nobody and is left out.                            *)
(***************************************************************************)
EXTENDS Naturals, Sequences

CONSTANTS
  StateNames, EventNames,
  MaxSmStates, MaxSmEvents, MaxSmTransitions,   \* MAX_STATES, MAX_EVENTS, MAX_TRANSITIONS
  MaxSmLines                                    \* bound: the lines of a file

ASSUME SmAssumption ==
  {MaxSmStates, MaxSmEvents, MaxSmTransitions, MaxSmLines} \subseteq Nat

Callbacks == {"entry", "exit"}

VARIABLES
  smStates,       \* machine.states: the name and the callbacks of each
  smTransitions,  \* machine.transitions
  smEvents,       \* machine.events
  smCurrent,      \* current_state: a state, or 0 for NULL
  smWritten,      \* the complete transitions on lines of their own, with their blocks
  smCallbacks,    \* <<block, callback>> for the entry and exit lines of the file
  smBlock,        \* the state whose block the author is in, or 0
  smPhase,        \* "spec" or "refused"
  smLines         \* the lines read

smVars == <<smStates, smTransitions, smEvents, smCurrent, smWritten, smCallbacks,
            smBlock, smPhase, smLines>>

SmInit ==
  /\ smStates = <<>> /\ smTransitions = <<>> /\ smEvents = <<>>
  /\ smCurrent = 0
  /\ smWritten = <<>> /\ smCallbacks = {}
  /\ smBlock = 0
  /\ smPhase = "spec" /\ smLines = 0

-----------------------------------------------------------------------------
ReadsSm ==
  /\ smPhase = "spec" /\ smLines < MaxSmLines
  /\ smLines' = smLines + 1

\* Mutation of SmStateLine: a state that is still open keeps the lines that follow.
SmStateLineKeeps(name, oneLine) ==
  /\ ReadsSm /\ smBlock = 0
  /\ IF Len(smStates) >= MaxSmStates
     THEN smPhase' = "refused" /\ UNCHANGED <<smStates, smCurrent, smBlock>>
     ELSE /\ smStates' = Append(smStates, [name |-> name, callbacks |-> {}])
          /\ smCurrent' = IF smCurrent = 0 THEN Len(smStates) + 1 ELSE smCurrent
          /\ smBlock' = IF oneLine THEN 0 ELSE Len(smStates) + 1
          /\ UNCHANGED smPhase
  /\ UNCHANGED <<smTransitions, smEvents, smWritten, smCallbacks>>

\* A state line cut off at its brace: one that closes its block again leaves
\* current_state set, and what stood in the block is lost.
SmStateLine(name, oneLine) ==
  /\ ReadsSm /\ smBlock = 0
  /\ IF Len(smStates) >= MaxSmStates
     THEN smPhase' = "refused" /\ UNCHANGED <<smStates, smCurrent, smBlock>>
     ELSE /\ smStates' = Append(smStates, [name |-> name, callbacks |-> {}])
          /\ smCurrent' = Len(smStates) + 1
          /\ smBlock' = IF oneLine THEN 0 ELSE Len(smStates) + 1
          /\ UNCHANGED smPhase
  /\ UNCHANGED <<smTransitions, smEvents, smWritten, smCallbacks>>

SmBraceLine ==
  /\ ReadsSm /\ smBlock # 0
  /\ smCurrent' = 0 /\ smBlock' = 0
  /\ UNCHANGED <<smStates, smTransitions, smEvents, smWritten, smCallbacks, smPhase>>

\* entry: and exit:.
SmCallbackLine(callback) ==
  /\ ReadsSm /\ smBlock # 0
  /\ smStates' = IF smCurrent = 0 THEN smStates
                 ELSE [smStates EXCEPT ![smCurrent].callbacks = @ \cup {callback}]
  /\ smCallbacks' = smCallbacks \cup {<<smBlock, callback>>}
  /\ UNCHANGED <<smTransitions, smEvents, smCurrent, smWritten, smBlock, smPhase>>

\* find_or_add_event; nobody looks at the -1 of a full table.
KnownEvent(event) == \E i \in DOMAIN smEvents : smEvents[i] = event

NoteEvent(event) ==
  smEvents' = IF KnownEvent(event) \/ Len(smEvents) >= MaxSmEvents
              THEN smEvents ELSE Append(smEvents, event)

\* Mutation of HasRoom: one too many.
HasRoomForOne == Len(smTransitions) <= MaxSmTransitions

HasRoom == Len(smTransitions) < MaxSmTransitions

\* parse_transition: a full table is reported and passed over, its event with it.
SmOnLine(event, target) ==
  /\ ReadsSm /\ smBlock # 0
  /\ IF smCurrent # 0 /\ HasRoom
     THEN /\ NoteEvent(event)
          /\ smTransitions' = Append(smTransitions,
               [event |-> event, source |-> smStates[smCurrent].name, target |-> target])
     ELSE UNCHANGED <<smEvents, smTransitions>>
  /\ smWritten' = Append(smWritten, [event |-> event, block |-> smBlock, target |-> target])
  /\ UNCHANGED <<smStates, smCurrent, smCallbacks, smBlock, smPhase>>

\* "Missing ->": the event stays in the table.
SmOnLineWithoutArrow(event) ==
  /\ ReadsSm /\ smBlock # 0
  /\ IF smCurrent # 0 /\ HasRoom THEN NoteEvent(event) ELSE UNCHANGED smEvents
  /\ UNCHANGED <<smStates, smTransitions, smCurrent, smWritten, smCallbacks, smBlock,
                 smPhase>>

SmNext ==
  \/ \E name \in StateNames, oneLine \in BOOLEAN : SmStateLine(name, oneLine)
  \/ SmBraceLine
  \/ \E callback \in Callbacks : SmCallbackLine(callback)
  \/ \E event \in EventNames :
       \/ \E target \in StateNames : SmOnLine(event, target)
       \/ SmOnLineWithoutArrow(event)

SmSpec == SmInit /\ [][SmNext]_smVars

-----------------------------------------------------------------------------
(* The generated dispatch has a case for each state, and in it those transitions *)
(* whose source has the state's name.                                            *)

CasesOf(s) == {i \in DOMAIN smTransitions : smTransitions[i].source = smStates[s].name}

\* The enum of states compiles if no two have one name.
DistinctNames ==
  \A s, t \in DOMAIN smStates : smStates[s].name = smStates[t].name => s = t

-----------------------------------------------------------------------------
(* Properties. *)

SmState == [name : StateNames, callbacks : SUBSET Callbacks]
SmTransition == [event : EventNames, source : StateNames, target : StateNames]

\* The tables keep their types and their limits (smgen.c:102, :113, :225).
SmTypeOK ==
  /\ smStates \in Seq(SmState) /\ Len(smStates) <= MaxSmStates
  /\ smTransitions \in Seq(SmTransition) /\ Len(smTransitions) <= MaxSmTransitions
  /\ smEvents \in Seq(EventNames) /\ Len(smEvents) <= MaxSmEvents
  /\ smCurrent \in 0..Len(smStates) /\ smBlock \in 0..Len(smStates)
  /\ smWritten \in Seq([event : EventNames, block : 1..Len(smStates), target : StateNames])
  /\ smCallbacks \subseteq (1..Len(smStates)) \X Callbacks
  /\ smPhase \in {"spec", "refused"} /\ smLines \in 0..MaxSmLines

\* The table is the file: its transitions are those with a line of their own, in order
\* and each with the name of the state whose block it stands in, up to the limit of the
\* table; the rest is dropped, though the generator succeeds (smgen.c:113-116, :276).
TransitionsAreAsWritten ==
  /\ Len(smTransitions) = IF Len(smWritten) <= MaxSmTransitions THEN Len(smWritten)
                          ELSE MaxSmTransitions
  /\ \A i \in DOMAIN smTransitions :
       /\ smTransitions[i].event = smWritten[i].event
       /\ smTransitions[i].target = smWritten[i].target
       /\ smTransitions[i].source = smStates[smWritten[i].block].name

\* A callback on its own line belongs to the state in whose block it stands, and to no other
\* (smgen.c:248-272).
SmCallbacksStay ==
  \A s \in DOMAIN smStates : \A c \in Callbacks :
    c \in smStates[s].callbacks <=> <<s, c>> \in smCallbacks

\* Every event of a transition has one enumerator, unless the table of events is
\* full: then the generated case names one that is not declared (smgen.c:98-105).
EventsHaveEnumerators ==
  /\ \A i, j \in DOMAIN smEvents : smEvents[i] = smEvents[j] => i = j
  /\ \/ Len(smEvents) = MaxSmEvents
     \/ \A i \in DOMAIN smTransitions : KnownEvent(smTransitions[i].event)

\* Where the enum of states compiles, dispatch carries out in a state exactly the
\* transitions of its own block, although the table only has names
\* (smgen.c:459-471).
CasesAreOfTheirBlock ==
  DistinctNames =>
    \A s \in DOMAIN smStates :
      CasesOf(s) = {i \in DOMAIN smTransitions : smWritten[i].block = s}

\* The tables say what the lines in the blocks say: transitions, callbacks, enumerators
\* and cases.
SmTablesAreTheFile ==
  /\ TransitionsAreAsWritten /\ SmCallbacksStay
  /\ EventsHaveEnumerators /\ CasesAreOfTheirBlock
=============================================================================
