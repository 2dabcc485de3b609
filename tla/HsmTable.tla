------------------------------ MODULE HsmTable ------------------------------
(***************************************************************************)
(* The tables tools/hsmgen builds from a .hsm specification.               *)
(*                                                                         *)
(* parse_spec reads one line at a time into the global `machine`; every    *)
(* kind of line is an operator here, from a table to the table after the   *)
(* line.  A dotted path is the sequence of its names.  Tables are numbered *)
(* from 1 where the C arrays are numbered from 0, so that 0 stands for the *)
(* code's -1.  Truncation of long names is left out.                       *)
(***************************************************************************)
EXTENDS Integers, Sequences, SequencesExt

CONSTANTS
  MaxStates,       \* MAX_STATES, 128 in the code
  MaxTransitions,  \* MAX_TRANSITIONS, 256 in the code
  MaxEvents,       \* MAX_EVENTS, 64 in the code
  MaxDepth,        \* MAX_DEPTH, 8 in the code: how many blocks may be open
  HistoryNames     \* the names that begin with `history'

ASSUME LimitsAssumption ==
  /\ MaxStates \in Nat \ {0}
  /\ MaxTransitions \in Nat \ {0}
  /\ MaxEvents \in Nat \ {0}
  /\ MaxDepth \in Nat \ {0}
  /\ "history" \in HistoryNames

\* The callback name of a state or transition that has none.
NoCallback == ""

EmptyTable ==
  [initial |-> <<>>, states |-> <<>>, transitions |-> <<>>, events |-> <<>>,
   stack |-> <<>>, failed |-> FALSE]

FindState(t, path) == SelectInSeq(t.states, LAMBDA s : s.path = path)

\* The state whose block the parser believes it is in, 0 outside every block.
OpenBlock(t) == IF t.stack = <<>> THEN 0 ELSE Last(t.stack)

-----------------------------------------------------------------------------
(* One operator per kind of line.                                          *)

\* Mutations of AddState: a push without its bound, a parent index taken after
\* the new state is counted, a path built from the parent's name alone.
AddStateUnbounded(t, name) ==
  LET i      == Len(t.states) + 1
      parent == OpenBlock(t)
      new    == [path |-> IF parent = 0 THEN <<name>>
                          ELSE Append(t.states[parent].path, name),
                 parent |-> parent, depth |-> Len(t.stack),
                 entry |-> NoCallback, exit |-> NoCallback,
                 initialChild |-> <<>>, history |-> FALSE,
                 childStart |-> 0, childCount |-> 0]
  IN  IF Len(t.states) >= MaxStates THEN [t EXCEPT !.failed = TRUE]
      ELSE [t EXCEPT !.states = Append(@, new), !.stack = Append(@, i)]

AddStateOwnParent(t, name) ==
  LET u == AddStateUnbounded(t, name)
      i == Len(u.states)
  IN  IF u.failed \/ OpenBlock(t) = 0 THEN u ELSE [u EXCEPT !.states[i].parent = i]

AddStateShortPath(t, name) ==
  LET u == AddStateUnbounded(t, name)
      i == Len(u.states)
  IN  IF u.failed \/ OpenBlock(t) = 0 THEN u
      ELSE [u EXCEPT !.states[i].path = <<Last(t.states[OpenBlock(t)].path), name>>]

AddState(t, name) ==
  LET i      == Len(t.states) + 1
      parent == OpenBlock(t)
      new    == [path         |-> IF parent = 0 THEN <<name>>
                                  ELSE Append(t.states[parent].path, name),
                 parent       |-> parent,
                 depth        |-> Len(t.stack),
                 entry        |-> NoCallback,
                 exit         |-> NoCallback,
                 initialChild |-> <<>>,
                 history      |-> FALSE,
                 childStart   |-> 0,
                 childCount   |-> 0]
      linked == [j \in DOMAIN t.states |->
                   IF j # parent THEN t.states[j]
                   ELSE [t.states[j] EXCEPT
                           !.childCount = @ + 1,
                           !.childStart = IF @ = 0 THEN i ELSE @]]
  IN  IF Len(t.states) >= MaxStates
      THEN [t EXCEPT !.failed = TRUE]
      ELSE [t EXCEPT !.states = Append(linked, new),
                     !.stack  = IF Len(@) < MaxDepth THEN Append(@, i) ELSE @]

\* Mutation of CloseBlock: a brace leaves every block, as in smgen.
CloseEveryBlock(t) == [t EXCEPT !.stack = <<>>]

CloseBlock(t) ==
  [t EXCEPT !.stack = IF @ = <<>> THEN @ ELSE Front(@)]

SetInitial(t, path) ==
  IF t.stack = <<>> THEN [t EXCEPT !.initial = path]
  ELSE [t EXCEPT !.states[OpenBlock(t)].initialChild = path]

\* Mutation of SetEntry: the callback goes to the state declared last.
SetEntryOfLast(t, callback) ==
  IF t.stack = <<>> THEN t
  ELSE [t EXCEPT !.states[Len(t.states)].entry = callback]

SetEntry(t, callback) ==
  IF t.stack = <<>> THEN t ELSE [t EXCEPT !.states[OpenBlock(t)].entry = callback]

SetExit(t, callback) ==
  IF t.stack = <<>> THEN t ELSE [t EXCEPT !.states[OpenBlock(t)].exit = callback]

MarkHistory(t) ==
  IF t.stack = <<>> THEN t ELSE [t EXCEPT !.states[OpenBlock(t)].history = TRUE]

\* find_or_add_event: a full event table refuses the event, and no caller
\* looks at the result.
FindOrAddEvent(events, event) ==
  IF Contains(events, event) \/ Len(events) >= MaxEvents
  THEN events ELSE Append(events, event)

\* strstr(target, ".history") finds the first name after a dot that begins so, and
\* what stands before it is looked up as the composite state.
HistoryAt(target) == {k \in 2 .. Len(target) : target[k] \in HistoryNames}

IsHistory(target) == HistoryAt(target) # {}

Composite(target) == SubSeq(target, 1, Min(HistoryAt(target)) - 1)

\* Mutation of Qualify: only children are tried.
QualifyChildOnly(t, source, target) ==
  LET child == t.states[source].path \o target
  IN  IF Len(target) = 1 /\ target # <<"history">> /\ FindState(t, child) # 0
      THEN child ELSE target

\* A bare name becomes the path of a child of the source or else of a sibling,
\* if the table already holds one; otherwise it stays bare.
Qualify(t, source, target) ==
  LET child   == t.states[source].path \o target
      parent  == t.states[source].parent
      sibling == t.states[parent].path \o target
  IN  IF Len(target) > 1 \/ target = <<"history">> THEN target
      ELSE IF FindState(t, child) # 0 THEN child
      ELSE IF parent # 0 /\ FindState(t, sibling) # 0 THEN sibling
      ELSE target

\* on Event [guard] -> target / action.  An empty target is a line without
\* an arrow: its event is kept and the transition is not.
AddTransition(t, line) ==
  LET target == Qualify(t, OpenBlock(t), line.target)
      owner  == IF IsHistory(target) THEN FindState(t, Composite(target)) ELSE 0
      new    == [event |-> line.event, source |-> t.states[OpenBlock(t)].path,
                 target |-> target, guard |-> line.guard,
                 action |-> line.action, sourceIndex |-> 0, targetIndex |-> 0]
      noted  == [t EXCEPT !.events = FindOrAddEvent(@, line.event)]
  IN  IF t.stack = <<>> \/ Len(t.transitions) >= MaxTransitions THEN t
      ELSE IF line.target = <<>> THEN noted
      ELSE [noted EXCEPT
              !.transitions = Append(@, new),
              !.states = [j \in DOMAIN @ |->
                            IF j = owner THEN [@[j] EXCEPT !.history = TRUE]
                            ELSE @[j]]]

-----------------------------------------------------------------------------
(* The pass after the last line, and the whole of parse_spec.              *)

TargetIndex(t, target) ==
  FindState(t, IF IsHistory(target) THEN Composite(target) ELSE target)

\* Mutation of ResolveTransitions: the source is looked up by its last name.
ResolveByName(t) ==
  [t EXCEPT !.transitions =
     [j \in DOMAIN @ |->
        [@[j] EXCEPT
           !.sourceIndex = FindState(t, <<Last(t.transitions[j].source)>>),
           !.targetIndex = TargetIndex(t, t.transitions[j].target)]]]

ResolveTransitions(t) ==
  [t EXCEPT !.transitions =
     [j \in DOMAIN @ |->
        [@[j] EXCEPT !.sourceIndex = FindState(t, t.transitions[j].source),
                     !.targetIndex = TargetIndex(t, t.transitions[j].target)]]]

ParseLine(t, line) ==
  CASE t.failed                -> t
    [] line.kind = "initial"   -> SetInitial(t, line.path)
    [] line.kind = "state"     -> AddState(t, line.name)
    [] line.kind = "close"     -> CloseBlock(t)
    [] line.kind = "entry"     -> SetEntry(t, line.callback)
    [] line.kind = "exit"      -> SetExit(t, line.callback)
    [] line.kind = "history"   -> MarkHistory(t)
    [] line.kind = "on"        -> AddTransition(t, line)

ParseSpec(lines) ==
  ResolveTransitions(FoldLeft(ParseLine, EmptyTable, lines))

-----------------------------------------------------------------------------
(* What the generated file takes from the tables.                          *)

\* The state init leaves the machine in: memset selects the first state when
\* the initial path names none.
InitialIndex(t) ==
  IF FindState(t, t.initial) # 0 THEN FindState(t, t.initial) ELSE 1

ParentOf(t)   == [i \in DOMAIN t.states |-> t.states[i].parent]
HasEntryOf(t) == {i \in DOMAIN t.states : t.states[i].entry # NoCallback}
HasExitOf(t)  == {i \in DOMAIN t.states : t.states[i].exit # NoCallback}

\* The cases of the generated dispatch function.
DispatchCases(t) ==
  {[source  |-> tr.sourceIndex,
    event   |-> tr.event,
    guard   |-> tr.guard # NoCallback,
    action  |-> tr.action # NoCallback,
    target  |-> tr.targetIndex,
    history |-> IsHistory(tr.target)] : tr \in ToSet(t.transitions)}
=============================================================================
