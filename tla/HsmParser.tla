----------------------------- MODULE HsmParser ------------------------------
(***************************************************************************)
(* hsmgen's parse_spec reading an arbitrary .hsm file, a line at a time.   *)
(*                                                                         *)
(* `table` is the code's global `machine` with its block stack.  The other *)
(* variables are history variables: what the author of the file wrote,     *)
(* kept by counting braces without a limit, against which the tables are   *)
(* compared.                                                               *)
(***************************************************************************)
EXTENDS HsmTable, FiniteSets

CONSTANTS
  Names,       \* state names the file may use
  Events,      \* event names the file may use
  Targets,     \* transition targets the file may use, as paths; <<>>: no arrow
  OnLine,      \* those it may use in a state written on one line
  Attributes,  \* the other lines it may use, of AttributeKinds
  MaxLines,    \* bound: lines in the file
  MaxOneLine   \* bound: states it writes on one line

AttributeKinds == {"initial", "entry", "exit", "history"}

ASSUME ParserAssumption ==
  /\ MaxLines \in Nat
  /\ MaxOneLine \in Nat
  /\ OnLine \subseteq Targets
  /\ Targets \subseteq Seq(STRING)
  /\ Attributes \subseteq AttributeKinds

VARIABLES
  table,    \* machine_t and the parser's stack
  phase,    \* "reading", "resolved" or "refused"
  blocks,   \* the states whose blocks are open, outermost first
  written,  \* for each state of the table, the state it is written inside
  arrows,   \* for each transition written: its source and target, and how
            \* many states the file had declared before it
  marks,    \* the attribute lines written, as <<enclosing state, kind>>
  deepest,  \* the deepest nesting the file has used
  oneLine,  \* how many states it has written on one line, braces and all
  lines     \* lines read

hsmVars == <<table, phase, blocks, written, arrows, marks, deepest, oneLine, lines>>

Around == IF blocks = <<>> THEN 0 ELSE Last(blocks)

HsmInit ==
  /\ table = EmptyTable
  /\ phase = "reading"
  /\ blocks = <<>>
  /\ written = <<>>
  /\ arrows = <<>>
  /\ marks = {}
  /\ deepest = 0
  /\ oneLine = 0
  /\ lines = 0

NextLine ==
  /\ phase = "reading"
  /\ lines < MaxLines
  /\ lines' = lines + 1

\* A state line of any form: the table it makes, and the file that gets too long.
AddsState(name) ==
  /\ NextLine
  /\ table' = AddState(table, name)
  /\ UNCHANGED marks
  /\ table'.failed =>
       phase' = "refused" /\ UNCHANGED <<blocks, written, arrows, deepest>>
  /\ ~table'.failed =>
       /\ written' = Append(written, Around)
       /\ deepest' = IF Len(blocks) + 1 > deepest THEN Len(blocks) + 1 ELSE deepest
       /\ UNCHANGED phase

\* state Name {
StateLine(name) ==
  /\ AddsState(name)
  /\ ~table'.failed => blocks' = Append(blocks, Len(table'.states)) /\ UNCHANGED arrows
  /\ UNCHANGED oneLine

\* state Name { on Event -> Target },   state Name { }
\* The code takes the name and nothing from the brace on: it does not read the
\* transition, and the block stays open.
StateOnLine(name, target) ==
  /\ AddsState(name)
  /\ oneLine < MaxOneLine
  /\ ~table'.failed =>
       /\ arrows' = IF target = <<>> THEN arrows
                    ELSE Append(arrows, [source   |-> Len(table'.states),
                                         target   |-> target,
                                         declared |-> Len(table'.states)])
       /\ UNCHANGED blocks
  /\ oneLine' = oneLine + 1

CloseStateLine ==
  /\ NextLine
  /\ blocks # <<>>
  /\ table' = CloseBlock(table)
  /\ blocks' = Front(blocks)
  /\ UNCHANGED <<phase, written, arrows, marks, deepest, oneLine>>

\* on Event -> Target
TransitionLine(event, target) ==
  /\ NextLine
  /\ blocks # <<>>
  /\ table' = AddTransition(table, [event |-> event, target |-> target,
                                    guard |-> NoCallback,
                                    action |-> NoCallback])
  /\ arrows' = IF target = <<>> THEN arrows
               ELSE Append(arrows, [source |-> Around, target |-> target,
                                    declared |-> Len(table.states)])
  /\ UNCHANGED <<phase, blocks, written, marks, deepest, oneLine>>

\* initial: Path,   entry: f(),   exit: f()   or   history
AttributeLine(kind) ==
  /\ NextLine
  /\ kind # "initial" => blocks # <<>>
  /\ table' = ParseLine(table, [kind |-> kind, path |-> <<"A">>,
                                callback |-> kind])
  /\ marks' = marks \union {<<Around, kind>>}
  /\ UNCHANGED <<phase, blocks, written, arrows, deepest, oneLine>>

EndOfFile ==
  /\ phase = "reading"
  /\ blocks = <<>>
  /\ table' = ResolveTransitions(table)
  /\ phase' = "resolved"
  /\ UNCHANGED <<blocks, written, arrows, marks, deepest, oneLine, lines>>

HsmNext ==
  \/ \E n \in Names : StateLine(n)
  \/ \E n \in Names, p \in OnLine : StateOnLine(n, p)
  \/ CloseStateLine
  \/ \E e \in Events, p \in Targets : TransitionLine(e, p)
  \/ \E k \in Attributes : AttributeLine(k)
  \/ EndOfFile

HsmSpec == HsmInit /\ [][HsmNext]_hsmVars

-----------------------------------------------------------------------------
HsmStates == DOMAIN table.states

HsmTypeOK ==
  /\ phase \in {"reading", "resolved", "refused"}
  /\ \A i \in HsmStates : table.states[i].parent \in 0 .. Len(table.states)
  /\ \A j \in DOMAIN table.transitions :
       {table.transitions[j].sourceIndex, table.transitions[j].targetIndex}
         \subseteq 0 .. Len(table.states)
  /\ Len(table.states) <= MaxStates
  /\ Len(table.transitions) <= MaxTransitions
  /\ Len(table.stack) <= MaxDepth
  /\ Len(written) = Len(table.states)
  /\ oneLine \in 0 .. MaxOneLine
  /\ lines \in 0 .. MaxLines

\* The file stays within what the parser can hold.
WithinDepth == deepest <= MaxDepth

\* Every state of the file has its braces on different lines.
OwnLines == oneLine = 0

\* Parent.history, as the usage text writes it.
NamesHistory(target) == Len(target) > 1 /\ Last(target) = "history"

PlainPath(path) == \A k \in DOMAIN path : path[k] \notin HistoryNames

PlainTarget(target) ==
  \A k \in DOMAIN target :
    target[k] \in HistoryNames => k = Len(target) /\ target[k] = "history"

\* Of the names that begin with `history' the file uses that one, and only where the
\* usage text has it.
PlainNames ==
  /\ \A i \in HsmStates : PlainPath(table.states[i].path)
  /\ \A j \in DOMAIN arrows : PlainTarget(arrows[j].target)

\* A transition already parsed targets the history of state i, and i was
\* declared before it.
HistoryTarget(i) ==
  \E j \in DOMAIN arrows :
    /\ NamesHistory(arrows[j].target)
    /\ Front(arrows[j].target) = table.states[i].path
    /\ i <= arrows[j].declared

UniquePaths ==
  \A i, j \in HsmStates : table.states[i].path = table.states[j].path => i = j

\* A state's parent is declared before it and lies one level above it, whatever
\* the file: the loops of the generated code that climb state_info[].parent
\* therefore end at a root, and depth counts the steps.
ParentsClimb ==
  \A i \in HsmStates :
    LET p == table.states[i].parent IN
      IF p = 0 THEN table.states[i].depth = 0
      ELSE p < i /\ table.states[i].depth = table.states[p].depth + 1

\* As long as blocks are nested no deeper than MAX_DEPTH and none is written on one
\* line, the parser's stack is the list of open blocks and each state's parent is
\* the block it is written in, however the lines are ordered (the push under its
\* bound, the unconditional pop at every closing brace).
ParentIsEnclosingBlock ==
  WithinDepth /\ OwnLines =>
    /\ table.stack = blocks
    /\ \A i \in HsmStates : table.states[i].parent = written[i]

\* Callbacks, initial children and history marks stay with the state they are
\* written in: after its last child is closed the parser is back in the parent,
\* not in the child or outside.
AttributesStayWithTheirState ==
  WithinDepth /\ OwnLines /\ UniquePaths /\ PlainNames /\ Len(arrows) <= MaxTransitions =>
    /\ (table.initial # <<>>) <=> (<<0, "initial">> \in marks)
    /\ \A i \in HsmStates :
         LET s == table.states[i] IN
           /\ (s.initialChild # <<>>)  <=> (<<i, "initial">> \in marks)
           /\ (s.entry # NoCallback)   <=> (<<i, "entry">> \in marks)
           /\ (s.exit # NoCallback)    <=> (<<i, "exit">> \in marks)
           /\ s.history                 =  (\/ <<i, "history">> \in marks
                                            \/ HistoryTarget(i))

\* The full path written into the tables names exactly one chain of parents:
\* two states with the same path were written with the same name in the same
\* place, so the generated enum has a duplicate only if the file has.
PathsFollowParents ==
  \A i, j \in HsmStates :
    table.states[i].path = table.states[j].path =>
      LET p == table.states[i].parent
          q == table.states[j].parent
      IN  (p = 0 <=> q = 0)
          /\ (p # 0 => table.states[p].path = table.states[q].path)

\* What a bare target means where it is written: a child of the source state
\* or, failing that, a sibling, among the first n states of the file.
MeantBy(a, n) ==
  LET Named(p) == {i \in 1 .. n : /\ written[i] = p
                                  /\ Last(table.states[i].path) = a.target[1]}
  IN  IF Named(a.source) # {} THEN Named(a.source)
      ELSE IF written[a.source] # 0 THEN Named(written[a.source]) ELSE {}

IsOneName(a) == Len(a.target) = 1 /\ a.target # <<"history">>

Parsed == /\ phase = "resolved"
          /\ WithinDepth
          /\ OwnLines
          /\ UniquePaths
          /\ Len(arrows) <= MaxTransitions

\* Every transition of an accepted file is in the table, in order, with the
\* state it is written in as its source (parse_transition's source path looked
\* up again after the last line).
TransitionsKeepTheirSource ==
  Parsed =>
    /\ Len(table.transitions) = Len(arrows)
    /\ \A j \in DOMAIN arrows :
         table.transitions[j].sourceIndex = arrows[j].source

\* A bare target whose state is declared before the transition ends up at that
\* state: a child before a sibling, a sibling before a root of the same name.
EarlierTargetsResolve ==
  Parsed /\ PlainNames =>
    \A j \in DOMAIN arrows :
      IsOneName(arrows[j]) /\ MeantBy(arrows[j], arrows[j].declared) # {} =>
        table.transitions[j].targetIndex
          \in MeantBy(arrows[j], arrows[j].declared)

\* A dotted target is absolute and is looked up after the last line, so it
\* resolves wherever its state is declared; a history target resolves to the
\* composite state it names.
DottedTargetsResolve ==
  Parsed /\ PlainNames =>
    \A j \in DOMAIN arrows :
      Len(arrows[j].target) > 1 =>
        LET path == IF NamesHistory(arrows[j].target)
                    THEN Front(arrows[j].target) ELSE arrows[j].target
        IN  (\E i \in HsmStates : table.states[i].path = path) =>
              /\ table.transitions[j].targetIndex \in HsmStates
              /\ table.states[table.transitions[j].targetIndex].path = path

\* A transition whose target is declared, before it or, when dotted, anywhere,
\* leads there.
TargetsResolve == EarlierTargetsResolve /\ DottedTargetsResolve

\* What the usage text shows: a state's parent is the block it is written in, its own
\* braces on one line or not.
ParentsAreAsWritten ==
  WithinDepth => \A i \in HsmStates : table.states[i].parent = written[i]
=============================================================================
