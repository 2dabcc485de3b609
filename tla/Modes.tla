------------------------------- MODULE Modes -------------------------------
(***************************************************************************)
(* msmgen (tools/msmgen/msmgen.c): the modes it reads from an .msm file,   *)
(* and the machine it writes, which is in one mode and remembers the mode  *)
(* before it.  Arrays are not guarded: what is written past one is wild.   *)
(*                                                                         *)
(* Of a line the parser reads one statement, up to a brace or a semicolon; *)
(* the usage text has several on a line.  An event goes into the source as *)
(* a character constant 'ESC': two names may be one number.  meantModes is *)
(* what the author wrote, block by block, crowded the modes of whose text  *)
(* something stands where the parser does not look, and trail the modes    *)
(* the machine has been in.                                                *)
(***************************************************************************)
EXTENDS Naturals, Sequences, SequencesExt, Functions

CONSTANTS
  ModeNames, ModeEvents,
  EventCode,      \* the value of the character constant of each event
  ModeRests,      \* the transitions a line may have after its first brace or semicolon
  MaxModes, MaxModeTrans,       \* MAX_MODES, MAX_TRANS
  MaxModeLines, MaxTrail        \* bounds: lines of a file, changes of mode

ASSUME ModesAssumption ==
  /\ {MaxModes, MaxModeTrans, MaxModeLines, MaxTrail} \subseteq Nat
  /\ EventCode \in [ModeEvents -> Nat]
  /\ ModeRests \subseteq Seq([event : ModeEvents, target : ModeNames])

NoName == ""

VARIABLES
  modes,          \* machine.modes: the name and the transitions of each
  defaultMode,    \* machine.default_mode
  modeOpen,       \* current_mode is not NULL: it is the last of modes
  meantModes,     \* the transitions of each mode as its block has them
  crowded,        \* the modes with a line of more than one statement
  modeBlock,      \* the mode whose block the author is in, or 0
  modePhase,      \* "spec", "wild", or "running"
  modeLines,
  ctx,            \* the generated machine: current and previous mode
  trail

modesVars == <<modes, defaultMode, modeOpen, meantModes, crowded, modeBlock, modePhase,
               modeLines, ctx, trail>>

ModesInit ==
  /\ modes = <<>> /\ defaultMode = NoName /\ modeOpen = FALSE
  /\ meantModes = <<>> /\ crowded = {} /\ modeBlock = 0
  /\ modePhase = "spec" /\ modeLines = 0
  /\ ctx = [current |-> 0, previous |-> 0] /\ trail = <<>>

-----------------------------------------------------------------------------
(* parse_msm. *)

ReadsMode ==
  /\ modePhase = "spec" /\ modeLines < MaxModeLines
  /\ modeLines' = modeLines + 1
  /\ UNCHANGED <<ctx, trail>>

DefaultLine(name) ==
  /\ ReadsMode /\ modeBlock = 0
  /\ defaultMode' = name
  /\ UNCHANGED <<modes, modeOpen, meantModes, crowded, modeBlock, modePhase>>

\* A mode is counted before it is filled in, and becomes the current one.
NewMode(name, written) ==
  /\ ReadsMode /\ modeBlock = 0
  /\ IF Len(modes) >= MaxModes
     THEN modePhase' = "wild" /\ UNCHANGED <<modes, modeOpen, meantModes>>
     ELSE /\ modes' = Append(modes, [name |-> name, trans |-> <<>>])
          /\ meantModes' = Append(meantModes, written)
          /\ modeOpen' = TRUE
          /\ UNCHANGED modePhase
  /\ UNCHANGED defaultMode

\* mode Name {
ModeLine(name) ==
  /\ NewMode(name, <<>>)
  /\ modeBlock' = IF Len(modes) >= MaxModes THEN 0 ELSE Len(modes) + 1
  /\ UNCHANGED crowded

\* mode Name { on EVENT -> Target; on EVENT -> Target }
\* Nothing after the brace is read, and the mode stays the current one.
ModeOneLine(name, rest) ==
  /\ NewMode(name, rest)
  /\ crowded' = IF rest = <<>> \/ Len(modes) >= MaxModes THEN crowded
                ELSE crowded \cup {Len(modes) + 1}
  /\ UNCHANGED modeBlock

ModeBraceLine ==
  /\ ReadsMode /\ modeBlock # 0
  /\ modeOpen' = FALSE /\ modeBlock' = 0
  /\ UNCHANGED <<modes, defaultMode, meantModes, crowded, modePhase>>

\* on EVENT -> Target; on EVENT -> Target
ModeOnLine(event, target, rest) ==
  LET t == [event |-> event, target |-> target]
      m == Len(modes)
  IN /\ ReadsMode /\ modeBlock # 0
     /\ meantModes' = [meantModes EXCEPT ![modeBlock] = (@ \o <<t>>) \o rest]
     /\ crowded' = IF rest = <<>> THEN crowded ELSE crowded \cup {modeBlock}
     /\ IF ~modeOpen THEN UNCHANGED <<modes, modePhase>>
        ELSE IF Len(modes[m].trans) >= MaxModeTrans
        THEN modePhase' = "wild" /\ UNCHANGED modes
        ELSE modes' = [modes EXCEPT ![m].trans = Append(@, t)] /\ UNCHANGED modePhase
     /\ UNCHANGED <<defaultMode, modeOpen, modeBlock>>

-----------------------------------------------------------------------------
(* The generated machine.  Duplicate enumerators, undeclared ones and           *)
(* duplicate cases do not compile.                                              *)

ModeNamed(name) == CHOOSE m \in DOMAIN modes : modes[m].name = name
IsMode(name) == \E m \in DOMAIN modes : modes[m].name = name

ModesCompile ==
  /\ \A m, n \in DOMAIN modes : modes[m].name = modes[n].name => m = n
  /\ IsMode(defaultMode)
  /\ \A m \in DOMAIN modes : \A i, j \in DOMAIN modes[m].trans :
       /\ IsMode(modes[m].trans[i].target)
       /\ EventCode[modes[m].trans[i].event] = EventCode[modes[m].trans[j].event] => i = j

\* prefix_init.
ModeInit ==
  /\ modePhase = "spec" /\ modeBlock = 0 /\ ModesCompile
  /\ modePhase' = "running"
  /\ ctx' = [current |-> ModeNamed(defaultMode), previous |-> ModeNamed(defaultMode)]
  /\ trail' = <<ModeNamed(defaultMode)>>
  /\ UNCHANGED <<modes, defaultMode, modeOpen, meantModes, crowded, modeBlock, modeLines>>

\* Mutation of NextMode: the transitions of the first mode are those of every mode.
NextModeOfFirst(code) ==
  LET ts == modes[1].trans
      hit == {i \in DOMAIN ts : EventCode[ts[i].event] = code}
  IN IF hit = {} THEN ctx.current ELSE ModeNamed(ts[CHOOSE i \in hit : TRUE].target)

\* prefix_dispatch: the callbacks of a mode are read and never called.
NextMode(code) ==
  LET ts == modes[ctx.current].trans
      hit == {i \in DOMAIN ts : EventCode[ts[i].event] = code}
  IN IF hit = {} THEN ctx.current ELSE ModeNamed(ts[CHOOSE i \in hit : TRUE].target)

Enter(mode) == [current |-> mode,
                previous |-> IF mode = ctx.current THEN ctx.previous ELSE ctx.current]

ModeDispatch(event) ==
  LET next == NextMode(EventCode[event])
  IN /\ modePhase = "running" /\ Len(trail) < MaxTrail
     /\ ctx' = Enter(next)
     /\ trail' = IF next = ctx.current THEN trail ELSE Append(trail, next)
     /\ UNCHANGED <<modes, defaultMode, modeOpen, meantModes, crowded, modeBlock,
                    modePhase, modeLines>>

ModesNext ==
  \/ \E name \in ModeNames : DefaultLine(name)
  \/ \E name \in ModeNames : ModeLine(name)
  \/ \E name \in ModeNames, rest \in ModeRests : ModeOneLine(name, rest)
  \/ ModeBraceLine
  \/ \E event \in ModeEvents, target \in ModeNames, rest \in ModeRests :
       ModeOnLine(event, target, rest)
  \/ ModeInit
  \/ \E event \in ModeEvents : ModeDispatch(event)

ModesSpec == ModesInit /\ [][ModesNext]_modesVars

-----------------------------------------------------------------------------
(* Properties. *)

\* Modes and transitions keep their types; the machine is in a mode that exists.
ModesTypeOK ==
  /\ Len(modes) <= MaxModes /\ Len(meantModes) = Len(modes)
  /\ \A m \in DOMAIN modes :
       /\ modes[m].name \in ModeNames /\ Len(modes[m].trans) <= MaxModeTrans
       /\ modes[m].trans \in Seq([event : ModeEvents, target : ModeNames])
  /\ defaultMode \in ModeNames \cup {NoName}
  /\ modeBlock \in 0..Len(modes) /\ crowded \subseteq DOMAIN modes
  /\ modePhase \in {"spec", "wild", "running"}
  /\ modePhase = "running" => {ctx.current, ctx.previous} \subseteq DOMAIN modes

\* A mode has the transitions of its own block, in order, if it has each on a line of
\* its own, and never one of another mode's, whatever is lost of a line with more.  That
\* is so until an array overflows: nothing in the parser looks at MAX_MODES or
\* MAX_TRANS (msmgen.c:115-125, :134-151).
ModesAreAsWritten ==
  modePhase # "wild" =>
    \A m \in DOMAIN modes :
      /\ m \notin crowded => modes[m].trans = meantModes[m]
      /\ Range(modes[m].trans) \subseteq Range(meantModes[m])

\* previous is the mode the machine was in before this one: neither an event it
\* ignores nor one that leads back to the same mode counts (msmgen.c:282-285).
PreviousIsTheModeBefore ==
  modePhase = "running" =>
    /\ ctx.current = Last(trail)
    /\ ctx.previous = IF Len(trail) = 1 THEN trail[1] ELSE trail[Len(trail) - 1]
    /\ \A i \in 2..Len(trail) : trail[i] # trail[i - 1]

\* A change of mode leads where a transition in the block of the mode it leaves
\* does, whatever modes have the event as well (msmgen.c:258-285).
ChangeIsWritten ==
  modePhase = "running" /\ ctx'.current # ctx.current =>
    \E i \in DOMAIN meantModes[ctx.current] :
      modes[ctx'.current].name = meantModes[ctx.current][i].target

\* The machine goes from mode to mode as the file says and remembers the last one.
ModesGoAsWritten ==
  [][ModesAreAsWritten' /\ PreviousIsTheModeBefore' /\ ChangeIsWritten]_modesVars
=============================================================================
