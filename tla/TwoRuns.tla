------------------------------ MODULE TwoRuns ------------------------------
(***************************************************************************)
(* Several runs of regen-all.sh over one gen/: the developer's `make regen` *)
(* or `make verify` beside the one the watcher has started.  Nothing keeps *)
(* them apart.  One specification is enough: each run has its generator    *)
(* parse it once and write its outputs one after the other.                *)
(*                                                                         *)
(* An output is what is in it, a stdio buffer at a time: the version each  *)
(* buffer was generated from, or Hole where nothing was written.  fopen    *)
(* empties the file for everybody who has it open, and each goes on at its *)
(* own position.                                                           *)
(***************************************************************************)
EXTENDS Naturals, Sequences

CONSTANTS
  Scripts,        \* the runs
  OutputList,     \* the outputs of the specification, in the generator's order
  Buffers,        \* how many buffers an output of each version fills
  MaxStarts       \* bound: the runs that are started

SpecVersions == DOMAIN Buffers

ASSUME TwoRunsAssumption ==
  /\ Buffers \in Seq(Nat \ {0}) /\ Buffers # <<>>
  /\ OutputList # <<>> /\ OutputList \in Seq(STRING)
  /\ \A i, j \in DOMAIN OutputList : OutputList[i] = OutputList[j] => i = j
  /\ MaxStarts \in Nat

Hole == 0
Committed == 1
GenOutputs == {OutputList[i] : i \in DOMAIN OutputList}
Made(v) == [k \in 1..Buffers[v] |-> v]

VARIABLES
  specNow,        \* the version of the specification
  disk,           \* the outputs
  scripts,        \* the runs: where each is
  opened,         \* of each output: who opened it last, whether it has closed it, and
                  \* the versions of all who had it open together with that one
  starts

twoVars == <<specNow, disk, scripts, opened, starts>>

Stopped == [pc |-> "off", verify |-> FALSE, version |-> Committed, at |-> 1,
            buffer |-> 1, differs |-> FALSE]

\* A clean checkout in which every output is current.
TwoRunsInit ==
  /\ specNow = Committed
  /\ disk = [o \in GenOutputs |-> Made(Committed)]
  /\ scripts = [p \in Scripts |-> Stopped]
  /\ opened = [o \in GenOutputs |-> [last |-> "nobody", closed |-> TRUE,
                                     versions |-> {Committed}]]
  /\ starts = 0

-----------------------------------------------------------------------------
Output(p) == OutputList[scripts[p].at]
LastOutput(p) == scripts[p].at = Len(OutputList)
HasOpen(p, o) == scripts[p].pc = "write" /\ Output(p) = o

\* The generator of p, which has parsed version v, opens o.
Opening(p, o, v) ==
  [last |-> p, closed |-> FALSE,
   versions |-> IF \E q \in Scripts \ {p} : HasOpen(q, o)
                THEN opened[o].versions \cup {v} ELSE {v}]

Closing(p, o) == [opened[o] EXCEPT !.closed = IF @ THEN TRUE ELSE opened[o].last = p]

StartScript(p, verify) ==
  /\ scripts[p].pc = "off" /\ starts < MaxStarts
  /\ scripts' = [scripts EXCEPT ![p] = [Stopped EXCEPT !.pc = "parse", !.verify = verify]]
  /\ starts' = starts + 1
  /\ UNCHANGED <<specNow, disk, opened>>

\* parse_spec.
ParseNow(p) ==
  /\ scripts[p].pc = "parse"
  /\ scripts' = [scripts EXCEPT ![p].pc = "open", ![p].version = specNow]
  /\ UNCHANGED <<specNow, disk, opened, starts>>

\* fopen empties the output.
OpenOutput(p) ==
  /\ scripts[p].pc = "open"
  /\ scripts' = [scripts EXCEPT ![p].pc = "write", ![p].buffer = 1]
  /\ disk' = [disk EXCEPT ![Output(p)] = <<>>]
  /\ opened' = [opened EXCEPT ![Output(p)] = Opening(p, Output(p), scripts[p].version)]
  /\ UNCHANGED <<specNow, starts>>

\* Mutation of Overwritten: outputs are opened to append.
WrittenAtEnd(file, k, v) == Append(file, v)

\* write() of the k-th buffer, at its place.
Overwritten(file, k, v) ==
  [j \in 1..(IF k > Len(file) THEN k ELSE Len(file)) |->
     IF j = k THEN v ELSE IF j <= Len(file) THEN file[j] ELSE Hole]

\* A buffer that is full.
Flush(p) ==
  LET me == scripts[p]  o == Output(p)
  IN /\ me.pc = "write" /\ me.buffer < Buffers[me.version]
     /\ disk' = [disk EXCEPT ![o] = Overwritten(@, me.buffer, me.version)]
     /\ scripts' = [scripts EXCEPT ![p].buffer = @ + 1]
     /\ UNCHANGED <<specNow, opened, starts>>

\* fclose writes the last buffer.
CloseOutput(p) ==
  LET me == scripts[p]  o == Output(p)
  IN /\ me.pc = "write" /\ me.buffer = Buffers[me.version]
     /\ disk' = [disk EXCEPT ![o] = Overwritten(@, me.buffer, me.version)]
     /\ opened' = [opened EXCEPT ![o] = Closing(p, o)]
     /\ scripts' = [scripts EXCEPT ![p].buffer = 1,
                                   ![p].at = IF LastOutput(p) THEN 1 ELSE @ + 1,
                                   ![p].pc = IF ~LastOutput(p) THEN "open"
                                             ELSE IF me.verify THEN "diff" ELSE "off"]
     /\ UNCHANGED <<specNow, starts>>

\* git diff reads one output after the other.
DiffOutput(p) ==
  LET me == scripts[p]
  IN /\ me.pc = "diff"
     /\ scripts' = [scripts EXCEPT
                      ![p].differs = @ \/ disk[Output(p)] # Made(Committed),
                      ![p].at = IF LastOutput(p) THEN @ ELSE @ + 1,
                      ![p].pc = IF LastOutput(p) THEN "verdict" ELSE @]
     /\ UNCHANGED <<specNow, disk, opened, starts>>

\* exit 0 or 2, by differs.
ExitScript(p) ==
  /\ scripts[p].pc = "verdict"
  /\ scripts' = [scripts EXCEPT ![p] = Stopped]
  /\ UNCHANGED <<specNow, disk, opened, starts>>

\* Ctrl-C.
KillScript(p) ==
  /\ scripts[p].pc # "off"
  /\ scripts' = [scripts EXCEPT ![p] = Stopped]
  /\ UNCHANGED <<specNow, disk, opened, starts>>

EditSpecNow ==
  /\ specNow + 1 \in SpecVersions
  /\ specNow' = specNow + 1
  /\ UNCHANGED <<disk, scripts, opened, starts>>

TwoRunsNext ==
  \/ \E p \in Scripts :
       \/ \E verify \in BOOLEAN : StartScript(p, verify)
       \/ ParseNow(p) \/ OpenOutput(p) \/ Flush(p) \/ CloseOutput(p)
       \/ DiffOutput(p) \/ ExitScript(p) \/ KillScript(p)
  \/ EditSpecNow

TwoRunsSpec == TwoRunsInit /\ [][TwoRunsNext]_twoVars

-----------------------------------------------------------------------------
(* Properties. *)

\* The runs and the outputs keep their types; positions are in the files they are of.
TwoRunsTypeOK ==
  /\ specNow \in SpecVersions /\ starts \in 0..MaxStarts
  /\ disk \in [GenOutputs -> Seq({Hole} \cup SpecVersions)]
  /\ scripts \in [Scripts -> [pc : {"off", "parse", "open", "write", "diff", "verdict"},
                              verify : BOOLEAN, version : SpecVersions,
                              at : DOMAIN OutputList, buffer : Nat \ {0},
                              differs : BOOLEAN]]
  /\ \A p \in Scripts : scripts[p].buffer <= Buffers[scripts[p].version]
  /\ opened \in [GenOutputs -> [last : Scripts \cup {"nobody"}, closed : BOOLEAN,
                                versions : SUBSET SpecVersions]]

\* Runs that generate the same version do not hurt each other, however their opens,
\* writes and kills fall: once the last to open an output has closed it, the output
\* is whole, whoever else is still writing it.  Where versions differ the output is a
\* mixture of them, but without holes as far as one of them reaches.
LastToOpenWins ==
  \A o \in GenOutputs : opened[o].closed =>
    /\ \A v \in SpecVersions : opened[o].versions = {v} => disk[o] = Made(v)
    /\ \E v \in opened[o].versions : Len(disk[o]) >= Buffers[v] /\
         \A k \in 1..Buffers[v] : disk[o][k] \in opened[o].versions

\* In a clean checkout that nobody edits --verify finds a difference only in an output
\* whose last opener is at work or was killed: a run beside it makes the gate fail
\* although there is no drift, and nothing else does (regen-all.sh:300).
DriftNeedsAnOpenOutput ==
  \A p \in Scripts :
    specNow = Committed /\ scripts'[p].differs /\ ~scripts[p].differs =>
      ~opened[Output(p)].closed

\* What overlapping runs do to gen/, and to each other's verdicts.
OverlapsAreHarmless == [][LastToOpenWins' /\ DriftNeedsAnOpenOutput]_twoVars
=============================================================================
