---------------------------- MODULE ManifestGate ----------------------------
(***************************************************************************)
(* The drift gate of the function manifests (.github/ci-kit): drift-gate.sh *)
(* hashes the manifests, has manifest-gen.py write them again, hashes them  *)
(* again, and asks git for differences to the index and for untracked       *)
(* files.  A developer edits sources and stages files meanwhile.            *)
(*                                                                         *)
(* A directory's manifest is a file that lists its declarations, so that it *)
(* is given by the version of the sources it was made from; a directory     *)
(* without declarations has none.  The root manifest lists them all.        *)
(***************************************************************************)
EXTENDS Naturals

CONSTANTS
  Dirs,
  MaxVersion      \* bound: the versions of a directory's sources

ASSUME ManifestAssumption == MaxVersion \in Nat \ {0}

Missing == 0              \* no declarations, no manifest
SourceVersions == 0..MaxVersion
Nothing == [d \in Dirs |-> Missing]

VARIABLES
  sources,        \* the version of each directory's declarations, or Missing
  manifests,      \* FUNCTION_SUBMANIFEST.md of each directory, in the work tree
  rootFile,       \* FUNCTION_MANIFEST.md
  staged,         \* both in the index
  gate            \* the run of drift-gate.sh, with manifest-gen.py's records

manifestVars == <<sources, manifests, rootFile, staged, gate>>

Hashes == [sub |-> manifests, root |-> rootFile]

\* before is the first file of hashes.  quiet, which only a property looks at: the
\* gate found everything up to date and staged, and no source was edited since.
Asleep == [pc |-> "none", before |-> [sub |-> Nothing, root |-> Nothing],
           records |-> Nothing, todo |-> {}, drift |-> FALSE, quiet |-> FALSE]

\* A checkout of a commit, which may have a manifest that is out of date or lack one.
ManifestInit ==
  /\ sources = [d \in Dirs |-> 1]
  /\ manifests \in [Dirs -> {Missing, 1}]
  /\ rootFile = [d \in Dirs |-> 1]
  /\ staged \in {[sub |-> manifests, root |-> rootFile], [sub |-> Nothing, root |-> rootFile]}
  /\ gate = Asleep

-----------------------------------------------------------------------------
(* drift-gate.sh and, within it, manifest-gen.py. *)

GateAt(pc) == gate.pc = pc
GateKeeps == UNCHANGED <<sources, staged>>

HashBefore ==
  /\ GateAt("none")
  /\ gate' = [Asleep EXCEPT !.pc = "scan", !.before = Hashes, !.todo = Dirs,
                          !.quiet = Hashes = [sub |-> sources, root |-> sources]
                                    /\ staged = Hashes]
  /\ UNCHANGED <<manifests, rootFile>> /\ GateKeeps

\* build_records reads one directory after the other.
Scan(d) ==
  /\ GateAt("scan") /\ d \in gate.todo
  /\ gate' = [gate EXCEPT !.records[d] = sources[d], !.todo = @ \ {d}]
  /\ UNCHANGED <<manifests, rootFile>> /\ GateKeeps

EndScan ==
  /\ GateAt("scan") /\ gate.todo = {}
  /\ gate' = [gate EXCEPT !.pc = "write", !.todo = Dirs]
  /\ UNCHANGED <<manifests, rootFile>> /\ GateKeeps

\* Mutation of WriteManifest: prune_stale is left out.
WriteManifestUnpruned(d) ==
  /\ GateAt("write") /\ d \in gate.todo
  /\ manifests' = [manifests EXCEPT ![d] = IF gate.records[d] = Missing THEN @
                                           ELSE gate.records[d]]
  /\ gate' = [gate EXCEPT !.todo = @ \ {d}]
  /\ UNCHANGED rootFile /\ GateKeeps

\* prune_stale, then write_outputs: here one directory after the other, in any order.
WriteManifest(d) ==
  /\ GateAt("write") /\ d \in gate.todo
  /\ manifests' = [manifests EXCEPT ![d] = gate.records[d]]
  /\ gate' = [gate EXCEPT !.todo = @ \ {d}]
  /\ UNCHANGED rootFile /\ GateKeeps

WriteRoot ==
  /\ GateAt("write") /\ gate.todo = {}
  /\ rootFile' = gate.records
  /\ gate' = [gate EXCEPT !.pc = "hash"]
  /\ UNCHANGED manifests /\ GateKeeps

\* "generator failed", an interrupt: what is written stays written.
GateDies ==
  /\ gate.pc \notin {"none", "clean", "drift"}
  /\ gate' = Asleep
  /\ UNCHANGED <<manifests, rootFile>> /\ GateKeeps

HashAfter ==
  /\ GateAt("hash")
  /\ gate' = [gate EXCEPT !.pc = "diff", !.drift = Hashes # gate.before]
  /\ UNCHANGED <<manifests, rootFile>> /\ GateKeeps

\* git diff compares files that are in the index with the work tree.
TrackedDiffers ==
  \/ \E d \in Dirs : staged.sub[d] # Missing /\ staged.sub[d] # manifests[d]
  \/ staged.root # rootFile

GitDiff ==
  /\ GateAt("diff")
  /\ gate' = [gate EXCEPT !.pc = "untracked", !.drift = @ \/ TrackedDiffers]
  /\ UNCHANGED <<manifests, rootFile>> /\ GateKeeps

Untracked == {d \in Dirs : staged.sub[d] = Missing /\ manifests[d] # Missing}

GitUntracked ==
  /\ GateAt("untracked")
  /\ gate' = [gate EXCEPT !.pc = IF gate.drift \/ Untracked # {} THEN "drift" ELSE "clean"]
  /\ UNCHANGED <<manifests, rootFile>> /\ GateKeeps

\* The verdict has been read, and the developer may start the gate again.
ReadVerdict ==
  /\ gate.pc \in {"clean", "drift"}
  /\ gate' = Asleep
  /\ UNCHANGED <<manifests, rootFile>> /\ GateKeeps

-----------------------------------------------------------------------------
(* The developer. *)

EditSource(d, v) ==
  /\ v # sources[d]
  /\ sources' = [sources EXCEPT ![d] = v]
  /\ gate' = [gate EXCEPT !.quiet = FALSE]
  /\ UNCHANGED <<manifests, rootFile, staged>>

\* git add of a manifest, or of its removal.
StageManifest(d) ==
  /\ staged' = [staged EXCEPT !.sub[d] = manifests[d], !.root = rootFile]
  /\ UNCHANGED <<sources, manifests, rootFile, gate>>

ManifestNext ==
  \/ HashBefore \/ EndScan \/ WriteRoot \/ HashAfter \/ GitDiff \/ GitUntracked
  \/ GateDies \/ ReadVerdict
  \/ \E d \in Dirs : \/ Scan(d) \/ WriteManifest(d)
                     \/ StageManifest(d)
                     \/ \E v \in SourceVersions : EditSource(d, v)

ManifestSpec == ManifestInit /\ [][ManifestNext]_manifestVars

-----------------------------------------------------------------------------
(* Properties. *)

Snapshot == [sub : [Dirs -> SourceVersions], root : [Dirs -> SourceVersions]]

ManifestTypeOK ==
  /\ sources \in [Dirs -> SourceVersions]
  /\ manifests \in [Dirs -> SourceVersions] /\ rootFile \in [Dirs -> SourceVersions]
  /\ staged \in Snapshot
  /\ gate \in [pc : {"none", "scan", "write", "hash", "diff", "untracked", "clean", "drift"},
               before : Snapshot, records : [Dirs -> SourceVersions],
               todo : SUBSET Dirs, drift : BOOLEAN, quiet : BOOLEAN]

AsGenerated == [sub |-> gate.records, root |-> gate.records]

\* "clean" is said only when the manifests the gate found were those it wrote and
\* the index holds the same, no more and no less: no stale manifest of a directory
\* that has lost its declarations, none that was never added, whatever is edited
\* and staged meanwhile (drift-gate.sh:64-95).
CleanIsEarned ==
  GateAt("untracked") /\ gate'.pc = "clean" =>
    gate.before = AsGenerated /\ staged = AsGenerated

\* No false alarm: where sources, manifests and index agree and no source is edited,
\* the gate does not say drift, whatever is staged meanwhile.
NoFalseAlarm == gate.quiet => gate.pc # "drift"

\* The gate says clean only of what is clean, and drift only of what is not.
GateTellsTheTruth == [][NoFalseAlarm' /\ CleanIsEarned]_manifestVars
=============================================================================
