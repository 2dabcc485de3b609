----------------------------- MODULE ToolProofs -----------------------------
(***************************************************************************)
(* Theorems about ManifestGate, for any directories and any versions of    *)
(* their sources, whatever is edited, staged or interrupted; about         *)
(* Toolchain, for any number of overlapping calls and of releases, and a   *)
(* kill at any step; about TwoRuns, for any number of runs; and about      *)
(* GeneratedTypes, for any values written to an object.  Last, of all the  *)
(* tools of MCTools together, whatever their constants.                    *)
(***************************************************************************)
EXTENDS MCTools, GeneratorProofs, GeneratedCodeProofs

Content == [Dirs -> SourceVersions]
Gates == [pc : {"none", "scan", "write", "hash", "diff", "untracked", "clean", "drift"},
          before : Snapshot, records : Content,
          todo : SUBSET Dirs, drift : BOOLEAN, quiet : BOOLEAN]

\* What the generator has written is what it has read, from its last write to the
\* verdict; the gate's two comparisons then speak of that.
WrittenIsRead ==
  /\ gate.pc = "write" => \A d \in Dirs \ gate.todo : manifests[d] = gate.records[d]
  /\ gate.pc \in {"hash", "diff", "untracked"} =>
       manifests = gate.records /\ rootFile = gate.records
  /\ gate.pc \in {"diff", "untracked"} /\ ~gate.drift => gate.before = AsGenerated

\* Past git diff, what the index has of these files it has as they are, whatever is
\* staged after it.
TrackedIsSame ==
  gate.pc = "untracked" /\ ~gate.drift =>
    /\ \A d \in Dirs : staged.sub[d] # Missing => staged.sub[d] = manifests[d]
    /\ staged.root = rootFile

\* Nothing is edited and all was up to date: there is one version of everything.
QuietIsSame ==
  gate.quiet =>
    /\ manifests = sources /\ rootFile = sources
    /\ staged.sub = sources /\ staged.root = sources
    /\ gate.before.sub = sources /\ gate.before.root = sources
    /\ gate.pc = "scan" => \A d \in Dirs \ gate.todo : gate.records[d] = sources[d]
    /\ gate.pc \in {"write", "hash", "diff", "untracked"} => gate.records = sources
    /\ gate.pc \in {"diff", "untracked"} => ~gate.drift
    /\ gate.pc # "drift"

GateInv == ManifestTypeOK /\ WrittenIsRead /\ TrackedIsSame /\ QuietIsSame

LEMMA ManifestTypeInit == ManifestInit => ManifestTypeOK
<1> SUFFICES ASSUME ManifestInit PROVE ManifestTypeOK
  OBVIOUS
<1>1. 0 \in SourceVersions /\ 1 \in SourceVersions
  BY ManifestAssumption DEF SourceVersions
<1>2. Nothing \in Content /\ sources \in Content /\ manifests \in Content /\ rootFile \in Content
  BY <1>1 DEF ManifestInit, Nothing, Missing, Content
<1>3. staged \in Snapshot
  BY <1>2 DEF ManifestInit, Snapshot, Content
<1>4. Asleep \in Gates
  BY <1>2 DEF Asleep, Gates, Snapshot, Content
<1> QED BY <1>2, <1>3, <1>4 DEF ManifestInit, ManifestTypeOK, Gates, Content

LEMMA ManifestInvInit == ManifestInit => GateInv
<1> SUFFICES ASSUME ManifestInit PROVE GateInv
  OBVIOUS
<1>1. gate.pc = "none" /\ ~gate.quiet
  BY DEF ManifestInit, Asleep
<1> QED BY <1>1, ManifestTypeInit DEF GateInv, WrittenIsRead, TrackedIsSame, QuietIsSame

LEMMA AsleepIsGate == Asleep \in Gates /\ Asleep.pc = "none" /\ Asleep.quiet = FALSE
<1>1. Nothing \in Content
  BY ManifestAssumption DEF Nothing, Missing, Content, SourceVersions
<1> QED BY <1>1 DEF Asleep, Gates, Snapshot, Content

\* The gate begins: quiet if one version of everything is in place.
LEMMA HashBeforeStep ==
  ASSUME GateInv, HashBefore
  PROVE  GateInv'
<1> DEFINE q == Hashes = [sub |-> sources, root |-> sources] /\ staged = Hashes
<1>1. UNCHANGED <<sources, manifests, rootFile, staged>>
  BY DEF HashBefore, GateKeeps
<1>2. gate' = [Asleep EXCEPT !.pc = "scan", !.before = Hashes, !.todo = Dirs, !.quiet = q]
  BY DEF HashBefore
<1>3. q \in BOOLEAN
  OBVIOUS
<1>4. q => /\ manifests = sources /\ rootFile = sources
           /\ staged.sub = sources /\ staged.root = sources
  BY DEF Hashes
<1>5. Hashes \in Snapshot /\ Hashes.sub = manifests /\ Hashes.root = rootFile
  BY DEF GateInv, ManifestTypeOK, Hashes, Snapshot
<1> HIDE DEF q
<1>6. /\ gate' \in Gates /\ gate'.pc = "scan" /\ gate'.before = Hashes /\ gate'.todo = Dirs
      /\ gate'.quiet = q
  BY <1>2, <1>3, <1>5, AsleepIsGate DEF Gates
<1>7. ManifestTypeOK'
  BY <1>1, <1>6 DEF GateInv, ManifestTypeOK, Gates, Content, Snapshot
<1>8. WrittenIsRead' /\ TrackedIsSame'
  BY <1>6 DEF WrittenIsRead, TrackedIsSame
<1>9. QuietIsSame'
  BY <1>1, <1>4, <1>5, <1>6 DEF QuietIsSame
<1> QED BY <1>7, <1>8, <1>9 DEF GateInv

LEMMA GateFacts ==
  ASSUME GateInv
  PROVE  /\ gate \in Gates /\ gate.records \in Content /\ gate.todo \subseteq Dirs
         /\ manifests \in Content /\ sources \in Content /\ rootFile \in Content
         /\ staged \in Snapshot
BY DEF GateInv, ManifestTypeOK, Gates, Content

\* A directory that has been read has been read as it is, unless one was edited.
LEMMA ScanStep ==
  ASSUME GateInv, NEW d \in Dirs, Scan(d)
  PROVE  GateInv'
<1>1. UNCHANGED <<sources, manifests, rootFile, staged>> /\ gate.pc = "scan" /\ d \in gate.todo
  BY DEF Scan, GateKeeps, GateAt
<1>2. gate' = [gate EXCEPT !.records[d] = sources[d], !.todo = @ \ {d}]
  BY DEF Scan
<1>3. /\ gate' \in Gates /\ gate'.pc = "scan" /\ gate'.todo = gate.todo \ {d}
      /\ gate'.quiet = gate.quiet /\ gate'.before = gate.before
      /\ gate'.records[d] = sources[d]
      /\ \A e \in Dirs \ {d} : gate'.records[e] = gate.records[e]
  BY <1>1, <1>2, GateFacts DEF Gates, Content
<1>4. ManifestTypeOK'
  BY <1>1, <1>3, GateFacts DEF ManifestTypeOK, Gates, Content
<1>5. QuietIsSame'
  BY <1>1, <1>3 DEF GateInv, QuietIsSame
<1> QED BY <1>3, <1>4, <1>5 DEF GateInv, WrittenIsRead, TrackedIsSame

LEMMA EndScanStep ==
  ASSUME GateInv, EndScan
  PROVE  GateInv'
<1>1. UNCHANGED <<sources, manifests, rootFile, staged>> /\ gate.pc = "scan" /\ gate.todo = {}
      /\ gate' = [gate EXCEPT !.pc = "write", !.todo = Dirs]
  BY DEF EndScan, GateKeeps, GateAt
<1>2. /\ gate' \in Gates /\ gate'.pc = "write" /\ gate'.todo = Dirs
      /\ gate'.quiet = gate.quiet /\ gate'.before = gate.before /\ gate'.records = gate.records
  BY <1>1, GateFacts DEF Gates
<1>3. ManifestTypeOK'
  BY <1>1, <1>2, GateFacts DEF ManifestTypeOK, Gates, Content
<1>4. gate.quiet => gate.records = sources
  <2>1. gate.quiet => \A d \in Dirs : gate.records[d] = sources[d]
    BY <1>1 DEF GateInv, QuietIsSame
  <2> QED BY <2>1, GateFacts DEF Content
<1>5. QuietIsSame'
  BY <1>1, <1>2, <1>4 DEF GateInv, QuietIsSame
<1> QED BY <1>2, <1>3, <1>5 DEF GateInv, WrittenIsRead, TrackedIsSame

LEMMA WriteManifestStep ==
  ASSUME GateInv, NEW d \in Dirs, WriteManifest(d)
  PROVE  GateInv'
<1>1. UNCHANGED <<sources, rootFile, staged>> /\ gate.pc = "write" /\ d \in gate.todo
      /\ gate' = [gate EXCEPT !.todo = @ \ {d}]
      /\ manifests' = [manifests EXCEPT ![d] = gate.records[d]]
  BY DEF WriteManifest, GateKeeps, GateAt
<1>2. /\ gate' \in Gates /\ gate'.pc = "write" /\ gate'.todo = gate.todo \ {d}
      /\ gate'.quiet = gate.quiet /\ gate'.before = gate.before /\ gate'.records = gate.records
  BY <1>1, GateFacts DEF Gates
<1>3. manifests' \in Content /\ manifests'[d] = gate.records[d]
      /\ \A e \in Dirs \ {d} : manifests'[e] = manifests[e]
  BY <1>1, GateFacts DEF Content
<1>4. ManifestTypeOK'
  BY <1>1, <1>2, <1>3, GateFacts DEF ManifestTypeOK, Gates, Content
<1>5. WrittenIsRead'
  <2>1. \A e \in Dirs \ gate.todo : manifests[e] = gate.records[e]
    BY <1>1 DEF GateInv, WrittenIsRead
  <2>2. \A e \in Dirs \ (gate.todo \ {d}) : manifests'[e] = gate.records[e]
    BY <1>3, <2>1
  <2> QED BY <1>2, <2>2 DEF WrittenIsRead
<1>6. gate.quiet => manifests' = sources
  <2>1. gate.quiet => \A e \in Dirs : manifests'[e] = sources[e]
    BY <1>1, <1>3 DEF GateInv, QuietIsSame
  <2> QED BY <1>3, <2>1, GateFacts DEF Content
<1>7. QuietIsSame'
  BY <1>1, <1>2, <1>6 DEF GateInv, QuietIsSame
<1> QED BY <1>2, <1>4, <1>5, <1>7 DEF GateInv, TrackedIsSame

LEMMA WriteRootStep ==
  ASSUME GateInv, WriteRoot
  PROVE  GateInv'
<1>1. UNCHANGED <<sources, manifests, staged>> /\ gate.pc = "write" /\ gate.todo = {}
      /\ gate' = [gate EXCEPT !.pc = "hash"]
      /\ rootFile' = gate.records
  BY DEF WriteRoot, GateKeeps, GateAt
<1>2. /\ gate' \in Gates /\ gate'.pc = "hash"
      /\ gate'.quiet = gate.quiet /\ gate'.before = gate.before /\ gate'.records = gate.records
  BY <1>1, GateFacts DEF Gates
<1>3. ManifestTypeOK'
  BY <1>1, <1>2, GateFacts DEF ManifestTypeOK, Gates, Content
<1>4. manifests = gate.records
  <2>1. \A d \in Dirs : manifests[d] = gate.records[d]
    BY <1>1 DEF GateInv, WrittenIsRead
  <2> QED BY <2>1, GateFacts DEF Content
<1>5. WrittenIsRead'
  BY <1>1, <1>2, <1>4 DEF WrittenIsRead
<1>6. QuietIsSame'
  BY <1>1, <1>2 DEF GateInv, QuietIsSame
<1> QED BY <1>2, <1>3, <1>5, <1>6 DEF GateInv, TrackedIsSame

\* Neither hash nor git diff finds a difference: it is remembered that there is none.
LEMMA HashAfterStep ==
  ASSUME GateInv, HashAfter
  PROVE  GateInv'
<1> DEFINE b == Hashes # gate.before
<1>1. UNCHANGED <<sources, manifests, rootFile, staged>> /\ gate.pc = "hash"
      /\ gate' = [gate EXCEPT !.pc = "diff", !.drift = b]
  BY DEF HashAfter, GateKeeps, GateAt
<1>2. b \in BOOLEAN
  OBVIOUS
<1>3. ~b => gate.before = [sub |-> manifests, root |-> rootFile]
  BY DEF Hashes
<1>4. gate.before \in Snapshot
  BY GateFacts DEF Gates
<1>5. gate.quiet => ~b
  BY <1>4 DEF GateInv, QuietIsSame, Hashes, Snapshot
<1> HIDE DEF b
<1>6. /\ gate' \in Gates /\ gate'.pc = "diff" /\ gate'.drift = b
      /\ gate'.quiet = gate.quiet /\ gate'.before = gate.before /\ gate'.records = gate.records
  BY <1>1, <1>2, GateFacts DEF Gates
<1>7. ManifestTypeOK'
  BY <1>1, <1>6, GateFacts DEF ManifestTypeOK, Gates, Content
<1>8. WrittenIsRead'
  BY <1>1, <1>3, <1>6 DEF GateInv, WrittenIsRead, AsGenerated
<1>9. QuietIsSame'
  BY <1>1, <1>5, <1>6 DEF GateInv, QuietIsSame
<1> QED BY <1>6, <1>7, <1>8, <1>9 DEF GateInv, TrackedIsSame

LEMMA GitDiffStep ==
  ASSUME GateInv, GitDiff
  PROVE  GateInv'
<1> DEFINE b == gate.drift \/ TrackedDiffers
<1>1. UNCHANGED <<sources, manifests, rootFile, staged>> /\ gate.pc = "diff"
      /\ gate' = [gate EXCEPT !.pc = "untracked", !.drift = b]
  BY DEF GitDiff, GateKeeps, GateAt
<1>2. b \in BOOLEAN
  BY GateFacts DEF Gates
<1>3. ~b => /\ ~gate.drift
            /\ \A d \in Dirs : staged.sub[d] # Missing => staged.sub[d] = manifests[d]
            /\ staged.root = rootFile
  BY DEF TrackedDiffers
<1>4. gate.quiet => ~b
  BY <1>1 DEF GateInv, QuietIsSame, TrackedDiffers
<1> HIDE DEF b
<1>5. /\ gate' \in Gates /\ gate'.pc = "untracked" /\ gate'.drift = b
      /\ gate'.quiet = gate.quiet /\ gate'.before = gate.before /\ gate'.records = gate.records
  BY <1>1, <1>2, GateFacts DEF Gates
<1>6. ManifestTypeOK'
  BY <1>1, <1>5, GateFacts DEF ManifestTypeOK, Gates, Content
<1>7. WrittenIsRead' /\ TrackedIsSame'
  BY <1>1, <1>3, <1>5 DEF GateInv, WrittenIsRead, TrackedIsSame, AsGenerated
<1>8. QuietIsSame'
  BY <1>1, <1>4, <1>5 DEF GateInv, QuietIsSame
<1> QED BY <1>6, <1>7, <1>8 DEF GateInv

LEMMA GitUntrackedStep ==
  ASSUME GateInv, GitUntracked
  PROVE  GateInv'
<1> DEFINE p == IF gate.drift \/ Untracked # {} THEN "drift" ELSE "clean"
<1>1. UNCHANGED <<sources, manifests, rootFile, staged>> /\ gate.pc = "untracked"
      /\ gate' = [gate EXCEPT !.pc = p]
  BY DEF GitUntracked, GateKeeps, GateAt
<1>2. p \in {"drift", "clean"}
  OBVIOUS
<1>3. gate.quiet => p # "drift"
  BY <1>1 DEF GateInv, QuietIsSame, Untracked
<1> HIDE DEF p
<1>4. gate' \in Gates /\ gate'.pc = p /\ gate'.quiet = gate.quiet /\ gate'.before = gate.before
  BY <1>1, <1>2, GateFacts DEF Gates
<1>5. ManifestTypeOK'
  BY <1>1, <1>4, GateFacts DEF ManifestTypeOK, Gates, Content
<1>6. WrittenIsRead' /\ TrackedIsSame'
  BY <1>2, <1>4 DEF WrittenIsRead, TrackedIsSame
<1>7. QuietIsSame'
  BY <1>1, <1>2, <1>3, <1>4 DEF GateInv, QuietIsSame
<1> QED BY <1>5, <1>6, <1>7 DEF GateInv

LEMMA GateEndsStep ==
  ASSUME GateInv, GateDies \/ ReadVerdict
  PROVE  GateInv'
<1>1. UNCHANGED <<sources, manifests, rootFile, staged>> /\ gate' = Asleep
  BY DEF GateDies, ReadVerdict, GateKeeps
<1>2. gate' \in Gates /\ gate'.pc = "none" /\ gate'.quiet = FALSE
  BY <1>1, AsleepIsGate
<1>3. ManifestTypeOK'
  BY <1>1, <1>2, GateFacts DEF ManifestTypeOK, Gates, Content
<1> QED BY <1>2, <1>3 DEF GateInv, WrittenIsRead, TrackedIsSame, QuietIsSame

LEMMA EditSourceStep ==
  ASSUME GateInv, NEW d \in Dirs, NEW v \in SourceVersions, EditSource(d, v)
  PROVE  GateInv'
<1>1. UNCHANGED <<manifests, rootFile, staged>>
      /\ gate' = [gate EXCEPT !.quiet = FALSE] /\ sources' = [sources EXCEPT ![d] = v]
  BY DEF EditSource
<1>2. /\ gate' \in Gates /\ gate'.pc = gate.pc /\ gate'.drift = gate.drift
      /\ gate'.quiet = FALSE /\ gate'.before = gate.before /\ gate'.records = gate.records
      /\ gate'.todo = gate.todo
  BY <1>1, GateFacts DEF Gates
<1>3. sources' \in Content
  BY <1>1, GateFacts DEF Content
<1>4. ManifestTypeOK'
  BY <1>1, <1>2, <1>3, GateFacts DEF ManifestTypeOK, Gates, Content
<1>5. WrittenIsRead' /\ TrackedIsSame'
  BY <1>1, <1>2 DEF GateInv, WrittenIsRead, TrackedIsSame, AsGenerated
<1> QED BY <1>2, <1>4, <1>5 DEF GateInv, QuietIsSame

\* Staging makes the index agree with the files, and never undoes an agreement.
LEMMA StageManifestStep ==
  ASSUME GateInv, NEW d \in Dirs, StageManifest(d)
  PROVE  GateInv'
<1>1. UNCHANGED <<sources, manifests, rootFile, gate>>
      /\ staged' = [staged EXCEPT !.sub[d] = manifests[d], !.root = rootFile]
  BY DEF StageManifest
<1>2. /\ staged' \in Snapshot /\ staged'.root = rootFile /\ staged'.sub \in Content
      /\ staged'.sub[d] = manifests[d]
      /\ \A e \in Dirs \ {d} : staged'.sub[e] = staged.sub[e]
  BY <1>1, GateFacts DEF Snapshot, Content
<1>3. ManifestTypeOK'
  BY <1>1, <1>2, GateFacts DEF ManifestTypeOK, Gates, Content
<1>4. WrittenIsRead' /\ TrackedIsSame'
  BY <1>1, <1>2 DEF GateInv, WrittenIsRead, TrackedIsSame, AsGenerated
<1>5. gate.quiet => staged'.sub = sources
  <2>1. gate.quiet => \A e \in Dirs : staged'.sub[e] = sources[e]
    BY <1>2 DEF GateInv, QuietIsSame
  <2> QED BY <1>2, <2>1, GateFacts DEF Content
<1>6. QuietIsSame'
  BY <1>1, <1>2, <1>5 DEF GateInv, QuietIsSame
<1> QED BY <1>3, <1>4, <1>6 DEF GateInv

LEMMA ManifestStutter == GateInv /\ UNCHANGED manifestVars => GateInv'
BY DEF manifestVars, GateInv, ManifestTypeOK, WrittenIsRead, TrackedIsSame, QuietIsSame,
       AsGenerated

LEMMA ManifestInvariant == ManifestSpec => []GateInv
<1>1. GateInv /\ [ManifestNext]_manifestVars => GateInv'
  BY HashBeforeStep, ScanStep, EndScanStep, WriteManifestStep, WriteRootStep, HashAfterStep,
     GitDiffStep, GitUntrackedStep, GateEndsStep, EditSourceStep, StageManifestStep,
     ManifestStutter DEF ManifestNext
<1> QED BY <1>1, ManifestInvInit, PTL DEF ManifestSpec

-----------------------------------------------------------------------------
\* The gate says clean only of manifests it found as it would write them and that
\* are staged, each of them and no other (drift-gate.sh:64-95).
THEOREM CleanIsExact == ManifestSpec => [][CleanIsEarned]_manifestVars
<1>1. GateInv /\ [ManifestNext]_manifestVars =>
        [CleanIsEarned]_manifestVars
  <2> SUFFICES ASSUME GateInv, [ManifestNext]_manifestVars, gate.pc = "untracked",
                      gate'.pc = "clean"
               PROVE  gate.before = AsGenerated /\ staged = AsGenerated
    BY DEF GateAt, CleanIsEarned
  <2>1. GitUntracked
    BY AsleepIsGate, GateFacts
       DEF ManifestNext, manifestVars, HashBefore, EndScan, WriteRoot, HashAfter, GitDiff,
           GateDies, ReadVerdict, Scan, WriteManifest, StageManifest, EditSource, GateAt, Gates
  <2>2. ~gate.drift /\ Untracked = {}
    BY <2>1, GateFacts DEF GitUntracked, Gates
  <2>3. manifests = gate.records /\ rootFile = gate.records /\ gate.before = AsGenerated
    BY <2>2 DEF GateInv, WrittenIsRead
  <2>4. \A d \in Dirs : staged.sub[d] = manifests[d]
    BY <2>2 DEF GateInv, TrackedIsSame, Untracked
  <2>5. staged.sub = gate.records /\ staged.root = gate.records
    <3>1. staged.sub \in Content
      BY GateFacts DEF Snapshot, Content
    <3>2. staged.sub = manifests
      BY <2>4, <3>1, GateFacts DEF Content
    <3> QED BY <2>2, <2>3, <3>2 DEF GateInv, TrackedIsSame
  <2> QED BY <2>3, <2>5, GateFacts DEF AsGenerated, Snapshot
<1> QED BY <1>1, ManifestInvariant, PTL DEF ManifestSpec

\* Where nothing was out of date, unstaged or edited, the gate does not say drift.
THEOREM QuietIsNotDrift == ManifestSpec => []NoFalseAlarm
<1>1. GateInv => NoFalseAlarm
  BY DEF GateInv, QuietIsSame, NoFalseAlarm
<1> QED BY <1>1, ManifestInvariant, PTL

\* The gate's two verdicts can be trusted, whatever is edited and staged while it
\* works (drift-gate.sh:63-95).
THEOREM VerdictsAreTrue == ManifestSpec => GateTellsTheTruth
BY CleanIsExact, QuietIsNotDrift, PTL DEF GateTellsTheTruth

-----------------------------------------------------------------------------

Steps == {"unused", "mkdir", "url1", "url2", "check", "unzip", "commit", "link", "ended"}

\* What a call knows of its own directory at each line, and of OUTPUT_DIR once it
\* has been there.
CallOK(c) ==
  /\ step[c] = "unused" => wants[c] = None
  /\ step[c] # "unused" => wants[c] \in Releases
  /\ step[c] # "ended" => outcome[c] = "none"
  /\ step[c] \in {"unused", "mkdir"} => tmp[c] = "absent"
  /\ step[c] = "check" => tmp[c] \in {"badZip", "goodZip"}
  /\ step[c] = "unzip" => tmp[c] \in {"goodZip", "partTree"}
  /\ step[c] = "commit" => tmp[c] = "tree"
  /\ step[c] = "link" => tmp[c] = "absent" /\ placed[wants[c]] = "tree"
  /\ outcome[c] = "ready" => placed[wants[c]] = "tree"
  /\ step[c] = "ended" /\ tmp[c] # "absent" => outcome[c] = "killed"

CurrentIsPlaced == current # None => placed[current] = "tree"

\* A release was put in place by a call that is past its mv.
PlacedBySomeone ==
  \A r \in Releases : placed[r] # "absent" =>
    \E c \in Calls : wants[c] = r /\ step[c] \in {"link", "ended"}

InsideOfAnother ==
  \A r \in Releases : \A c \in inside[r] :
    /\ placed[r] = "tree"
    /\ \E other \in Calls \ {c} : wants[c] = r /\ wants[other] = r

ToolInv ==
  /\ ToolchainTypeOK
  /\ \A c \in Calls : CallOK(c)
  /\ PlacedIsWhole
  /\ CurrentIsPlaced
  /\ PlacedBySomeone
  /\ InsideOfAnother
  /\ UnlinkedAfterACrash

LEMMA ToolInit == ToolchainInit => ToolInv
BY ToolchainAssumption
   DEF ToolchainInit, ToolInv, ToolchainTypeOK, CallOK, PlacedIsWhole, CurrentIsPlaced,
       PlacedBySomeone, InsideOfAnother, UnlinkedAfterACrash, Contents

\* A step of one call that leaves OUTPUT_DIR, current and what the call wants
\* alone keeps the invariant if it keeps what is known of this call; from its link
\* it may only go to a failure.
LEMMA OwnStep ==
  ASSUME ToolInv, NEW c \in Calls, NEW s \in Steps \ {"unused"}, NEW t \in Contents,
         NEW o \in {"none", "ready", "failed", "killed"},
         step' = [step EXCEPT ![c] = s],
         tmp' = [tmp EXCEPT ![c] = t],
         outcome' = [outcome EXCEPT ![c] = o],
         UNCHANGED <<wants, placed, inside, current>>,
         step[c] \notin {"unused", "ended"},
         step[c] = "link" => s = "ended" /\ o \in {"failed", "killed"},
         CallOK(c)'
  PROVE  ToolInv'
<1>1. ToolchainTypeOK'
  BY DEF ToolInv, ToolchainTypeOK, Steps
<1>2. \A d \in Calls \ {c} : step'[d] = step[d] /\ tmp'[d] = tmp[d] /\ outcome'[d] = outcome[d]
  BY DEF ToolInv, ToolchainTypeOK
<1>3. step'[c] = s /\ outcome'[c] = o
  BY DEF ToolInv, ToolchainTypeOK
<1>4. \A d \in Calls : CallOK(d)'
  BY <1>2 DEF ToolInv, CallOK
<1>5. PlacedIsWhole' /\ CurrentIsPlaced' /\ InsideOfAnother'
  BY DEF ToolInv, PlacedIsWhole, CurrentIsPlaced, InsideOfAnother
<1>6. PlacedBySomeone'
  BY <1>2, <1>3 DEF ToolInv, PlacedBySomeone
<1>7. UnlinkedAfterACrash'
  <2> SUFFICES ASSUME current = None, NEW r \in Releases, placed[r] # "absent"
               PROVE  \E d \in Calls : /\ wants[d] = r
                                       /\ step'[d] = "link" \/ outcome'[d] \in {"killed", "failed"}
    BY DEF UnlinkedAfterACrash
  <2>1. PICK d \in Calls : /\ wants[d] = r
                           /\ step[d] = "link" \/ outcome[d] \in {"killed", "failed"}
    BY DEF ToolInv, UnlinkedAfterACrash
  <2>2. CASE d = c
    <3>1. outcome[c] = "none"
      BY DEF ToolInv, CallOK
    <3>2. step[c] = "link"
      BY <2>1, <2>2, <3>1, ToolchainAssumption DEF ToolInv, ToolchainTypeOK
    <3> QED BY <1>3, <2>1, <2>2, <3>2
  <2> QED BY <1>2, <2>1, <2>2
<1> QED BY <1>1, <1>4, <1>5, <1>6, <1>7 DEF ToolInv

\* The directory is decided before anything is written: a call that starts has
\* wanted nothing so far, so what others rely on stays.
LEMMA StartStep ==
  ASSUME ToolInv, NEW c \in Calls, NEW r \in Releases, Start(c, r)
  PROVE  ToolInv'
<1> USE DEF Start, Ends
<1>1. /\ wants[c] = None /\ outcome[c] = "none" /\ tmp[c] = "absent"
      /\ step[c] = "unused" /\ r # None
  BY ToolchainAssumption DEF ToolInv, CallOK
<1>2. /\ wants' = [wants EXCEPT ![c] = r]
      /\ UNCHANGED <<tmp, placed, inside, current>>
      /\ \/ /\ placed[r] # "absent"
            /\ step' = [step EXCEPT ![c] = "ended"]
            /\ outcome' = [outcome EXCEPT ![c] = "ready"]
         \/ /\ step' = [step EXCEPT ![c] = "mkdir"]
            /\ UNCHANGED outcome
  OBVIOUS
<1> HIDE DEF Start, Ends
<1>3. ToolchainTypeOK'
  BY <1>2 DEF ToolInv, ToolchainTypeOK
<1>4. \A d \in Calls \ {c} : /\ step'[d] = step[d] /\ wants'[d] = wants[d]
                             /\ outcome'[d] = outcome[d]
  BY <1>2 DEF ToolInv, ToolchainTypeOK
<1>5. CallOK(c)'
  BY <1>1, <1>2 DEF ToolInv, ToolchainTypeOK, CallOK, PlacedIsWhole
<1>6. \A d \in Calls : CallOK(d)'
  BY <1>2, <1>4, <1>5 DEF ToolInv, CallOK
<1>7. PlacedIsWhole' /\ CurrentIsPlaced'
  BY <1>2 DEF ToolInv, PlacedIsWhole, CurrentIsPlaced
<1>8. PlacedBySomeone'
  BY <1>1, <1>2, <1>4 DEF ToolInv, PlacedBySomeone
<1>9. InsideOfAnother'
  BY <1>1, <1>2, <1>4, ToolchainAssumption DEF ToolInv, InsideOfAnother, ToolchainTypeOK
<1>10. UnlinkedAfterACrash'
  BY <1>1, <1>2, <1>4 DEF ToolInv, UnlinkedAfterACrash
<1> QED BY <1>3, <1>6, <1>7, <1>8, <1>9, <1>10 DEF ToolInv

\* The call that finds nothing at OUTPUT_DIR puts a whole tree there; one that
\* finds another's leaves it alone, and the other's is there already.
LEMMA CommitStep ==
  ASSUME ToolInv, NEW c \in Calls, Commit(c)
  PROVE  ToolInv'
<1> DEFINE r == wants[c]
<1>1. /\ step[c] = "commit" /\ r \in Releases /\ tmp[c] = "tree" /\ outcome[c] = "none"
  BY DEF ToolInv, CallOK, Commit
<1>2. /\ \/ /\ placed[r] = "absent"
            /\ placed' = [placed EXCEPT ![r] = "tree"]
            /\ UNCHANGED inside
         \/ /\ placed[r] = "tree"
            /\ inside' = [inside EXCEPT ![r] = @ \cup {c}]
            /\ UNCHANGED placed
      /\ tmp' = [tmp EXCEPT ![c] = "absent"]
      /\ step' = [step EXCEPT ![c] = "link"]
      /\ UNCHANGED <<current, wants, outcome>>
  BY <1>1 DEF Commit, Advances, ToolInv, PlacedIsWhole
<1>3. ToolchainTypeOK'
  BY <1>1, <1>2 DEF ToolInv, ToolchainTypeOK, Contents
<1>4. \A d \in Calls \ {c} : step'[d] = step[d] /\ tmp'[d] = tmp[d]
  BY <1>2 DEF ToolInv, ToolchainTypeOK
<1>5. /\ step'[c] = "link" /\ tmp'[c] = "absent" /\ placed'[r] = "tree"
      /\ \A q \in Releases : placed[q] = "tree" => placed'[q] = "tree"
      /\ \A q \in Releases \ {r} : placed'[q] = placed[q]
  BY <1>1, <1>2 DEF ToolInv, ToolchainTypeOK
<1>6. \A d \in Calls : wants[d] \in Releases \/ step[d] = "unused"
  BY DEF ToolInv, CallOK
<1>7. \A d \in Calls : CallOK(d)'
  BY <1>1, <1>2, <1>4, <1>5, <1>6 DEF ToolInv, CallOK
<1>8. PlacedIsWhole' /\ CurrentIsPlaced'
  BY <1>2, <1>5 DEF ToolInv, ToolchainTypeOK, PlacedIsWhole, CurrentIsPlaced
<1>9. PlacedBySomeone'
  BY <1>1, <1>2, <1>4, <1>5 DEF ToolInv, PlacedBySomeone
<1>10. InsideOfAnother'
  <2>1. CASE placed[r] = "tree"
    <3>1. PICK other \in Calls : wants[other] = r /\ step[other] \in {"link", "ended"}
      BY <1>1, <2>1 DEF ToolInv, PlacedBySomeone
    <3>2. other # c
      BY <1>1, <3>1
    <3>3. \A q \in Releases : \A d \in inside'[q] : d \in inside[q] \/ (d = c /\ q = r)
      BY <1>1, <1>2, <2>1 DEF ToolInv, ToolchainTypeOK
    <3> QED BY <1>1, <1>2, <1>5, <3>1, <3>2, <3>3 DEF ToolInv, InsideOfAnother
  <2>2. CASE placed[r] = "absent"
    BY <1>2, <1>5, <2>2 DEF ToolInv, InsideOfAnother
  <2> QED BY <1>2, <2>1, <2>2
<1>11. UnlinkedAfterACrash'
  BY <1>1, <1>2, <1>4, <1>5 DEF ToolInv, UnlinkedAfterACrash
<1> QED BY <1>3, <1>7, <1>8, <1>9, <1>10, <1>11 DEF ToolInv

\* current selects what the call has found in place or put there.
LEMMA LinkStep ==
  ASSUME ToolInv, NEW c \in Calls, Link(c)
  PROVE  ToolInv'
<1>1. /\ step[c] = "link" /\ wants[c] \in Releases /\ placed[wants[c]] = "tree"
      /\ tmp[c] = "absent"
  BY DEF ToolInv, CallOK, Link
<1>2. /\ current' = wants[c]
      /\ step' = [step EXCEPT ![c] = "ended"]
      /\ outcome' = [outcome EXCEPT ![c] = "ready"]
      /\ UNCHANGED <<wants, tmp, placed, inside>>
  BY DEF Link, Ends
<1>3. ToolchainTypeOK'
  BY <1>1, <1>2 DEF ToolInv, ToolchainTypeOK
<1>4. \A d \in Calls \ {c} : step'[d] = step[d] /\ outcome'[d] = outcome[d]
  BY <1>2 DEF ToolInv, ToolchainTypeOK
<1>5. step'[c] = "ended" /\ outcome'[c] = "ready" /\ current' # None
  BY <1>1, <1>2, ToolchainAssumption DEF ToolInv, ToolchainTypeOK
<1>6. \A d \in Calls : CallOK(d)'
  BY <1>1, <1>2, <1>4, <1>5 DEF ToolInv, CallOK
<1>7. PlacedIsWhole' /\ CurrentIsPlaced' /\ InsideOfAnother' /\ UnlinkedAfterACrash'
  BY <1>1, <1>2, <1>5
     DEF ToolInv, PlacedIsWhole, CurrentIsPlaced, InsideOfAnother, UnlinkedAfterACrash
<1>8. PlacedBySomeone'
  BY <1>2, <1>4, <1>5 DEF ToolInv, PlacedBySomeone
<1> QED BY <1>3, <1>6, <1>7, <1>8 DEF ToolInv

LEMMA SameAgain ==
  ASSUME ToolInv, NEW c \in Calls
  PROVE  tmp = [tmp EXCEPT ![c] = tmp[c]] /\ outcome = [outcome EXCEPT ![c] = outcome[c]]
BY DEF ToolInv, ToolchainTypeOK

\* A call that gives up, or is killed; only a kill may leave the directory.
LEMMA EndsEarly ==
  ASSUME ToolInv, NEW c \in Calls, NEW o \in {"failed", "killed"}, NEW t \in Contents,
         step[c] \notin {"unused", "ended"},
         Ends(c, o), tmp' = [tmp EXCEPT ![c] = t], o = "failed" => t = "absent",
         UNCHANGED <<wants, placed, inside, current>>
  PROVE  ToolInv'
<1>1. step'[c] = "ended" /\ tmp'[c] = t /\ outcome'[c] = o
  BY DEF Ends, ToolInv, ToolchainTypeOK
<1>2. CallOK(c)'
  BY <1>1 DEF ToolInv, CallOK
<1> QED BY <1>2, OwnStep DEF Ends, Steps

\* A call that goes on to another line short of its mv.
LEMMA GoesOn ==
  ASSUME ToolInv, NEW c \in Calls,
         NEW s \in {"mkdir", "url1", "url2", "check", "unzip", "commit"},
         NEW t \in Contents,
         step[c] \notin {"unused", "link", "ended"},
         step' = [step EXCEPT ![c] = s], tmp' = [tmp EXCEPT ![c] = t],
         UNCHANGED <<wants, outcome, placed, inside, current>>,
         s = "mkdir" => t = "absent",
         s = "check" => t \in {"badZip", "goodZip"},
         s = "unzip" => t \in {"goodZip", "partTree"},
         s = "commit" => t = "tree"
  PROVE  ToolInv'
<1>1. step'[c] = s /\ tmp'[c] = t /\ outcome'[c] = "none"
  BY DEF ToolInv, ToolchainTypeOK, CallOK
<1>2. CallOK(c)'
  BY <1>1 DEF ToolInv, CallOK
<1>3. outcome' = [outcome EXCEPT ![c] = "none"]
  BY <1>1, SameAgain
<1> QED BY <1>2, <1>3, OwnStep DEF Steps

LEMMA WorksStep ==
  ASSUME ToolInv, NEW c \in Calls, Works(c) \/ Kill(c)
  PROVE  ToolInv'
<1>1. CallOK(c) /\ tmp[c] \in Contents
  BY DEF ToolInv, ToolchainTypeOK
<1>2. tmp = [tmp EXCEPT ![c] = tmp[c]]
  BY SameAgain
<1>3. CASE CannotPrepare(c) \/ LinkFails(c)
  BY <1>1, <1>2, <1>3, EndsEarly DEF CannotPrepare, LinkFails, CallOK
<1>4. CASE SecondMirrorFails(c) \/ CheckFails(c) \/ UnzipFails(c) \/ CommitFails(c)
  BY <1>4, EndsEarly
     DEF SecondMirrorFails, CheckFails, UnzipFails, CommitFails, Dies, Contents
<1>5. CASE Kill(c)
  BY <1>1, <1>2, <1>5, EndsEarly DEF Kill
<1>6. CASE MakeTmp(c) \/ FirstMirrorFails(c)
  BY <1>6, GoesOn DEF MakeTmp, FirstMirrorFails, Advances, Contents
<1>7. CASE Fetch(c)
  <2>1. PICK zip \in {"badZip", "goodZip"} : tmp' = [tmp EXCEPT ![c] = zip]
    BY <1>7 DEF Fetch
  <2> QED BY <1>7, <2>1, GoesOn DEF Fetch, Advances, Contents
<1>8. CASE Check(c)
  BY <1>2, <1>8, GoesOn DEF Check, Advances, Contents
<1>9. CASE UnzipStarts(c)
  <2>1. step[c] = "unzip" /\ tmp' = [tmp EXCEPT ![c] = "partTree"]
    BY <1>1, <1>9 DEF UnzipStarts, CallOK
  <2>2. step' = [step EXCEPT ![c] = "unzip"]
    BY <1>9, <2>1 DEF UnzipStarts, ToolInv, ToolchainTypeOK
  <2> QED BY <1>9, <2>1, <2>2, GoesOn DEF UnzipStarts, Contents
<1>10. CASE UnzipEnds(c)
  <2>1. step[c] = "unzip" /\ tmp' = [tmp EXCEPT ![c] = "tree"]
    BY <1>1, <1>10 DEF UnzipEnds, CallOK
  <2> QED BY <1>10, <2>1, GoesOn DEF UnzipEnds, Advances, Contents
<1>11. CASE Commit(c)
  BY <1>11, CommitStep
<1>12. CASE Link(c)
  BY <1>12, LinkStep
<1> QED BY <1>3, <1>4, <1>5, <1>6, <1>7, <1>8, <1>9, <1>10, <1>11, <1>12 DEF Works

LEMMA ToolStutter == ToolInv /\ UNCHANGED toolVars => ToolInv'
BY DEF toolVars, ToolInv, ToolchainTypeOK, CallOK, PlacedIsWhole, CurrentIsPlaced,
       PlacedBySomeone, InsideOfAnother, UnlinkedAfterACrash

LEMMA ToolInvariant == ToolchainSpec => []ToolInv
<1>1. ToolInv /\ [ToolchainNext]_toolVars => ToolInv'
  BY StartStep, WorksStep, ToolStutter DEF ToolchainNext
<1> QED BY <1>1, ToolInit, PTL DEF ToolchainSpec

-----------------------------------------------------------------------------
\* Whatever make finds at OUTPUT_DIR is a whole tree with the pinned hash,
\* however many calls overlap and wherever each of them is killed
\* (download-cosmocc.sh:97-106, Makefile:33).
THEOREM OnlyWholeToolchains == ToolchainSpec => []PlacedIsWhole
<1>1. ToolInv => PlacedIsWhole
  BY DEF ToolInv
<1> QED BY <1>1, ToolInvariant, PTL

\* A call that has reported success, and the link current, name a release that is
\* in place (download-cosmocc.sh:27-29, :106-111).
THEOREM ReadyMeansPlaced == ToolchainSpec => []ReadyIsPlaced
<1>1. ToolInv => ReadyIsPlaced
  <2>1. ASSUME ToolInv PROVE \A r \in Releases : Ready(r) => placed[r] = "tree"
    BY <2>1 DEF ToolInv, CallOK, Ready
  <2>2. ASSUME ToolInv PROVE current # None => placed[current] = "tree"
    BY <2>2 DEF ToolInv, CurrentIsPlaced
  <2> QED BY <2>1, <2>2 DEF ReadyIsPlaced
<1> QED BY <1>1, ToolInvariant, PTL

\* die() and the mv leave no temporary directory: one that is left is a killed
\* call's, and one inside a release is that of the slower of two calls
\* (download-cosmocc.sh:87-91, :106).
THEOREM LitterIsExplained == ToolchainSpec => []OnlyKillsLeaveLitter
<1>1. ToolInv => OnlyKillsLeaveLitter
  BY DEF ToolInv, CallOK, InsideOfAnother, OnlyKillsLeaveLitter
<1> QED BY <1>1, ToolInvariant, PTL

\* Only a call killed, or failing, between its mv and its ln leaves a release in
\* place with nothing selected (download-cosmocc.sh:106-111).
THEOREM OnlyCrashesLeaveUnlinked == ToolchainSpec => []UnlinkedAfterACrash
<1>1. ToolInv => UnlinkedAfterACrash
  BY DEF ToolInv
<1> QED BY <1>1, ToolInvariant, PTL
\* Nobody is given half a toolchain, by name or as current, whatever calls
\* overlap, fail or are killed (download-cosmocc.sh:97-111, Makefile:33).
THEOREM WholeToolchains == ToolchainSpec => []ReadyToolchainsAreWhole
<1>1. PlacedIsWhole /\ ReadyIsPlaced => ReadyToolchainsAreWhole
  BY DEF ReadyToolchainsAreWhole
<1> QED BY <1>1, OnlyWholeToolchains, ReadyMeansPlaced, PTL

\* Every temporary directory left, every tree inside another and every release
\* nobody has selected goes back to a kill, a failure or two calls for one release
\* (download-cosmocc.sh:87-91, :106-111).
THEOREM WreckageExplained == ToolchainSpec => []WreckageIsExplained
<1>1. OnlyKillsLeaveLitter /\ UnlinkedAfterACrash => WreckageIsExplained
  BY DEF WreckageIsExplained
<1> QED BY <1>1, LitterIsExplained, OnlyCrashesLeaveUnlinked, PTL

-----------------------------------------------------------------------------
(* Runs that overlap. *)

ScriptStates ==
  [pc : {"off", "parse", "open", "write", "diff", "verdict"}, verify : BOOLEAN,
   version : SpecVersions, at : DOMAIN OutputList, buffer : Nat \ {0}, differs : BOOLEAN]

LEMMA TwoRunsFacts ==
  /\ SpecVersions \subseteq Nat \ {0} /\ Committed \in SpecVersions
  /\ \A v \in SpecVersions : Buffers[v] \in Nat \ {0} /\ Buffers[v] >= 1
  /\ 1 \in DOMAIN OutputList /\ Len(OutputList) \in Nat
  /\ \A i \in DOMAIN OutputList : i \in Nat \ {0} /\ OutputList[i] \in GenOutputs
  /\ \A i \in DOMAIN OutputList : i # Len(OutputList) => i + 1 \in DOMAIN OutputList
BY TwoRunsAssumption DEF SpecVersions, Committed, GenOutputs

\* Writing the k-th buffer keeps the others, and the file gets no shorter.
LEMMA OverwrittenIs ==
  ASSUME NEW S, NEW file \in Seq(S), NEW k \in Nat \ {0}, NEW v \in S, Hole \in S
  PROVE  LET new == Overwritten(file, k, v)
         IN /\ new \in Seq(S) /\ Len(new) >= Len(file) /\ Len(new) >= k
            /\ Len(new) \in {k, Len(file)}
            /\ \A j \in 1..Len(new) :
                 new[j] = IF j = k THEN v ELSE IF j <= Len(file) THEN file[j] ELSE Hole
<1> DEFINE n == IF k > Len(file) THEN k ELSE Len(file)
           new == Overwritten(file, k, v)
<1>1. n \in Nat /\ n >= k /\ n >= Len(file) /\ n \in {k, Len(file)}
  OBVIOUS
<1>2. new = [j \in 1..n |-> IF j = k THEN v ELSE IF j <= Len(file) THEN file[j] ELSE Hole]
  BY DEF Overwritten
<1>3. \A j \in 1..n : (IF j = k THEN v ELSE IF j <= Len(file) THEN file[j] ELSE Hole) \in S
  OBVIOUS
<1> HIDE DEF n, new
<1>4. new \in Seq(S) /\ Len(new) = n
  BY <1>1, <1>2, <1>3
<1>5. QED BY <1>1, <1>2, <1>4 DEF new

LEMMA MadeIs ==
  ASSUME NEW v \in SpecVersions
  PROVE  /\ Made(v) \in Seq({Hole} \cup SpecVersions) /\ Len(Made(v)) = Buffers[v]
         /\ \A k \in 1..Buffers[v] : Made(v)[k] = v
<1> DEFINE n == Buffers[v]
<1>1. n \in Nat
  BY TwoRunsFacts
<1>2. Made(v) = [k \in 1..n |-> v]
  BY DEF Made
<1> HIDE DEF n
<1>3. Made(v) \in Seq({Hole} \cup SpecVersions) /\ Len(Made(v)) = n
  BY <1>1, <1>2
<1>4. QED BY <1>2, <1>3 DEF n

\* All that is in an output was put there by runs that had it open together, and the
\* one that opened it last has written the buffers before the one it is at.
OutputInv(o) ==
  LET vs == opened[o].versions
  IN /\ vs # {} /\ \A v \in vs : v <= specNow
     /\ \A q \in Scripts : HasOpen(q, o) => scripts[q].version \in vs
     /\ \A j \in 1..Len(disk[o]) :
          disk[o][j] \in vs \cup {Hole} /\ \E v \in vs : j <= Buffers[v]
     /\ \A q \in Scripts : HasOpen(q, o) /\ opened[o].last = q /\ ~opened[o].closed =>
          /\ scripts[q].buffer - 1 <= Len(disk[o])
          /\ \A k \in 1..(scripts[q].buffer - 1) : disk[o][k] \in vs
     /\ opened[o].closed =>
          \E v \in vs : Len(disk[o]) >= Buffers[v] /\
            \A k \in 1..Buffers[v] : disk[o][k] \in vs

RunsInv ==
  /\ TwoRunsTypeOK
  /\ \A p \in Scripts : /\ scripts[p].pc # "write" => scripts[p].buffer = 1
                        /\ scripts[p].version <= specNow
  /\ \A o \in GenOutputs : OutputInv(o)

LEMMA RunsInit == TwoRunsInit => RunsInv
<1> SUFFICES ASSUME TwoRunsInit PROVE RunsInv
  OBVIOUS
<1> USE TwoRunsFacts
<1>1. /\ Made(Committed) \in Seq({Hole} \cup SpecVersions)
      /\ Len(Made(Committed)) = Buffers[Committed]
      /\ \A k \in 1..Buffers[Committed] : Made(Committed)[k] = Committed
  BY MadeIs
<1>2. TwoRunsTypeOK
  BY <1>1, TwoRunsAssumption DEF TwoRunsInit, TwoRunsTypeOK, Stopped
<1>3. ASSUME NEW o \in GenOutputs PROVE OutputInv(o)
  <2>1. disk[o] = Made(Committed) /\ opened[o].versions = {Committed} /\ specNow = Committed
    BY DEF TwoRunsInit
  <2>2. \A q \in Scripts : ~HasOpen(q, o)
    BY DEF TwoRunsInit, HasOpen, Stopped
  <2>3. \A j \in 1..Len(disk[o]) : disk[o][j] = Committed /\ j <= Buffers[Committed]
    BY <1>1, <2>1
  <2>4. Len(disk[o]) = Buffers[Committed] /\ Buffers[Committed] \in Nat
    BY <1>1, <2>1
  <2>5. QED BY <2>1, <2>2, <2>3, <2>4 DEF OutputInv, Committed
<1>4. QED BY <1>2, <1>3 DEF RunsInv, TwoRunsInit, Stopped

\* A step that leaves an output alone and opens it for nobody.
LEMMA OutputUntouched ==
  ASSUME NEW o \in GenOutputs, OutputInv(o),
         disk'[o] = disk[o], opened'[o] = opened[o], specNow \in Nat, specNow' \in Nat,
         opened[o].versions \subseteq Nat,
         specNow' >= specNow,
         \A q \in Scripts : HasOpen(q, o)' => /\ HasOpen(q, o)
                              /\ scripts'[q].version = scripts[q].version
                              /\ scripts'[q].buffer = scripts[q].buffer
  PROVE  OutputInv(o)'
BY DEF OutputInv

\* A run writes a buffer: who has the output open, and at which version, stays.
LEMMA OutputWritten ==
  ASSUME RunsInv, NEW p \in Scripts, NEW o \in GenOutputs, HasOpen(p, o),
         disk'[o] = Overwritten(disk[o], scripts[p].buffer, scripts[p].version),
         opened'[o].versions = opened[o].versions, opened'[o].last = opened[o].last,
         specNow' = specNow,
         \A q \in Scripts : HasOpen(q, o)' =>
           /\ HasOpen(q, o) /\ scripts'[q].version = scripts[q].version
           /\ scripts'[q].buffer = IF q = p THEN scripts[q].buffer + 1 ELSE scripts[q].buffer,
         opened[o].closed => opened'[o].closed,
         opened'[o].closed /\ ~opened[o].closed =>
           opened[o].last = p /\ scripts[p].buffer = Buffers[scripts[p].version]
  PROVE  OutputInv(o)' /\ disk'[o] \in Seq({Hole} \cup SpecVersions)
<1> DEFINE b == scripts[p].buffer
           w == scripts[p].version
           vs == opened[o].versions
<1>1. /\ b \in Nat \ {0} /\ w \in SpecVersions /\ b <= Buffers[w] /\ Buffers[w] \in Nat
      /\ disk[o] \in Seq({Hole} \cup SpecVersions) /\ vs \subseteq SpecVersions
      /\ \A v \in SpecVersions : Buffers[v] \in Nat \ {0}
      /\ \A q \in Scripts : scripts[q].buffer \in Nat \ {0}
  BY TwoRunsFacts DEF RunsInv, TwoRunsTypeOK
<1>2. OutputInv(o) /\ w \in vs
  BY DEF RunsInv, OutputInv
<1>3. /\ disk'[o] \in Seq({Hole} \cup SpecVersions) /\ Len(disk'[o]) >= Len(disk[o])
      /\ Len(disk'[o]) >= b /\ Len(disk'[o]) \in {b, Len(disk[o])}
      /\ Len(disk'[o]) \in Nat /\ Len(disk[o]) \in Nat
      /\ \A j \in 1..Len(disk'[o]) :
           disk'[o][j] = IF j = b THEN w ELSE IF j <= Len(disk[o]) THEN disk[o][j] ELSE Hole
  <2> DEFINE S == {Hole} \cup SpecVersions
  <2>1. disk[o] \in Seq(S) /\ b \in Nat \ {0} /\ w \in S /\ Hole \in S
    BY <1>1
  <2>2. disk'[o] = Overwritten(disk[o], b, w)
    OBVIOUS
  <2> HIDE DEF S, b, w
  <2>3. LET new == Overwritten(disk[o], b, w)
        IN /\ new \in Seq(S) /\ Len(new) >= Len(disk[o]) /\ Len(new) >= b
           /\ Len(new) \in {b, Len(disk[o])}
           /\ \A j \in 1..Len(new) :
                new[j] = IF j = b THEN w ELSE IF j <= Len(disk[o]) THEN disk[o][j] ELSE Hole
    BY <2>1, OverwrittenIs
  <2>4. Len(disk[o]) \in Nat /\ Len(disk'[o]) \in Nat
    BY <2>1, <2>2, <2>3
  <2>5. QED BY <2>2, <2>3, <2>4 DEF S
<1>4. \A j \in 1..Len(disk'[o]) :
        disk'[o][j] \in vs \cup {Hole} /\ \E v \in vs : j <= Buffers[v]
  <2> SUFFICES ASSUME NEW j \in 1..Len(disk'[o])
               PROVE  disk'[o][j] \in vs \cup {Hole} /\ \E v \in vs : j <= Buffers[v]
    OBVIOUS
  <2>1. CASE j <= Len(disk[o])
    <3>1. j \in 1..Len(disk[o])
      BY <1>3, <2>1
    <3>2. disk[o][j] \in vs \cup {Hole} /\ \E v \in vs : j <= Buffers[v]
      BY <1>2, <3>1 DEF OutputInv
    <3>3. QED BY <1>2, <1>3, <3>1, <3>2
  <2>2. CASE ~(j <= Len(disk[o]))
    BY <1>1, <1>2, <1>3, <2>2
  <2>3. QED BY <2>1, <2>2
<1>5. \A n \in Nat : n <= Len(disk[o]) /\ (\A k \in 1..n : disk[o][k] \in vs)
                       => \A k \in 1..n : disk'[o][k] \in vs
  BY <1>2, <1>3
<1>6. ASSUME NEW q \in Scripts, HasOpen(q, o)', opened'[o].last = q, ~opened'[o].closed
      PROVE  /\ scripts'[q].buffer - 1 <= Len(disk'[o])
             /\ \A k \in 1..(scripts'[q].buffer - 1) : disk'[o][k] \in vs
  <2>1. /\ scripts[q].buffer - 1 <= Len(disk[o]) /\ scripts[q].buffer - 1 \in Nat
        /\ \A k \in 1..(scripts[q].buffer - 1) : disk[o][k] \in vs
    BY <1>1, <1>2, <1>6 DEF OutputInv
  <2>2. \A k \in 1..(scripts[q].buffer - 1) : disk'[o][k] \in vs
    BY <1>5, <2>1
  <2>3. CASE q = p
    <3>1. scripts'[q].buffer - 1 = b /\ scripts[q].buffer - 1 = b - 1
      BY <1>1, <1>6, <2>3
    <3>2. b \in 1..Len(disk'[o]) /\ disk'[o][b] = w
      BY <1>1, <1>3
    <3>3. \A k \in 1..b : k = b \/ k \in 1..(b - 1)
      BY <1>1
    <3>4. QED BY <1>2, <1>3, <2>2, <3>1, <3>2, <3>3
  <2>4. CASE q # p
    BY <1>1, <1>3, <1>6, <2>1, <2>2, <2>4
  <2>5. QED BY <2>3, <2>4
<1>7. ASSUME opened'[o].closed
      PROVE  \E v \in vs : Len(disk'[o]) >= Buffers[v] /\
               \A k \in 1..Buffers[v] : disk'[o][k] \in vs
  <2>1. CASE opened[o].closed
    <3>1. PICK v \in vs : Len(disk[o]) >= Buffers[v] /\
                            \A k \in 1..Buffers[v] : disk[o][k] \in vs
      BY <1>2, <2>1 DEF OutputInv
    <3>2. \A k \in 1..Buffers[v] : disk'[o][k] \in vs
      BY <1>1, <1>5, <3>1
    <3>3. QED BY <1>1, <1>3, <3>1, <3>2
  <2>2. CASE ~opened[o].closed
    <3>1. /\ b - 1 <= Len(disk[o]) /\ b - 1 \in Nat /\ b = Buffers[w]
          /\ \A k \in 1..(b - 1) : disk[o][k] \in vs
      BY <1>1, <1>2, <1>7, <2>2 DEF OutputInv
    <3>2. \A k \in 1..(b - 1) : disk'[o][k] \in vs
      BY <1>5, <3>1
    <3>3. Len(disk'[o]) >= Buffers[w] /\ \A k \in 1..Buffers[w] : disk'[o][k] \in vs
      BY <1>1, <1>2, <1>3, <3>1, <3>2
    <3>4. QED BY <1>2, <3>3
  <2>3. QED BY <2>1, <2>2
<1>8. vs # {} /\ \A v \in vs : v <= specNow'
  BY <1>2 DEF OutputInv
<1>9. \A q \in Scripts : HasOpen(q, o)' => scripts'[q].version \in vs
  BY <1>2 DEF OutputInv
<1>10. QED BY <1>3, <1>4, <1>6, <1>7, <1>8, <1>9 DEF OutputInv

\* A step of p that leaves the outputs alone and ends outside of them.
LEMMA RunsElsewhere ==
  ASSUME RunsInv, NEW p \in Scripts, NEW r \in ScriptStates,
         r.pc # "write", r.buffer = 1, r.version <= specNow,
         scripts' = [scripts EXCEPT ![p] = r],
         starts' \in 0..MaxStarts, UNCHANGED <<specNow, disk, opened>>
  PROVE  RunsInv'
<1> USE TwoRunsFacts
<1>1. scripts' \in [Scripts -> ScriptStates] /\ scripts'[p] = r
      /\ \A q \in Scripts \ {p} : scripts'[q] = scripts[q]
  BY DEF RunsInv, TwoRunsTypeOK, ScriptStates
<1>2. \A q \in Scripts : scripts'[q].buffer <= Buffers[scripts'[q].version]
  <2>1. r.version \in SpecVersions
    BY DEF ScriptStates
  <2>2. scripts'[p].buffer <= Buffers[scripts'[p].version]
    <3>1. Buffers[r.version] >= 1
      BY <2>1
    <3>2. QED BY <1>1, <3>1
  <2>3. \A q \in Scripts \ {p} : scripts'[q].buffer <= Buffers[scripts'[q].version]
    BY <1>1 DEF RunsInv, TwoRunsTypeOK
  <2>4. QED BY <2>2, <2>3
<1>3. TwoRunsTypeOK'
  BY <1>1, <1>2 DEF RunsInv, TwoRunsTypeOK, ScriptStates
<1>4. ASSUME NEW o \in GenOutputs PROVE OutputInv(o)'
  <2>1. \A q \in Scripts : HasOpen(q, o)' => HasOpen(q, o) /\ scripts'[q] = scripts[q]
    BY <1>1 DEF HasOpen, Output
  <2>2. specNow \in Nat /\ opened[o].versions \subseteq Nat
    BY DEF RunsInv, TwoRunsTypeOK
  <2>3. OutputInv(o)
    BY DEF RunsInv
  <2>4. QED BY <2>1, <2>2, <2>3, OutputUntouched
<1>5. \A q \in Scripts : /\ scripts'[q].pc # "write" => scripts'[q].buffer = 1
                         /\ scripts'[q].version <= specNow'
  BY <1>1 DEF RunsInv
<1>6. QED BY <1>3, <1>4, <1>5 DEF RunsInv

LEMMA StoppedIs ==
  /\ Stopped \in ScriptStates /\ Stopped.pc = "off" /\ Stopped.buffer = 1
  /\ Stopped.version = Committed
BY TwoRunsFacts DEF Stopped, ScriptStates

LEMMA RunsStart ==
  ASSUME RunsInv, NEW p \in Scripts, NEW verify \in BOOLEAN, StartScript(p, verify)
  PROVE  RunsInv'
<1> DEFINE r == [Stopped EXCEPT !.pc = "parse", !.verify = verify]
<1>1. /\ r \in ScriptStates /\ r.pc = "parse" /\ r.buffer = 1 /\ r.version = Committed
  BY TwoRunsFacts DEF Stopped, ScriptStates
<1>2. Committed <= specNow
  BY TwoRunsFacts DEF RunsInv, TwoRunsTypeOK, Committed
<1>3. starts' \in 0..MaxStarts
  BY TwoRunsAssumption DEF StartScript, RunsInv, TwoRunsTypeOK
<1>4. scripts' = [scripts EXCEPT ![p] = r] /\ UNCHANGED <<specNow, disk, opened>>
  BY DEF StartScript
<1> HIDE DEF r
<1>5. QED BY <1>1, <1>2, <1>3, <1>4, RunsElsewhere

LEMMA RunsParse ==
  ASSUME RunsInv, NEW p \in Scripts, ParseNow(p)
  PROVE  RunsInv'
<1> DEFINE r == [scripts[p] EXCEPT !.pc = "open", !.version = specNow]
<1>1. /\ scripts[p] \in ScriptStates /\ scripts[p].buffer = 1 /\ specNow \in SpecVersions
  BY DEF ParseNow, RunsInv, TwoRunsTypeOK, ScriptStates
<1>2. /\ r \in ScriptStates /\ r.pc = "open" /\ r.buffer = 1 /\ r.version = specNow
      /\ specNow <= specNow
  <2>1. specNow \in Nat
    BY <1>1, TwoRunsFacts
  <2>2. specNow <= specNow
    BY <2>1
  <2>3. r \in ScriptStates /\ r.pc = "open" /\ r.buffer = 1 /\ r.version = specNow
    BY <1>1 DEF ScriptStates
  <2>4. QED BY <2>2, <2>3
<1>3. /\ scripts' = [scripts EXCEPT ![p] = r]
      /\ starts' \in 0..MaxStarts /\ UNCHANGED <<specNow, disk, opened>>
  BY DEF ParseNow, RunsInv, TwoRunsTypeOK
<1> HIDE DEF r
<1>4. QED BY <1>2, <1>3, RunsElsewhere

LEMMA RunsDiff ==
  ASSUME RunsInv, NEW p \in Scripts, DiffOutput(p)
  PROVE  RunsInv'
<1> DEFINE r == [scripts[p] EXCEPT
                   !.differs = @ \/ disk[Output(p)] # Made(Committed),
                   !.at = IF LastOutput(p) THEN @ ELSE @ + 1,
                   !.pc = IF LastOutput(p) THEN "verdict" ELSE @]
<1>1. (IF LastOutput(p) THEN scripts[p].at ELSE scripts[p].at + 1) \in DOMAIN OutputList
  BY TwoRunsFacts DEF LastOutput, RunsInv, TwoRunsTypeOK
<1>2. /\ r \in ScriptStates /\ r.pc # "write" /\ r.buffer = 1 /\ r.version <= specNow
  BY <1>1 DEF DiffOutput, RunsInv, TwoRunsTypeOK, ScriptStates
<1>3. /\ scripts' = [scripts EXCEPT ![p] = r]
      /\ starts' \in 0..MaxStarts /\ UNCHANGED <<specNow, disk, opened>>
  BY DEF DiffOutput, RunsInv, TwoRunsTypeOK
<1> HIDE DEF r
<1>4. QED BY <1>2, <1>3, RunsElsewhere

LEMMA RunsEnd ==
  ASSUME RunsInv, NEW p \in Scripts, ExitScript(p) \/ KillScript(p)
  PROVE  RunsInv'
<1>1. Committed <= specNow
  BY TwoRunsFacts DEF RunsInv, TwoRunsTypeOK, Committed
<1>2. /\ scripts' = [scripts EXCEPT ![p] = Stopped]
      /\ starts' \in 0..MaxStarts /\ UNCHANGED <<specNow, disk, opened>>
  BY DEF ExitScript, KillScript, RunsInv, TwoRunsTypeOK
<1>3. QED BY <1>1, <1>2, StoppedIs, RunsElsewhere

LEMMA RunsEdit == ASSUME RunsInv, EditSpecNow PROVE RunsInv'
<1> USE TwoRunsFacts
<1>1. TwoRunsTypeOK' /\ specNow' >= specNow /\ specNow \in Nat /\ specNow' \in Nat
  BY DEF EditSpecNow, RunsInv, TwoRunsTypeOK
<1>2. ASSUME NEW o \in GenOutputs PROVE OutputInv(o)'
  <2>1. \A q \in Scripts : HasOpen(q, o)' => HasOpen(q, o) /\ scripts'[q] = scripts[q]
    BY DEF EditSpecNow, HasOpen, Output
  <2>2. opened[o].versions \subseteq Nat /\ OutputInv(o)
    BY DEF RunsInv, TwoRunsTypeOK
  <2>3. disk'[o] = disk[o] /\ opened'[o] = opened[o]
    BY DEF EditSpecNow
  <2>4. QED BY <1>1, <2>1, <2>2, <2>3, OutputUntouched
<1>3. \A q \in Scripts : scripts[q].version \in Nat
  BY DEF RunsInv, TwoRunsTypeOK
<1>4. QED BY <1>1, <1>2, <1>3 DEF EditSpecNow, RunsInv

\* The output p is at is one of the specification's.
LEMMA OutputIs ==
  ASSUME RunsInv, NEW p \in Scripts
  PROVE  Output(p) \in GenOutputs /\ scripts[p] \in ScriptStates
BY TwoRunsFacts DEF Output, RunsInv, TwoRunsTypeOK, ScriptStates

LEMMA RunsOpen ==
  ASSUME RunsInv, NEW p \in Scripts, OpenOutput(p)
  PROVE  RunsInv'
<1> USE TwoRunsFacts, OutputIs
<1> SUFFICES ASSUME NEW o \in GenOutputs, o = Output(p) PROVE RunsInv'
  OBVIOUS
<1> DEFINE r == [scripts[p] EXCEPT !.pc = "write", !.buffer = 1]
           v == scripts[p].version
<1>1. /\ r \in ScriptStates /\ r.buffer = 1 /\ r.version = v /\ r.at = scripts[p].at
      /\ v \in SpecVersions /\ scripts[p].pc = "open" /\ r.pc = "write"
  BY DEF OpenOutput, ScriptStates
<1>2. scripts' = [scripts EXCEPT ![p] = r]
  BY DEF OpenOutput
<1> HIDE DEF r
<1>3. /\ scripts' \in [Scripts -> ScriptStates] /\ scripts'[p] = r
      /\ \A q \in Scripts \ {p} : scripts'[q] = scripts[q]
  BY <1>1, <1>2 DEF RunsInv, TwoRunsTypeOK, ScriptStates
<1>4. /\ Opening(p, o, v) \in [last : Scripts \cup {"nobody"}, closed : BOOLEAN,
                               versions : SUBSET SpecVersions]
      /\ opened[o].versions \subseteq SpecVersions
  BY <1>1 DEF Opening, RunsInv, TwoRunsTypeOK
<1>5. /\ disk' = [disk EXCEPT ![o] = <<>>] /\ opened' = [opened EXCEPT ![o] = Opening(p, o, v)]
      /\ specNow' = specNow /\ starts' = starts
  BY DEF OpenOutput
<1>6. \A q \in Scripts : scripts'[q].buffer <= Buffers[scripts'[q].version]
  BY <1>1, <1>3 DEF RunsInv, TwoRunsTypeOK
<1>7. TwoRunsTypeOK'
  <2>1. disk' \in [GenOutputs -> Seq({Hole} \cup SpecVersions)]
    BY <1>5 DEF RunsInv, TwoRunsTypeOK
  <2>2. opened' \in [GenOutputs -> [last : Scripts \cup {"nobody"}, closed : BOOLEAN,
                                    versions : SUBSET SpecVersions]]
    BY <1>4, <1>5 DEF RunsInv, TwoRunsTypeOK
  <2>3. QED BY <1>3, <1>5, <1>6, <2>1, <2>2 DEF RunsInv, TwoRunsTypeOK, ScriptStates
<1>8. \A x \in GenOutputs, q \in Scripts : HasOpen(q, x)' =>
        \/ q = p /\ x = o
        \/ q # p /\ HasOpen(q, x) /\ scripts'[q] = scripts[q]
  BY <1>1, <1>3 DEF HasOpen, Output
<1>9. OutputInv(o)'
  <2>1. /\ disk'[o] = <<>> /\ opened'[o] = Opening(p, o, v) /\ v \in opened'[o].versions
        /\ ~opened'[o].closed
    BY <1>5 DEF Opening, RunsInv, TwoRunsTypeOK
  <2>2. v <= specNow
    BY DEF RunsInv
  <2>3. \A x \in opened'[o].versions : x <= specNow
    BY <2>1, <2>2 DEF Opening, RunsInv, OutputInv
  <2>4. \A q \in Scripts : HasOpen(q, o)' => scripts'[q].version \in opened'[o].versions
    <3> SUFFICES ASSUME NEW q \in Scripts, HasOpen(q, o)', q # p
                 PROVE  scripts[q].version \in opened'[o].versions
      BY <1>1, <1>3, <1>8, <2>1
    <3>1. HasOpen(q, o)
      BY <1>8
    <3>2. scripts[q].version \in opened[o].versions
      BY <3>1 DEF RunsInv, OutputInv
    <3>3. QED BY <2>1, <3>1, <3>2 DEF Opening
  <2>5. \A q \in Scripts : HasOpen(q, o)' /\ opened'[o].last = q =>
          scripts'[q].buffer = 1
    BY <1>1, <1>3, <2>1 DEF Opening
  <2>6. QED BY <1>5, <2>1, <2>3, <2>4, <2>5 DEF OutputInv
<1>10. ASSUME NEW x \in GenOutputs, x # o PROVE OutputInv(x)'
  <2>1. disk'[x] = disk[x] /\ opened'[x] = opened[x]
    BY <1>5, <1>10 DEF RunsInv, TwoRunsTypeOK
  <2>2. specNow \in Nat /\ opened[x].versions \subseteq Nat /\ OutputInv(x)
    BY DEF RunsInv, TwoRunsTypeOK
  <2>3. \A q \in Scripts : HasOpen(q, x)' => HasOpen(q, x) /\ scripts'[q] = scripts[q]
    BY <1>8, <1>10
  <2>4. QED BY <1>5, <2>1, <2>2, <2>3, OutputUntouched
<1>11. \A q \in Scripts : /\ scripts'[q].pc # "write" => scripts'[q].buffer = 1
                          /\ scripts'[q].version <= specNow'
  BY <1>1, <1>3, <1>5 DEF RunsInv
<1>12. QED BY <1>7, <1>9, <1>10, <1>11 DEF RunsInv

LEMMA RunsWrite ==
  ASSUME RunsInv, NEW p \in Scripts, Flush(p) \/ CloseOutput(p)
  PROVE  RunsInv'
<1> USE TwoRunsFacts, OutputIs
<1> SUFFICES ASSUME NEW o \in GenOutputs, o = Output(p) PROVE RunsInv'
  OBVIOUS
<1> DEFINE flushed == [scripts[p] EXCEPT !.buffer = @ + 1]
           ended == [scripts[p] EXCEPT !.buffer = 1,
                       !.at = IF LastOutput(p) THEN 1 ELSE @ + 1,
                       !.pc = IF ~LastOutput(p) THEN "open"
                              ELSE IF scripts[p].verify THEN "diff" ELSE "off"]
           r == IF Flush(p) THEN flushed ELSE ended
<1>1. (IF LastOutput(p) THEN 1 ELSE scripts[p].at + 1) \in DOMAIN OutputList
  BY DEF LastOutput, ScriptStates
<1>2. /\ r \in ScriptStates /\ r.version = scripts[p].version
      /\ r.buffer <= Buffers[r.version]
      /\ r.pc = "write" => r.at = scripts[p].at /\ r.buffer = scripts[p].buffer + 1
      /\ r.pc # "write" => r.buffer = 1
  <2>1. CASE Flush(p)
    <3>1. /\ r = flushed /\ scripts[p] \in ScriptStates /\ scripts[p].pc = "write"
          /\ scripts[p].buffer < Buffers[scripts[p].version]
      BY <2>1 DEF Flush
    <3>2. /\ scripts[p].version \in SpecVersions /\ scripts[p].buffer \in Nat \ {0}
          /\ scripts[p].buffer + 1 \in Nat \ {0}
      BY <3>1 DEF ScriptStates
    <3>3. /\ flushed \in ScriptStates /\ flushed.version = scripts[p].version
          /\ flushed.at = scripts[p].at /\ flushed.pc = "write"
          /\ flushed.buffer = scripts[p].buffer + 1
      BY <3>1, <3>2 DEF ScriptStates
    <3>4. Buffers[scripts[p].version] \in Nat
      BY <3>2
    <3>5. scripts[p].buffer + 1 <= Buffers[scripts[p].version]
      BY <3>1, <3>2, <3>4
    <3> HIDE DEF r, flushed
    <3>6. QED BY <3>1, <3>3, <3>5
  <2>2. CASE ~Flush(p)
    <3>1. r = ended /\ scripts[p] \in ScriptStates
      BY <2>2
    <3>2. /\ ended.buffer = 1 /\ ended.version = scripts[p].version
          /\ ended.pc \in {"open", "diff", "off"} /\ ended \in ScriptStates
      BY <1>1, <3>1 DEF ScriptStates
    <3> HIDE DEF r, ended
    <3>3. scripts[p].version \in SpecVersions
      BY <3>1 DEF ScriptStates
    <3>4. Buffers[scripts[p].version] >= 1
      BY <3>3
    <3>5. QED BY <3>1, <3>2, <3>4
  <2>3. QED BY <2>1, <2>2
<1>3. scripts' = [scripts EXCEPT ![p] = r]
  <2>1. CASE Flush(p)
    BY <2>1 DEF Flush
  <2>2. CASE ~Flush(p)
    BY <2>2 DEF CloseOutput
  <2>3. QED BY <2>1, <2>2
<1> HIDE DEF r
<1>4. /\ scripts' \in [Scripts -> ScriptStates] /\ scripts'[p] = r
      /\ \A q \in Scripts \ {p} : scripts'[q] = scripts[q]
  BY <1>2, <1>3 DEF RunsInv, TwoRunsTypeOK, ScriptStates
<1>5. /\ scripts[p].pc = "write" /\ specNow' = specNow /\ starts' = starts
      /\ disk' = [disk EXCEPT ![o] = Overwritten(disk[o], scripts[p].buffer, scripts[p].version)]
  BY DEF Flush, CloseOutput
<1>6. opened' = opened \/ (opened' = [opened EXCEPT ![o] = Closing(p, o)]
                             /\ scripts[p].buffer = Buffers[scripts[p].version])
  BY DEF Flush, CloseOutput
<1>7. /\ opened' \in [GenOutputs -> [last : Scripts \cup {"nobody"}, closed : BOOLEAN,
                                     versions : SUBSET SpecVersions]]
      /\ opened'[o].versions = opened[o].versions /\ opened'[o].last = opened[o].last
      /\ opened[o].closed => opened'[o].closed
      /\ opened'[o].closed /\ ~opened[o].closed =>
           opened[o].last = p /\ scripts[p].buffer = Buffers[scripts[p].version]
      /\ \A x \in GenOutputs : x # o => opened'[x] = opened[x]
  <2>1. opened \in [GenOutputs -> [last : Scripts \cup {"nobody"}, closed : BOOLEAN,
                                   versions : SUBSET SpecVersions]]
    BY DEF RunsInv, TwoRunsTypeOK
  <2>2. CASE opened' = opened
    BY <2>1, <2>2
  <2>3. CASE opened' # opened
    <3>1. PICK c \in BOOLEAN : /\ opened' = [opened EXCEPT ![o] = [@ EXCEPT !.closed = c]]
                               /\ opened[o].closed => c
                               /\ c /\ ~opened[o].closed => opened[o].last = p
      BY <1>6, <2>1, <2>3 DEF Closing
    <3>2. scripts[p].buffer = Buffers[scripts[p].version]
      BY <1>6, <2>3
    <3>3. opened'[o] = [opened[o] EXCEPT !.closed = c]
      BY <2>1, <3>1
    <3>4. opened'[o].closed = c /\ opened'[o].versions = opened[o].versions
            /\ opened'[o].last = opened[o].last
      BY <2>1, <3>3
    <3>5. /\ opened' \in [GenOutputs -> [last : Scripts \cup {"nobody"}, closed : BOOLEAN,
                                          versions : SUBSET SpecVersions]]
          /\ \A x \in GenOutputs : x # o => opened'[x] = opened[x]
      BY <2>1, <3>1
    <3>6. QED BY <3>1, <3>2, <3>4, <3>5
  <2>4. QED BY <2>2, <2>3
<1>8. \A x \in GenOutputs, q \in Scripts : HasOpen(q, x)' =>
        \/ q = p /\ x = o /\ scripts'[q].version = scripts[q].version
             /\ scripts'[q].buffer = scripts[q].buffer + 1
        \/ q # p /\ HasOpen(q, x) /\ scripts'[q] = scripts[q]
  BY <1>2, <1>4 DEF HasOpen, Output
<1>9. OutputInv(o)' /\ disk'[o] \in Seq({Hole} \cup SpecVersions)
  <2>1. HasOpen(p, o)
    BY <1>5 DEF HasOpen
  <2>2. disk'[o] = Overwritten(disk[o], scripts[p].buffer, scripts[p].version)
    BY <1>5 DEF RunsInv, TwoRunsTypeOK
  <2>3. \A q \in Scripts : HasOpen(q, o)' =>
           /\ HasOpen(q, o) /\ scripts'[q].version = scripts[q].version
           /\ scripts'[q].buffer = IF q = p THEN scripts[q].buffer + 1 ELSE scripts[q].buffer
    BY <1>8, <2>1
  <2>4. QED BY <1>5, <1>7, <2>1, <2>2, <2>3, OutputWritten
<1>10. ASSUME NEW x \in GenOutputs, x # o PROVE OutputInv(x)'
  <2>1. disk'[x] = disk[x] /\ opened'[x] = opened[x]
    BY <1>5, <1>7, <1>10 DEF RunsInv, TwoRunsTypeOK
  <2>2. specNow \in Nat /\ opened[x].versions \subseteq Nat /\ OutputInv(x)
    BY DEF RunsInv, TwoRunsTypeOK
  <2>3. \A q \in Scripts : HasOpen(q, x)' => HasOpen(q, x) /\ scripts'[q] = scripts[q]
    BY <1>8, <1>10
  <2>4. QED BY <1>5, <2>1, <2>2, <2>3, OutputUntouched
<1>11. disk' \in [GenOutputs -> Seq({Hole} \cup SpecVersions)]
  BY <1>5, <1>9 DEF RunsInv, TwoRunsTypeOK
<1>12. \A q \in Scripts : scripts'[q].buffer <= Buffers[scripts'[q].version]
  BY <1>2, <1>4 DEF RunsInv, TwoRunsTypeOK
<1>13. TwoRunsTypeOK'
  BY <1>4, <1>5, <1>7, <1>11, <1>12 DEF RunsInv, TwoRunsTypeOK, ScriptStates
<1>14. \A q \in Scripts : /\ scripts'[q].pc # "write" => scripts'[q].buffer = 1
                          /\ scripts'[q].version <= specNow'
  BY <1>2, <1>4, <1>5 DEF RunsInv
<1>15. QED BY <1>9, <1>10, <1>13, <1>14 DEF RunsInv

LEMMA RunsStep == RunsInv /\ [TwoRunsNext]_twoVars => RunsInv'
<1> SUFFICES ASSUME RunsInv, [TwoRunsNext]_twoVars PROVE RunsInv'
  OBVIOUS
<1>1. CASE UNCHANGED twoVars
  BY <1>1 DEF twoVars, RunsInv, TwoRunsTypeOK, OutputInv, HasOpen, Output
<1>2. CASE EditSpecNow
  BY <1>2, RunsEdit
<1>3. ASSUME NEW p \in Scripts, NEW verify \in BOOLEAN, StartScript(p, verify) PROVE RunsInv'
  BY <1>3, RunsStart
<1>4. ASSUME NEW p \in Scripts, ParseNow(p) PROVE RunsInv'
  BY <1>4, RunsParse
<1>5. ASSUME NEW p \in Scripts, OpenOutput(p) PROVE RunsInv'
  BY <1>5, RunsOpen
<1>6. ASSUME NEW p \in Scripts, Flush(p) \/ CloseOutput(p) PROVE RunsInv'
  BY <1>6, RunsWrite
<1>7. ASSUME NEW p \in Scripts, DiffOutput(p) PROVE RunsInv'
  BY <1>7, RunsDiff
<1>8. ASSUME NEW p \in Scripts, ExitScript(p) \/ KillScript(p) PROVE RunsInv'
  BY <1>8, RunsEnd
<1>9. QED BY <1>1, <1>2, <1>3, <1>4, <1>5, <1>6, <1>7, <1>8 DEF TwoRunsNext

\* What the invariant says of an output that is closed.
LEMMA ClosedOutputs ==
  ASSUME RunsInv, NEW o \in GenOutputs, opened[o].closed
  PROVE  /\ \A v \in SpecVersions : opened[o].versions = {v} => disk[o] = Made(v)
         /\ \E v \in opened[o].versions : Len(disk[o]) >= Buffers[v] /\
              \A k \in 1..Buffers[v] : disk[o][k] \in opened[o].versions
<1> USE TwoRunsFacts
<1>1. \E v \in opened[o].versions : Len(disk[o]) >= Buffers[v] /\
        \A k \in 1..Buffers[v] : disk[o][k] \in opened[o].versions
  BY DEF RunsInv, OutputInv
<1>2. ASSUME NEW v \in SpecVersions, opened[o].versions = {v} PROVE disk[o] = Made(v)
  <2>1. disk[o] \in Seq({Hole} \cup SpecVersions) /\ Len(disk[o]) \in Nat /\ Buffers[v] \in Nat
    BY DEF RunsInv, TwoRunsTypeOK
  <2>2. \A j \in 1..Len(disk[o]) : j <= Buffers[v]
    BY <1>2 DEF RunsInv, OutputInv
  <2>3. Len(disk[o]) >= Buffers[v] /\ \A k \in 1..Buffers[v] : disk[o][k] = v
    BY <1>1, <1>2
  <2>4. Len(disk[o]) = Buffers[v]
    <3>1. Buffers[v] >= 1
      OBVIOUS
    <3>2. Len(disk[o]) \in 1..Len(disk[o])
      BY <2>1, <2>3, <3>1
    <3>3. Len(disk[o]) <= Buffers[v]
      BY <2>2, <3>2
    <3>4. QED BY <2>1, <2>3, <3>3
  <2>5. disk[o] = [k \in 1..Len(disk[o]) |-> disk[o][k]]
    BY <2>1
  <2>6. QED BY <2>3, <2>4, <2>5 DEF Made
<1>3. QED BY <1>1, <1>2

LEMMA DriftStep == RunsInv /\ [TwoRunsNext]_twoVars => DriftNeedsAnOpenOutput
<1> SUFFICES ASSUME RunsInv, [TwoRunsNext]_twoVars, NEW p \in Scripts,
                    specNow = Committed, scripts'[p].differs, ~scripts[p].differs
             PROVE  ~opened[Output(p)].closed
  BY DEF DriftNeedsAnOpenOutput
<1> USE TwoRunsFacts, OutputIs
<1>1. scripts \in [Scripts -> ScriptStates]
  BY DEF RunsInv, TwoRunsTypeOK, ScriptStates
<1>2. DiffOutput(p)
  <2>1. TwoRunsNext /\ ~EditSpecNow
    BY DEF twoVars, EditSpecNow
  <2>2. PICK q \in Scripts :
          \/ \E verify \in BOOLEAN : StartScript(q, verify)
          \/ ParseNow(q) \/ OpenOutput(q) \/ Flush(q) \/ CloseOutput(q)
          \/ DiffOutput(q) \/ ExitScript(q) \/ KillScript(q)
    BY <2>1 DEF TwoRunsNext
  <2>3. ASSUME NEW t, scripts' = [scripts EXCEPT ![q] = t], t.differs => scripts[q].differs
        PROVE  FALSE
    <3>1. scripts'[p] = scripts[p] \/ (q = p /\ scripts'[p] = t)
      BY <1>1, <2>3
    <3>2. QED BY <2>3, <3>1
  <2>4. Stopped.differs = FALSE /\ scripts[q] \in ScriptStates
    BY <1>1 DEF Stopped
  <2>5. ASSUME NEW verify \in BOOLEAN PROVE ~StartScript(q, verify)
    BY <2>3 DEF StartScript, Stopped
  <2>6. ~ParseNow(q) /\ ~OpenOutput(q) /\ ~Flush(q) /\ ~CloseOutput(q)
    <3>1. ASSUME ParseNow(q) PROVE FALSE
      <4> DEFINE t == [scripts[q] EXCEPT !.pc = "open", !.version = specNow]
      <4>1. t.differs = scripts[q].differs
        BY <2>4 DEF ScriptStates
      <4>2. scripts' = [scripts EXCEPT ![q] = t]
        BY <3>1 DEF ParseNow
      <4> HIDE DEF t
      <4>3. QED BY <2>3, <4>1, <4>2
    <3>2. ASSUME OpenOutput(q) PROVE FALSE
      <4> DEFINE t == [scripts[q] EXCEPT !.pc = "write", !.buffer = 1]
      <4>1. t.differs = scripts[q].differs
        BY <2>4 DEF ScriptStates
      <4>2. scripts' = [scripts EXCEPT ![q] = t]
        BY <3>2 DEF OpenOutput
      <4> HIDE DEF t
      <4>3. QED BY <2>3, <4>1, <4>2
    <3>3. ~Flush(q)
      BY <2>3, <2>4 DEF Flush, ScriptStates
    <3>4. ~CloseOutput(q)
      BY <2>3, <2>4 DEF CloseOutput, ScriptStates
    <3>5. QED BY <3>1, <3>2, <3>3, <3>4
  <2>7. ~ExitScript(q) /\ ~KillScript(q)
    BY <2>3, <2>4 DEF ExitScript, KillScript
  <2>8. DiffOutput(q)
    BY <2>2, <2>5, <2>6, <2>7
  <2>9. q = p
    BY <1>1, <2>8 DEF DiffOutput
  <2>10. QED BY <2>8, <2>9
<1>3. disk[Output(p)] # Made(Committed)
  BY <1>1, <1>2 DEF DiffOutput, ScriptStates
<1>4. SUFFICES ASSUME opened[Output(p)].closed PROVE opened[Output(p)].versions = {Committed}
  BY <1>3, ClosedOutputs
<1>5. /\ opened[Output(p)].versions # {} /\ opened[Output(p)].versions \subseteq SpecVersions
      /\ \A v \in opened[Output(p)].versions : v <= Committed
  <2>1. Output(p) \in GenOutputs
    OBVIOUS
  <2>2. OutputInv(Output(p))
    BY <2>1 DEF RunsInv
  <2>3. opened[Output(p)].versions \subseteq SpecVersions
    BY <2>1 DEF RunsInv, TwoRunsTypeOK
  <2>4. /\ opened[Output(p)].versions # {}
        /\ \A v \in opened[Output(p)].versions : v <= specNow
    BY <2>2 DEF OutputInv
  <2>5. QED BY <2>3, <2>4
<1>6. ASSUME NEW v \in opened[Output(p)].versions PROVE v = Committed
  <2>1. v \in Nat \ {0} /\ v <= 1
    BY <1>5 DEF Committed
  <2>2. QED BY <2>1 DEF Committed
<1>7. QED BY <1>5, <1>6

\* Runs of regen-all.sh that overlap, any number of them over any outputs: the last to
\* open an output decides what is in it, and --verify takes nothing for drift but an
\* output that is open or was left open.
THEOREM OverlappingRuns == TwoRunsSpec => OverlapsAreHarmless
<1>1. RunsInv => LastToOpenWins
  BY ClosedOutputs DEF LastToOpenWins
<1>2. RunsInv' => LastToOpenWins'
  BY <1>1, PTL
<1>3. RunsInv /\ [TwoRunsNext]_twoVars => [LastToOpenWins' /\ DriftNeedsAnOpenOutput]_twoVars
  BY <1>2, RunsStep, DriftStep
<1>4. QED BY <1>3, RunsInit, RunsStep, PTL DEF TwoRunsSpec, OverlapsAreHarmless

-----------------------------------------------------------------------------
(* The committed types at work, whatever is written to their fields.       *)

Number == Int \X Int

\* The application writes any value the C type of a field can hold, not only those
\* of WorthWriting.
EditAny ==
  /\ edits < MaxEdits
  /\ edits' = edits + 1
  /\ \E i \in FieldsAt(typeAt) : \E v \in {n \in Number : HasKind(Structs(typeAt)[i], n)} :
       record' = [record EXCEPT ![i] = v]
  /\ UNCHANGED <<typeAt, document, sent, stored, reply, genCalls>>

AnyNext ==
  EditAny \/ Validate \/ ToJsonOk \/ ToJsonFails \/ FromJsonText \/ InsertRow \/ SelectRow

AnySpec == GenInit /\ [][AnyNext]_genVars

IsObject(at, obj) ==
  /\ obj \in [FieldsAt(at) -> Number]
  /\ \A i \in FieldsAt(at) : HasKind(Structs(at)[i], obj[i])

ReadFromJson(at, obj) == [i \in FieldsAt(at) |-> AsRead(JsonOf(at)[i], obj[i])]

ReadFromRow(at, obj) ==
  [i \in FieldsAt(at) |-> FromColumn(SqlOf(at).kinds[i], Structs(at)[i], obj[i])]

\* What the last call says of the object, the document and the row.
ReplyInv ==
  /\ reply.call \in {"none", "validate", "to_json", "from_json", "insert", "select_by_id"}
  /\ reply.ok \in BOOLEAN
  /\ reply.call = "validate" /\ edits = 0 =>
       (reply.ok <=> IsValid(typeAt, WithTexts(typeAt)))
  /\ reply.call = "from_json" =>
       HasOutputs(typeAt) /\ sent # <<>> /\ reply.filled = ReadFromJson(typeAt, sent)
  /\ reply.call = "select_by_id" =>
       /\ HasOutputs(typeAt) /\ stored # NoRow
       /\ reply.ok <=> Prepares(typeAt)
       /\ reply.filled = IF Prepares(typeAt) THEN ReadFromRow(typeAt, stored) ELSE <<>>
  /\ reply.call \notin {"from_json", "select_by_id"} => reply.filled = <<>>

GenInv ==
  /\ typeAt \in TypesOfGen /\ edits \in 0..MaxEdits /\ genCalls \in 0..MaxGenCalls
  /\ IsObject(typeAt, record)
  /\ edits = 0 => record = WithTexts(typeAt)
  /\ document = sent
  /\ sent = <<>> \/ IsObject(typeAt, sent)
  /\ stored = NoRow \/ IsObject(typeAt, stored)
  /\ ReplyInv

LEMMA TablesFitTogether ==
  ASSUME NEW at \in TypesOfGen
  PROVE  TablesFit(at)
BY TablesAssumption

\* A new object is one of its type, and valid but for a range without 0 on a field
\* without a default.
LEMMA FreshObject ==
  ASSUME NEW at \in TypesOfGen
  PROVE  /\ IsObject(at, WithTexts(at))
         /\ IsValid(at, WithTexts(at)) <=>
              ~ \E r \in ChecksOf(at).ranges :
                  /\ Below(Num(0), Num(r[2]))
                  /\ ~ \E d \in ChecksOf(at).defaults : d[1] = r[1]
<1> DEFINE kind == Structs(at)
           checks == ChecksOf(at)
           obj == WithTexts(at)
<1>1. /\ \A i \in FieldsAt(at) : kind[i] \in CTypes
      /\ \A i \in checks.required : i \in FieldsAt(at) /\ kind[i] = "char"
      /\ \A d \in checks.defaults :
           /\ d[1] \in FieldsAt(at) /\ d[2] \in Int
           /\ HasKind(kind[d[1]], Num(d[2]))
           /\ \A e \in checks.defaults : e[1] = d[1] => e = d
      /\ \A r \in checks.ranges :
           /\ r[1] \in FieldsAt(at) \ checks.required
           /\ r[2] \in Int /\ r[3] \in Nat
           /\ \A d \in checks.defaults : d[1] = r[1] => d[2] \in r[2]..r[3]
  BY TablesFitTogether DEF TablesFit
<1> HIDE DEF kind, checks
<1>2. /\ obj \in [FieldsAt(at) -> Number]
      /\ \A i \in FieldsAt(at) : HasKind(kind[i], obj[i])
      /\ \A i \in checks.required : obj[i] = Num(1)
      /\ \A d \in checks.defaults : d[1] \notin checks.required => obj[d[1]] = Num(d[2])
      /\ \A i \in FieldsAt(at) \ checks.required :
           (~ \E d \in checks.defaults : d[1] = i) => obj[i] = Num(0)
  <2>1. obj = [i \in FieldsAt(at) |-> IF i \in checks.required THEN Num(1) ELSE Initial(at)[i]]
    BY DEF WithTexts, checks
  <2>2. Initial(at) = [i \in FieldsAt(at) |->
                         IF \E d \in checks.defaults : d[1] = i
                         THEN Num((CHOOSE d \in checks.defaults : d[1] = i)[2])
                         ELSE Num(0)]
    BY DEF Initial, checks
  <2>3. \A d \in checks.defaults : Initial(at)[d[1]] = Num(d[2])
    <3> TAKE d \in checks.defaults
    <3> DEFINE e == CHOOSE e \in checks.defaults : e[1] = d[1]
    <3>1. e \in checks.defaults /\ e[1] = d[1]
      OBVIOUS
    <3>2. e = d
      BY <1>1, <3>1
    <3> QED BY <1>1, <2>2, <3>2
  <2>4. ASSUME NEW i \in FieldsAt(at)
        PROVE  Initial(at)[i] \in Number /\ HasKind(kind[i], Initial(at)[i])
    <3>1. CASE \E d \in checks.defaults : d[1] = i
      BY <1>1, <2>3, <3>1 DEF Number, Num
    <3>2. CASE ~ \E d \in checks.defaults : d[1] = i
      <4>1. Initial(at)[i] = Num(0)
        BY <2>2, <3>2
      <4> QED BY <1>1, <4>1 DEF Number, Num, HasKind, CTypes, Below
    <3> QED BY <3>1, <3>2
  <2>5. ASSUME NEW i \in FieldsAt(at)
        PROVE  obj[i] \in Number /\ HasKind(kind[i], obj[i])
    <3>1. CASE i \in checks.required
      BY <1>1, <2>1, <3>1 DEF Number, Num, HasKind
    <3>2. CASE i \notin checks.required
      BY <2>1, <2>4, <3>2
    <3> QED BY <3>1, <3>2
  <2> HIDE DEF obj
  <2> QED BY <1>1, <2>1, <2>2, <2>3, <2>5
<1>3. IsObject(at, obj)
  BY <1>2 DEF IsObject, kind
<1> HIDE DEF obj
<1>4. IsValid(at, obj) <=>
        \A r \in checks.ranges :
          ~ Below(obj[r[1]], Num(r[2])) /\ ~ Below(Num(r[3]), obj[r[1]])
  <2>1. \A i \in checks.required : obj[i] # Num(0)
    BY <1>2 DEF Num
  <2> QED BY <2>1 DEF IsValid, checks
<1>5. ASSUME NEW r \in checks.ranges
      PROVE  (~ Below(obj[r[1]], Num(r[2])) /\ ~ Below(Num(r[3]), obj[r[1]])) <=>
               ~ (/\ Below(Num(0), Num(r[2]))
                  /\ ~ \E d \in checks.defaults : d[1] = r[1])
  <2>1. r[1] \in FieldsAt(at) \ checks.required /\ r[2] \in Int /\ r[3] \in Nat
    BY <1>1
  <2>2. CASE \E d \in checks.defaults : d[1] = r[1]
    <3>1. PICK d \in checks.defaults : d[1] = r[1]
      BY <2>2
    <3>2. d[2] \in Int /\ d[2] \in r[2]..r[3] /\ obj[r[1]] = Num(d[2])
      BY <1>1, <1>2, <2>1, <3>1
    <3> QED BY <2>1, <2>2, <3>2 DEF Below, Num
  <2>3. CASE ~ \E d \in checks.defaults : d[1] = r[1]
    <3>1. obj[r[1]] = Num(0)
      BY <1>2, <2>1, <2>3
    <3>2. ~ Below(Num(r[3]), Num(0))
      BY <2>1 DEF Below, Num
    <3> QED BY <2>3, <3>1, <3>2
  <2> QED BY <2>2, <2>3
<1> QED BY <1>3, <1>4, <1>5 DEF checks, obj

\* An object that went through JSON is one of its type, the same but for an i64 beyond
\* an int, and as valid.
LEMMA JsonObject ==
  ASSUME NEW at \in TypesOfGen, HasOutputs(at), NEW obj, IsObject(at, obj)
  PROVE  /\ IsObject(at, ReadFromJson(at, obj))
         /\ \A i \in FieldsAt(at) :
              ReadFromJson(at, obj)[i] # obj[i] => Structs(at)[i] = "i64" /\ obj[i][1] # 0
         /\ IsValid(at, obj) => IsValid(at, ReadFromJson(at, obj))
<1> DEFINE kind == Structs(at)
           checks == ChecksOf(at)
           new == ReadFromJson(at, obj)
<1>1. /\ \A i \in FieldsAt(at) :
           /\ JsonOf(at)[i] = "int" => kind[i] \in {"u8", "i32", "i64"}
           /\ obj[i] \in Number /\ HasKind(kind[i], obj[i])
      /\ \A i \in checks.required : i \in FieldsAt(at) /\ kind[i] = "char"
      /\ \A r \in checks.ranges : r[1] \in FieldsAt(at) /\ r[2] \in Int /\ r[3] \in Nat
  BY TablesFitTogether DEF TablesFit, IsObject
<1> HIDE DEF kind, checks
<1>2. ASSUME NEW i \in FieldsAt(at)
      PROVE  /\ new[i] \in Number /\ HasKind(kind[i], new[i])
             /\ new[i] = obj[i] \/ (kind[i] = "i64" /\ obj[i][1] # 0)
  <2>1. new[i] = IF JsonOf(at)[i] = "int" THEN Num(obj[i][2]) ELSE obj[i]
    BY DEF ReadFromJson, AsRead
  <2>2. obj[i] = <<obj[i][1], obj[i][2]>> /\ obj[i][1] \in Int /\ obj[i][2] \in Int
    BY <1>1 DEF Number
  <2>3. CASE JsonOf(at)[i] = "int" /\ kind[i] = "i64"
    <3>1. new[i] \in Number /\ new[i] = <<0, obj[i][2]>>
      BY <2>1, <2>2, <2>3 DEF Number, Num
    <3>2. HasKind("i64", new[i])
      BY DEF HasKind
    <3> QED BY <2>2, <2>3, <3>1, <3>2
  <2>4. CASE JsonOf(at)[i] = "int" /\ kind[i] # "i64"
    <3>1. obj[i][1] = 0
      BY <1>1, <2>4 DEF HasKind
    <3>2. new[i] = obj[i]
      BY <2>1, <2>2, <2>4, <3>1 DEF Num
    <3> QED BY <1>1, <3>2
  <2>5. CASE JsonOf(at)[i] # "int"
    BY <1>1, <2>1, <2>5
  <2> QED BY <2>3, <2>4, <2>5
<1>3. IsObject(at, new)
  <2>1. new = [i \in FieldsAt(at) |-> new[i]]
    BY DEF ReadFromJson
  <2> HIDE DEF new
  <2> QED BY <1>2, <2>1 DEF IsObject, kind
<1> HIDE DEF new
<1>4. ASSUME IsValid(at, obj) PROVE IsValid(at, new)
  <2>1. ASSUME NEW i \in checks.required PROVE new[i] # Num(0)
    <3>1. obj[i] # Num(0)
      BY <1>4 DEF IsValid, checks
    <3> QED BY <1>1, <1>2, <3>1
  <2>2. ASSUME NEW r \in checks.ranges
        PROVE  ~ Below(new[r[1]], Num(r[2])) /\ ~ Below(Num(r[3]), new[r[1]])
    <3>1. ~ Below(obj[r[1]], Num(r[2])) /\ ~ Below(Num(r[3]), obj[r[1]])
      BY <1>4 DEF IsValid, checks
    <3>2. obj[r[1]][1] \in Int /\ r[2] \in Int /\ r[3] \in Nat
      BY <1>1 DEF Number
    <3>3. obj[r[1]][1] = 0
      BY <3>1, <3>2 DEF Below, Num
    <3>4. new[r[1]] = obj[r[1]]
      BY <1>1, <1>2, <3>3
    <3> QED BY <3>1, <3>4
  <2> QED BY <2>1, <2>2 DEF IsValid, checks
<1> QED BY <1>2, <1>3, <1>4 DEF new, kind

\* A row is read back as it was written where the type has an `id`.
LEMMA RowObject ==
  ASSUME NEW at \in TypesOfGen, HasOutputs(at), Prepares(at), NEW obj, IsObject(at, obj)
  PROVE  ReadFromRow(at, obj) = obj
<1>1. \A i \in FieldsAt(at) : Structs(at)[i] \in Keeps(SqlOf(at).kinds[i])
  BY TablesFitTogether DEF TablesFit, Prepares
<1>2. \A i \in FieldsAt(at) :
        FromColumn(SqlOf(at).kinds[i], Structs(at)[i], obj[i]) = obj[i]
  BY <1>1 DEF FromColumn
<1> QED BY <1>2 DEF ReadFromRow, IsObject

LEMMA GenInvInit == GenInit => GenInv
BY FreshObject, GenAssumption DEF GenInit, GenInv, ReplyInv, NoReply, NoRow

LEMMA GenInvStep ==
  ASSUME GenInv, [AnyNext]_genVars
  PROVE  GenInv'
<1>0. /\ typeAt \in TypesOfGen /\ edits \in 0..MaxEdits /\ genCalls \in 0..MaxGenCalls
      /\ MaxEdits \in Nat /\ MaxGenCalls \in Nat
      /\ IsObject(typeAt, record) /\ document = sent /\ ReplyInv
      /\ edits = 0 => record = WithTexts(typeAt)
      /\ sent = <<>> \/ IsObject(typeAt, sent)
      /\ stored = NoRow \/ IsObject(typeAt, stored)
  BY GenAssumption DEF GenInv
<1>call. ASSUME NEW name, NEW ok \in BOOLEAN, NEW filled, GenCall(name, ok, filled)
         PROVE  /\ genCalls' \in 0..MaxGenCalls /\ UNCHANGED <<typeAt, record, edits>>
                /\ reply'.call = name /\ reply'.ok = ok /\ reply'.filled = filled
  BY <1>0, <1>call DEF GenCall
<1>1. CASE EditAny
  <2>1. PICK i \in FieldsAt(typeAt), v \in Number :
          HasKind(Structs(typeAt)[i], v) /\ record' = [record EXCEPT ![i] = v]
    BY <1>1 DEF EditAny
  <2>2. /\ UNCHANGED <<typeAt, document, sent, stored, reply, genCalls>>
        /\ edits' = edits + 1 /\ edits < MaxEdits
    BY <1>1 DEF EditAny
  <2>3. IsObject(typeAt, record')
    BY <1>0, <2>1 DEF IsObject
  <2>4. edits' # 0 /\ edits' \in 0..MaxEdits
    BY <1>0, <2>2
  <2> QED BY <1>0, <2>2, <2>3, <2>4 DEF GenInv, ReplyInv
<1>2. CASE Validate
  <2> DEFINE ok == IsValid(typeAt, record)
  <2>1. GenCall("validate", ok, <<>>) /\ ok \in BOOLEAN
    BY <1>2 DEF Validate, IsValid
  <2>2. UNCHANGED <<document, sent, stored>>
    BY <1>2 DEF Validate
  <2>3. /\ genCalls' \in 0..MaxGenCalls /\ UNCHANGED <<typeAt, record, edits>>
        /\ reply'.call = "validate" /\ reply'.ok = ok /\ reply'.filled = <<>>
    BY <2>1, <1>call
  <2> QED BY <1>0, <2>1, <2>2, <2>3 DEF GenInv, ReplyInv
<1>3. CASE ToJsonOk
  <2>1. /\ genCalls' \in 0..MaxGenCalls /\ UNCHANGED <<typeAt, record, edits, stored>>
        /\ reply'.call = "to_json" /\ reply'.ok = TRUE /\ reply'.filled = <<>>
        /\ document' = record /\ sent' = record
    BY <1>3, <1>call DEF ToJsonOk
  <2> QED BY <1>0, <2>1 DEF GenInv, ReplyInv
<1>4. CASE ToJsonFails
  <2>1. /\ genCalls' \in 0..MaxGenCalls
        /\ UNCHANGED <<typeAt, record, edits, document, sent, stored>>
        /\ reply'.call = "to_json" /\ reply'.ok = FALSE /\ reply'.filled = <<>>
    BY <1>4, <1>call DEF ToJsonFails
  <2> QED BY <1>0, <2>1 DEF GenInv, ReplyInv
<1>5. CASE FromJsonText
  <2>1. /\ GenCall("from_json", TRUE, ReadFromJson(typeAt, document))
        /\ HasOutputs(typeAt) /\ document # <<>> /\ UNCHANGED <<document, sent, stored>>
    BY <1>5 DEF FromJsonText, ReadFromJson
  <2>2. /\ genCalls' \in 0..MaxGenCalls /\ UNCHANGED <<typeAt, record, edits>>
        /\ reply'.call = "from_json" /\ reply'.ok = TRUE
        /\ reply'.filled = ReadFromJson(typeAt, sent)
    BY <1>0, <1>call, <2>1
  <2> QED BY <1>0, <2>1, <2>2 DEF GenInv, ReplyInv
<1>6. CASE InsertRow
  <2>1. /\ genCalls' \in 0..MaxGenCalls /\ UNCHANGED <<typeAt, record, edits, document, sent>>
        /\ reply'.call = "insert" /\ reply'.ok = TRUE /\ reply'.filled = <<>>
        /\ stored' = record
    BY <1>6, <1>call DEF InsertRow
  <2> QED BY <1>0, <2>1 DEF GenInv, ReplyInv
<1>7. CASE SelectRow
  <2> DEFINE ok == Prepares(typeAt)
             row == IF Prepares(typeAt) THEN ReadFromRow(typeAt, stored) ELSE <<>>
  <2>1. /\ GenCall("select_by_id", ok, row) /\ ok \in BOOLEAN
        /\ HasOutputs(typeAt) /\ stored # NoRow /\ UNCHANGED <<document, sent, stored>>
    BY <1>7 DEF SelectRow, ReadFromRow, Prepares
  <2> HIDE DEF row
  <2>2. /\ genCalls' \in 0..MaxGenCalls /\ UNCHANGED <<typeAt, record, edits>>
        /\ reply'.call = "select_by_id" /\ reply'.ok = ok /\ reply'.filled = row
    BY <1>call, <2>1
  <2> QED BY <1>0, <2>1, <2>2 DEF GenInv, ReplyInv, row
<1>8. CASE UNCHANGED genVars
  BY <1>0, <1>8 DEF genVars, GenInv, ReplyInv
<1> QED BY <1>1, <1>2, <1>3, <1>4, <1>5, <1>6, <1>7, <1>8 DEF AnyNext

LEMMA GenInvImplies ==
  ASSUME GenInv
  PROVE  GenTypeOK /\ ObjectsComeBack
<1>0. /\ typeAt \in TypesOfGen /\ edits \in 0..MaxEdits /\ genCalls \in 0..MaxGenCalls
      /\ IsObject(typeAt, record) /\ ReplyInv
      /\ sent = <<>> \/ IsObject(typeAt, sent)
      /\ stored = NoRow \/ IsObject(typeAt, stored)
  BY DEF GenInv
<1>json. ASSUME reply.call = "from_json"
         PROVE  /\ HasOutputs(typeAt) /\ IsObject(typeAt, sent)
                /\ reply.filled = ReadFromJson(typeAt, sent)
  BY <1>0, <1>json DEF ReplyInv
<1>row. ASSUME reply.call = "select_by_id"
        PROVE  /\ HasOutputs(typeAt) /\ IsObject(typeAt, stored)
               /\ reply.ok <=> Prepares(typeAt)
               /\ Prepares(typeAt) => reply.filled = stored
               /\ ~ Prepares(typeAt) => reply.filled = <<>>
  BY <1>0, <1>row, RowObject DEF ReplyInv
<1>1. reply.filled = <<>> \/ IsObject(typeAt, reply.filled)
  <2>1. CASE reply.call = "from_json"
    BY <1>0, <1>json, <2>1, JsonObject
  <2>2. CASE reply.call = "select_by_id"
    BY <1>row, <2>2
  <2>3. CASE reply.call \notin {"from_json", "select_by_id"}
    BY <1>0, <2>3 DEF ReplyInv
  <2> QED BY <2>1, <2>2, <2>3
<1>2. GenTypeOK
  <2>1. \A obj : IsObject(typeAt, obj) =>
          /\ DOMAIN obj = FieldsAt(typeAt)
          /\ \A i \in FieldsAt(typeAt) : HasKind(Structs(typeAt)[i], obj[i])
    BY DEF IsObject
  <2>2. \A obj \in {record} \cup ({sent, stored, reply.filled} \ {<<>>}) :
          IsObject(typeAt, obj)
    BY <1>0, <1>1 DEF NoRow
  <2> QED BY <1>0, <2>1, <2>2 DEF GenTypeOK, ReplyInv
<1>3. FreshObjectsPass
  BY <1>0, FreshObject DEF FreshObjectsPass, ReplyInv
<1>4. JsonKeepsWhatFits
  BY <1>0, <1>json, JsonObject DEF JsonKeepsWhatFits
<1>5. ValidityTravels
  BY <1>0, <1>json, <1>row, JsonObject DEF ValidityTravels
<1>6. RowsComeBackWhole
  BY <1>row DEF RowsComeBackWhole, Prepares
<1> QED BY <1>2, <1>3, <1>4, <1>5, <1>6 DEF ObjectsComeBack

\* An edge of a C type is one of its values.
LEMMA EdgesAreNumbers ==
  ASSUME NEW kind \in CTypes
  PROVE  Edges(kind) \subseteq Number
BY DEF CTypes, Edges, Number, Num, MinInt, MaxInt, Infinity

LEMMA WritesAreNumbers ==
  ASSUME NEW at \in TypesOfGen, NEW i \in FieldsAt(at)
  PROVE  \A v \in WorthWriting(at, i) : v \in Number /\ HasKind(Structs(at)[i], v)
<1>1. /\ Structs(at)[i] \in CTypes
      /\ \A r \in ChecksOf(at).ranges : r[2] \in Int /\ r[3] \in Nat
  BY TablesFitTogether DEF TablesFit
<1>2. \A r \in ChecksOf(at).ranges :
        {Num(r[2] - 1), Num(r[2]), Num(r[3]), Num(r[3] + 1)} \subseteq Number
  BY <1>1 DEF Number, Num
<1> QED BY <1>1, <1>2, EdgesAreNumbers DEF WorthWriting

\* An object of a committed type is valid when new, but for the ranges named, and comes
\* back from JSON and from the table the same, but for an i64 beyond an int, whatever
\* values of their C types are written to its fields, and however often.
THEOREM WrittenObjectsComeBack ==
  /\ AnySpec => [](GenTypeOK /\ ObjectsComeBack)
  /\ GenSpec => [](GenTypeOK /\ ObjectsComeBack)
<1>1. GenInv => GenTypeOK /\ ObjectsComeBack
  BY GenInvImplies
<1>2. AnySpec => []GenInv
  <2>1. GenInv /\ [AnyNext]_genVars => GenInv'
    BY GenInvStep
  <2> QED BY <2>1, GenInvInit, PTL DEF AnySpec
<1>3. GenInv /\ [GenNext]_genVars => [AnyNext]_genVars
  <2> SUFFICES ASSUME GenInv, Edit PROVE EditAny
    BY DEF GenNext, AnyNext
  <2>1. typeAt \in TypesOfGen
    BY DEF GenInv
  <2>2. PICK i \in FieldsAt(typeAt) : \E v \in WorthWriting(typeAt, i) :
          record' = [record EXCEPT ![i] = v]
    BY DEF Edit
  <2>3. PICK v \in WorthWriting(typeAt, i) : record' = [record EXCEPT ![i] = v]
    BY <2>2
  <2>4. v \in {n \in Number : HasKind(Structs(typeAt)[i], n)}
    BY <2>1, <2>3, WritesAreNumbers
  <2> QED BY <2>3, <2>4 DEF Edit, EditAny
<1>4. GenSpec => []GenInv
  <2>1. GenInv /\ [GenNext]_genVars => GenInv'
    BY <1>3, GenInvStep
  <2> QED BY <2>1, GenInvInit, PTL DEF GenSpec
<1> QED BY <1>1, <1>2, <1>4, PTL

-----------------------------------------------------------------------------
(* The tools beside one another.  Each keeps what is proved of it alone,   *)
(* whichever of them runs: none of them writes what another one keeps.     *)

LEMMA ToolsStep ==
  ASSUME [ToolsNext]_toolsVars
  PROVE  /\ [LexNext]_lexVars /\ [RulesNext]_rulesVars /\ [BddNext]_bddVars
         /\ [ApiNext]_apiVars /\ [UiNext]_uiVars /\ [SchemaNext]_schemaVars
         /\ [SmNext]_smVars /\ [ModesNext]_modesVars /\ [SqlNext]_sqlVars
         /\ [ImplNext]_implVars /\ [ToolchainNext]_toolVars /\ [ManifestNext]_manifestVars
         /\ [GenNext]_genVars /\ [SchemaParserNext]_parserVars /\ [TwoRunsNext]_twoVars
         /\ [HsmNext]_hsmVars /\ [FsmNext]_fsmVars
<1>1. CASE UNCHANGED toolsVars
  BY <1>1 DEF toolsVars
<1>2. CASE ToolsNext
  BY <1>2 DEF ToolsNext, Idle
<1> QED BY <1>1, <1>2

\* Together the tools do what each does: Tools.cfg's one specification is those of its
\* modules, for every value of their constants.
THEOREM ToolsAreTheirSpecs ==
  ToolsSpec =>
    /\ LexSpec /\ RulesSpec /\ BddSpec /\ ApiSpec /\ UiSpec
    /\ SchemaSpec /\ SmSpec /\ ModesSpec /\ SqlSpec /\ ImplSpec
    /\ ToolchainSpec /\ ManifestSpec /\ GenSpec /\ SchemaParserSpec /\ TwoRunsSpec
    /\ HsmSpec /\ FsmSpec
<1>1. ToolsInit =>
        /\ LexInit /\ RulesInit /\ BddInit /\ ApiInit /\ UiInit /\ SchemaInit /\ SmInit
        /\ ModesInit /\ SqlInit /\ ImplInit /\ ToolchainInit /\ ManifestInit /\ GenInit
        /\ SchemaParserInit /\ TwoRunsInit /\ HsmInit /\ FsmInit
  BY DEF ToolsInit
<1>2. [ToolsNext]_toolsVars =>
        /\ [LexNext]_lexVars /\ [RulesNext]_rulesVars /\ [BddNext]_bddVars
        /\ [ApiNext]_apiVars /\ [UiNext]_uiVars /\ [SchemaNext]_schemaVars
        /\ [SmNext]_smVars /\ [ModesNext]_modesVars /\ [SqlNext]_sqlVars
        /\ [ImplNext]_implVars /\ [ToolchainNext]_toolVars /\ [ManifestNext]_manifestVars
        /\ [GenNext]_genVars /\ [SchemaParserNext]_parserVars /\ [TwoRunsNext]_twoVars
        /\ [HsmNext]_hsmVars /\ [FsmNext]_fsmVars
  BY ToolsStep
<1> QED BY <1>1, <1>2, PTL
        DEF ToolsSpec, LexSpec, RulesSpec, BddSpec, ApiSpec, UiSpec, SchemaSpec, SmSpec,
            ModesSpec, SqlSpec, ImplSpec, ToolchainSpec, ManifestSpec, GenSpec,
            SchemaParserSpec, TwoRunsSpec, HsmSpec, FsmSpec

\* Every table, pointer and position of the tool at work keeps its type and its limit,
\* whatever the limits are and however long its file.
THEOREM ToolsTypeSafe == ToolsSpec => []ToolsTypeOK
<1>1. ToolsSpec => [](LexTypeOK /\ RulesTypeOK /\ BddTypeOK /\ ApiTypeOK /\ UiTypeOK)
  BY ToolsAreTheirSpecs, LexTypeSafe, RulesTypeSafe, BddTypeCorrect, ApiTypeSafe,
     UiTypeSafe, PTL
<1>2. ToolsSpec => [](StoreTypeOK /\ SmTypeOK /\ ModesTypeOK /\ SqlTypeOK /\ ImplTypeOK)
  BY ToolsAreTheirSpecs, StoreTypeSafe, SmTypeSafe, ModesAreWritten, SqlTypeSafe,
     ImplTypeSafe, PTL
<1>3. ToolsSpec => [](ToolchainTypeOK /\ ManifestTypeOK)
  <2>1. (ToolInv => ToolchainTypeOK) /\ (GateInv => ManifestTypeOK)
    BY DEF ToolInv, GateInv
  <2> QED BY <2>1, ToolsAreTheirSpecs, ToolInvariant, ManifestInvariant, PTL
<1>4. ToolsSpec => [](GenTypeOK /\ SchemaParserTypeOK /\ TwoRunsTypeOK)
  <2>1. RunsInv => TwoRunsTypeOK
    BY DEF RunsInv
  <2>2. TwoRunsSpec => []TwoRunsTypeOK
    BY <2>1, RunsInit, RunsStep, PTL DEF TwoRunsSpec
  <2> QED BY <2>2, ToolsAreTheirSpecs, WrittenObjectsComeBack, SchemaFieldsAreAsWritten,
             PTL
<1>5. /\ LexTypeOK /\ RulesTypeOK /\ BddTypeOK /\ ApiTypeOK /\ UiTypeOK
      /\ StoreTypeOK /\ SmTypeOK /\ ModesTypeOK /\ SqlTypeOK /\ ImplTypeOK
      /\ ToolchainTypeOK /\ ManifestTypeOK
      /\ GenTypeOK /\ SchemaParserTypeOK /\ TwoRunsTypeOK
      => ToolsTypeOK
  BY DEF ToolsTypeOK
<1> QED BY <1>1, <1>2, <1>3, <1>4, <1>5, PTL

\* What Tools.cfg checks of small tools holds of tools of any size, all of it together; of
\* hsmgen's parser and of the flat machine, which are there too, HsmParserProofs and
\* FsmProofs say it.
THEOREM ToolsKeepTheirPromises ==
  ToolsSpec =>
    /\ [](TextIsReadAsTokens /\ StepsAreAsWritten /\ RunnerFollowsTheRanges)
    /\ [](ApiIsAsWritten /\ WindowsAreDrawnAsWritten /\ VersionsReadEachOther)
    /\ [](SmTablesAreTheFile /\ SqlLinesStayInTheirBlock /\ BuildsAreAsListed)
    /\ [](ReadyToolchainsAreWhole /\ WreckageIsExplained)
    /\ [](ObjectsComeBack /\ FieldsAreAsWritten)
    /\ RulesDoWhatTheySay /\ ModesGoAsWritten /\ GateTellsTheTruth /\ OverlapsAreHarmless
<1>1. ToolsSpec =>
        [](TextIsReadAsTokens /\ StepsAreAsWritten /\ RunnerFollowsTheRanges)
  BY ToolsAreTheirSpecs, TextsAreTokens, StepsComeAsWritten, RunnerRunsTheRanges, PTL
<1>2. ToolsSpec =>
        [](ApiIsAsWritten /\ WindowsAreDrawnAsWritten /\ VersionsReadEachOther)
  BY ToolsAreTheirSpecs, ApisAreAsWritten, WindowsShowTheirPanels, VersionsUnderstand, PTL
<1>3. ToolsSpec =>
        [](SmTablesAreTheFile /\ SqlLinesStayInTheirBlock /\ BuildsAreAsListed)
  BY ToolsAreTheirSpecs, TablesFromTheFile, LinesStayInTheirBlock, BuildsGoByTheList, PTL
<1>4. ToolsSpec => [](ReadyToolchainsAreWhole /\ WreckageIsExplained)
  BY ToolsAreTheirSpecs, WholeToolchains, WreckageExplained, PTL
<1>5. ToolsSpec => [](ObjectsComeBack /\ FieldsAreAsWritten)
  BY ToolsAreTheirSpecs, WrittenObjectsComeBack, SchemaFieldsAreAsWritten, PTL
<1>6. ToolsSpec =>
        RulesDoWhatTheySay /\ ModesGoAsWritten /\ GateTellsTheTruth /\ OverlapsAreHarmless
  BY ToolsAreTheirSpecs, RulesAct, ModesAreWritten, VerdictsAreTrue, OverlappingRuns
<1> QED BY <1>1, <1>2, <1>3, <1>4, <1>5, <1>6
=============================================================================
