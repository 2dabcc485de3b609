----------------------------- MODULE SpecWatcher -----------------------------
(***************************************************************************)
(* scripts/feedback-loop.sh --specs beside the developer: a loop that polls *)
(* a hash of the watched specs, and regenerates and builds when it has     *)
(* changed.  The watcher runs regen-all.sh through make; the developer runs *)
(* it by hand too, but never while the watcher's run is on, nor just before *)
(* it: two runs at a time over one gen/ are left out.                      *)
(*                                                                         *)
(* The hash is the list of the contents hashed.  It is taken one file at a *)
(* time, and before the regeneration it causes.  A spec that is edited and  *)
(* then undone between two polls leaves no trace in the hash.              *)
(***************************************************************************)
EXTENDS Regen

CONSTANTS
  Watched,  \* the specs whose extension the watcher looks for
  Undo      \* may an edit give a spec a content it had before?

ASSUME WatcherAssumption ==
  /\ Watched \subseteq Specs
  /\ Undo \in BOOLEAN

VARIABLES
  watcher,   \* "off", "poll", "compare", "regen", "build" or "sleep"
  hash,      \* HASH: what was read so far of each watched spec, Unread if not
  lastHash,  \* LAST_HASH, <<>> for the empty string
  latest,    \* the newest content each spec has had
  pending    \* the watched specs edited since the watcher first hashed them,
             \* and not yet regenerated

watch == <<watcher, hash, lastHash, latest, pending>>
all   == <<vars, watch>>

Unread   == -1
NoHash   == <<>>
EmptyHash == [f \in Watched |-> Unread]

WInit ==
  /\ Init
  /\ watcher = "off"
  /\ hash = EmptyHash
  /\ lastHash = NoHash
  /\ latest = spec
  /\ pending = {}

-----------------------------------------------------------------------------
(* The loop.                                                               *)

\* Mutation of StartWatcher: LAST_HASH starts as a hash of nothing.
StartWatcherHashed ==
  /\ watcher = "off"
  /\ run.pc = "idle"
  /\ watcher' = "poll"
  /\ hash' = EmptyHash
  /\ lastHash' = EmptyHash
  /\ pending' = {}
  /\ UNCHANGED <<vars, latest>>

StartWatcher ==
  /\ watcher = "off"
  /\ run.pc = "idle"
  /\ watcher' = "poll"
  /\ hash' = EmptyHash
  /\ lastHash' = NoHash
  /\ pending' = {}
  /\ UNCHANGED <<vars, latest>>

\* md5sum of one more file.
HashFile(f) ==
  /\ watcher = "poll"
  /\ hash[f] = Unread
  /\ hash' = [hash EXCEPT ![f] = spec[f]]
  /\ watcher' = IF \A g \in Watched : hash'[g] # Unread THEN "compare" ELSE "poll"
  /\ UNCHANGED <<vars, lastHash, latest, pending>>

\* if [ "$HASH" != "$LAST_HASH" ] && [ -n "$LAST_HASH" ]
Same ==
  /\ watcher = "compare"
  /\ hash = lastHash \/ lastHash = NoHash
  /\ watcher' = "sleep"
  /\ UNCHANGED <<vars, hash, lastHash, latest, pending>>

Changed ==
  /\ watcher = "compare"
  /\ hash # lastHash /\ lastHash # NoHash
  /\ Start(FALSE)
  /\ watcher' = "regen"
  /\ UNCHANGED <<hash, lastHash, latest, pending>>

RegenDone ==
  /\ watcher = "regen"
  /\ run.pc = "idle"
  /\ watcher' = "build"
  /\ UNCHANGED <<vars, hash, lastHash, latest, pending>>

BuildDone ==
  /\ watcher = "build"
  /\ watcher' = "sleep"
  /\ UNCHANGED <<vars, hash, lastHash, latest, pending>>

\* Mutation of Sleep: the hash is taken again after the regeneration.
SleepRehash ==
  /\ watcher = "sleep"
  /\ lastHash' = [f \in Watched |-> spec[f]]
  /\ watcher' = "poll"
  /\ hash' = EmptyHash
  /\ UNCHANGED <<vars, latest, pending>>

\* LAST_HASH="$HASH"; sleep 1
Sleep ==
  /\ watcher = "sleep"
  /\ lastHash' = hash
  /\ watcher' = "poll"
  /\ hash' = EmptyHash
  /\ UNCHANGED <<vars, latest, pending>>

Loop ==
  \/ \E f \in Watched : HashFile(f)
  \/ Same \/ Changed \/ RegenDone \/ BuildDone \/ Sleep

-----------------------------------------------------------------------------
(* The rest of Regen, beside it.                                           *)

\* The watcher has a hash of f to compare the next one with.
Compares(f) == watcher # "off" /\ (lastHash # NoHash \/ hash[f] # Unread)

WEditSpec(f, v) ==
  /\ EditSpec(f, v)
  /\ Undo \/ v = Absent \/ v > latest[f]
  /\ latest' = [latest EXCEPT ![f] = IF v > @ THEN v ELSE @]
  /\ pending' = IF f \in Watched /\ Compares(f) THEN pending \union {f} ELSE pending
  /\ UNCHANGED <<watcher, hash, lastHash>>

\* Every output of f is what its generator makes of the spec as it is.
Current(f) == \A o \in ToSet(OutputsOf[f]) : gen[o] = spec[f]

WFinish ==
  /\ Finish
  /\ pending' = {f \in pending : ~Current(f)}
  /\ UNCHANGED <<watcher, hash, lastHash, latest>>

WOther ==
  /\ \/ Generate
     \/ WriteOutput
     \/ Stage
     \/ \E o \in Outputs : HandEdit(o)
     \/ DistClean
     \/ watcher \in {"off", "build", "sleep"} /\ \E v \in BOOLEAN : Start(v)
  /\ UNCHANGED watch

\* Ctrl-C reaches the watcher as well as the script it runs.
WInterrupt ==
  /\ Interrupt
  /\ watcher' = IF watcher = "regen" THEN "off" ELSE watcher
  /\ UNCHANGED <<hash, lastHash, latest, pending>>

WNext ==
  \/ Loop
  \/ StartWatcher
  \/ \E f \in Specs, v \in {Absent} \union Version : WEditSpec(f, v)
  \/ WFinish
  \/ WOther
  \/ WInterrupt

\* The shell goes on with its scripts; nobody has to edit anything.
WSpec ==
  /\ WInit /\ [][WNext]_all
  /\ WF_all(Loop)
  /\ WF_all(WFinish \/ ((Generate \/ WriteOutput) /\ UNCHANGED watch))

-----------------------------------------------------------------------------
WTypeOK ==
  /\ TypeOK
  /\ watcher \in {"off", "poll", "compare", "regen", "build", "sleep"}
  /\ hash \in [Watched -> {Unread, Absent} \union Version]
  /\ lastHash = NoHash \/ lastHash \in [Watched -> {Absent} \union Version]
  /\ pending \subseteq Watched

\* An edit the watcher had a hash to compare with is never
\* missed: however it falls between the hashing of the files, a regeneration,
\* the build and the sleep, and whatever else is edited or interrupted, the
\* outputs of the spec follow it, unless the watcher is killed.
EditsAreRegenerated ==
  \A f \in ToSet(Order) \cap Watched : \A v \in Version \ Broken :
    (f \in pending /\ spec[f] = v)
      ~> (f \notin pending \/ Current(f) \/ spec[f] # v \/ watcher = "off")
=============================================================================
