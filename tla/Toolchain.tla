----------------------------- MODULE Toolchain -----------------------------
(***************************************************************************)
(* `make toolchain` (Makefile:186-188), which runs                         *)
(* scripts/download-cosmocc.sh: fetch a pinned release from one of two     *)
(* mirrors into a temporary directory, check its hash, unpack it, and only *)
(* then rename the directory to the place where `make` looks for a         *)
(* compiler.  Calls may overlap and may be killed at any point.            *)
(*                                                                         *)
(* A call is a process number.  Numbers are not used again, so the         *)
(* temporary directory of a call, named after it, is its own.              *)
(***************************************************************************)

CONSTANTS
  Calls,          \* the processes that may run the script
  Releases,       \* the versions cosmocc.mk pins at one time or another
  None

ASSUME ToolchainAssumption == None \notin Releases \cup Calls

\* A temporary directory: the archive may be cut short or be another file (then
\* what it unpacks to is wrong), and unpacking may be cut short as well.
Contents == {"absent", "empty", "badZip", "goodZip", "partTree", "wrongTree", "tree"}

VARIABLES
  step,           \* the line each call is at
  wants,          \* OUTPUT_DIR's release
  tmp,            \* OUTPUT_TMP: the contents of each call's directory
  placed,         \* OUTPUT_DIR of each release: absent, or the contents it has
  inside,         \* the temporary directories moved into OUTPUT_DIR
  current,        \* DIR/current
  outcome         \* what make was told: "none" yet, "ready" or "failed"; or "killed"

toolVars == <<step, wants, tmp, placed, inside, current, outcome>>

ToolchainInit ==
  /\ step = [c \in Calls |-> "unused"]
  /\ wants = [c \in Calls |-> None]
  /\ tmp = [c \in Calls |-> "absent"]
  /\ placed = [r \in Releases |-> "absent"]
  /\ inside = [r \in Releases |-> {}]
  /\ current = None
  /\ outcome = [c \in Calls |-> "none"]

-----------------------------------------------------------------------------
Ends(c, what) ==
  /\ step' = [step EXCEPT ![c] = "ended"]
  /\ outcome' = [outcome EXCEPT ![c] = what]

\* die(): leave nothing behind and fail.
Dies(c) ==
  /\ Ends(c, "failed")
  /\ tmp' = [tmp EXCEPT ![c] = "absent"]
  /\ UNCHANGED <<wants, placed, inside, current>>

Advances(c, s) ==
  /\ step' = [step EXCEPT ![c] = s]
  /\ UNCHANGED <<wants, outcome>>

\* "exit if already downloaded"
Start(c, r) ==
  /\ step[c] = "unused"
  /\ wants' = [wants EXCEPT ![c] = r]
  /\ IF placed[r] # "absent"
     THEN Ends(c, "ready")
     ELSE step' = [step EXCEPT ![c] = "mkdir"] /\ UNCHANGED outcome
  /\ UNCHANGED <<tmp, placed, inside, current>>

\* No unzip, no wget or curl, or no room: abort, before or at mkdir.
CannotPrepare(c) ==
  /\ step[c] = "mkdir"
  /\ Ends(c, "failed")
  /\ UNCHANGED <<wants, tmp, placed, inside, current>>

MakeTmp(c) ==
  /\ step[c] = "mkdir"
  /\ tmp' = [tmp EXCEPT ![c] = "empty"]
  /\ Advances(c, "url1")
  /\ UNCHANGED <<placed, inside, current>>

\* A download that succeeds may still have brought the wrong bytes.
Fetch(c) ==
  /\ step[c] \in {"url1", "url2"}
  /\ \E zip \in {"badZip", "goodZip"} : tmp' = [tmp EXCEPT ![c] = zip]
  /\ Advances(c, "check")
  /\ UNCHANGED <<placed, inside, current>>

FirstMirrorFails(c) ==
  /\ step[c] = "url1"
  /\ tmp' = [tmp EXCEPT ![c] = "empty"]
  /\ Advances(c, "url2")
  /\ UNCHANGED <<placed, inside, current>>

SecondMirrorFails(c) == step[c] = "url2" /\ Dies(c)

Check(c) ==
  /\ step[c] = "check" /\ tmp[c] = "goodZip"
  /\ Advances(c, "unzip")
  /\ UNCHANGED <<tmp, placed, inside, current>>

CheckFails(c) == step[c] = "check" /\ tmp[c] = "badZip" /\ Dies(c)

\* Files appear one by one; unzip may fail half-way.
UnzipStarts(c) ==
  /\ step[c] = "unzip" /\ tmp[c] \in {"goodZip", "badZip"}
  /\ tmp' = [tmp EXCEPT ![c] = IF @ = "goodZip" THEN "partTree" ELSE "wrongTree"]
  /\ UNCHANGED <<step, wants, placed, inside, current, outcome>>

UnzipEnds(c) ==
  /\ step[c] = "unzip" /\ tmp[c] \in {"partTree", "wrongTree"}
  /\ tmp' = [tmp EXCEPT ![c] = IF @ = "partTree" THEN "tree" ELSE @]
  /\ Advances(c, "commit")
  /\ UNCHANGED <<placed, inside, current>>

UnzipFails(c) == step[c] = "unzip" /\ tmp[c] \in {"partTree", "wrongTree"} /\ Dies(c)

\* Mutation of Commit: the script ends where it has renamed its directory.
CommitEnds(c) ==
  LET r == wants[c]
  IN /\ step[c] = "commit"
     /\ IF placed[r] = "absent"
        THEN placed' = [placed EXCEPT ![r] = tmp[c]] /\ UNCHANGED inside
        ELSE inside' = [inside EXCEPT ![r] = @ \cup {c}] /\ UNCHANGED placed
     /\ tmp' = [tmp EXCEPT ![c] = "absent"]
     /\ Ends(c, "ready")
     /\ UNCHANGED <<wants, current>>

\* mv: a rename, or a move into the directory that another call has put there.
Commit(c) ==
  LET r == wants[c]
  IN /\ step[c] = "commit"
     /\ IF placed[r] = "absent"
        THEN /\ placed' = [placed EXCEPT ![r] = tmp[c]]
             /\ UNCHANGED inside
        ELSE /\ inside' = [inside EXCEPT ![r] = @ \cup {c}]
             /\ UNCHANGED placed
     /\ tmp' = [tmp EXCEPT ![c] = "absent"]
     /\ Advances(c, "link")
     /\ UNCHANGED current

\* Mutation of CommitFails: the script goes on.
CommitFailsOn(c) ==
  /\ step[c] = "commit"
  /\ Advances(c, "link")
  /\ UNCHANGED <<tmp, placed, inside, current>>

CommitFails(c) == step[c] = "commit" /\ Dies(c)

\* ln -sfn, the status of which is the script's.
Link(c) ==
  /\ step[c] = "link"
  /\ current' = wants[c]
  /\ Ends(c, "ready")
  /\ UNCHANGED <<wants, tmp, placed, inside>>

LinkFails(c) ==
  /\ step[c] = "link"
  /\ Ends(c, "failed")
  /\ UNCHANGED <<wants, tmp, placed, inside, current>>

\* An interrupt, a power cut: whatever is there stays there.
Kill(c) ==
  /\ step[c] \notin {"unused", "ended"}
  /\ Ends(c, "killed")
  /\ UNCHANGED <<wants, tmp, placed, inside, current>>

Works(c) ==
  \/ CannotPrepare(c) \/ MakeTmp(c)
  \/ Fetch(c) \/ FirstMirrorFails(c) \/ SecondMirrorFails(c)
  \/ Check(c) \/ CheckFails(c)
  \/ UnzipStarts(c) \/ UnzipEnds(c) \/ UnzipFails(c)
  \/ Commit(c) \/ CommitFails(c)
  \/ Link(c) \/ LinkFails(c)

ToolchainNext ==
  \E c \in Calls : \/ \E r \in Releases : Start(c, r)
                   \/ Works(c)
                   \/ Kill(c)

ToolchainSpec == ToolchainInit /\ [][ToolchainNext]_toolVars

-----------------------------------------------------------------------------
(* Properties. *)

Ready(r) == \E c \in Calls : wants[c] = r /\ outcome[c] = "ready"

ToolchainTypeOK ==
  /\ step \in [Calls -> {"unused", "mkdir", "url1", "url2", "check", "unzip", "commit",
                         "link", "ended"}]
  /\ wants \in [Calls -> Releases \cup {None}]
  /\ tmp \in [Calls -> Contents]
  /\ placed \in [Releases -> Contents]
  /\ inside \in [Releases -> SUBSET Calls]
  /\ current \in Releases \cup {None}
  /\ outcome \in [Calls -> {"none", "ready", "failed", "killed"}]

\* What stands at OUTPUT_DIR is a whole tree out of an archive with the pinned
\* hash, whichever calls overlap and wherever they are killed: make takes the
\* compiler it finds there (Makefile:33), and the script asks only whether the
\* directory exists (download-cosmocc.sh:27).
PlacedIsWhole == \A r \in Releases : placed[r] \in {"absent", "tree"}

\* What make has been told, and what current names, is there.
ReadyIsPlaced ==
  /\ \A r \in Releases : Ready(r) => placed[r] = "tree"
  /\ current # None => placed[current] = "tree"

\* A directory of a call is left behind only by a call that was killed, and lies
\* inside a release only if two calls for it were under way at a time
\* (download-cosmocc.sh:87-91, :106).
OnlyKillsLeaveLitter ==
  /\ \A c \in Calls : step[c] = "ended" /\ tmp[c] # "absent" => outcome[c] = "killed"
  /\ \A r \in Releases : \A c \in inside[r] :
       /\ placed[r] = "tree"
       /\ \E other \in Calls \ {c} : wants[c] = r /\ wants[other] = r

\* A release is in place and current selects nothing only while the call that has
\* placed it is about to link, or because it was killed or failed just then; the
\* calls after it find the directory and do not link (download-cosmocc.sh:27-29,
\* :106-111).
UnlinkedAfterACrash ==
  current = None =>
    \A r \in Releases : placed[r] # "absent" =>
      \E c \in Calls : /\ wants[c] = r
                       /\ step[c] = "link" \/ outcome[c] \in {"killed", "failed"}

\* Nobody is ever given half a toolchain.
ReadyToolchainsAreWhole == PlacedIsWhole /\ ReadyIsPlaced

\* What is left lying about, and what nobody has selected, is accounted for.
WreckageIsExplained == OnlyKillsLeaveLitter /\ UnlinkedAfterACrash
=============================================================================
