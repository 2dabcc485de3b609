------------------------------ MODULE Platforms ------------------------------
(***************************************************************************)
(* implgen (tools/implgen/implgen.c): the platform blocks and the SIMD     *)
(* block it reads from an .impl file, and the macros it writes, by which a *)
(* build picks the implementation it calls.                                *)
(*                                                                         *)
(* implText is the file so far, each line with the block it is written in, *)
(* and simdListed what its last SIMD block lists.                          *)
(***************************************************************************)
EXTENDS Naturals, Sequences, SequencesExt

CONSTANTS
  Platforms,      \* the names an author writes before a colon
  Hosts,          \* the systems a build may run on
  SimdLists,      \* what may stand between the brackets of target:
  MaxDispatches, MaxPlatforms,      \* 64, and MAX_PLATFORMS
  MaxSimdTargets,                   \* MAX_TARGETS
  MaxImplLines    \* bound: the lines of a file

ASSUME PlatformsAssumption ==
  /\ {MaxDispatches, MaxPlatforms, MaxSimdTargets, MaxImplLines} \subseteq Nat
  /\ Hosts \subseteq Platforms \ {"cosmo"}
  /\ {"target", "fallback", "undefined"} \cap Platforms = {}
  /\ SimdLists \subseteq Seq(STRING)

VARIABLES
  dispatches,     \* dispatches[i].targets: their names
  simdTargets,    \* simd.targets
  implOpen,       \* which of in_platform and in_simd is set
  implText,       \* the lines read
  simdListed,     \* what stands in the last simd block, however long
  implBlock,      \* the block the author is in
  implPhase,      \* "spec", "wild" after a write past an array, or "built"
  build           \* how the header was compiled, and where the program runs

implVars == <<dispatches, simdTargets, implOpen, implText, simdListed, implBlock, implPhase,
              build>>

NoImplBlock == <<"none", 0>>
NoBuild == [cosmo |-> FALSE, host |-> "none"]

ImplInit ==
  /\ dispatches = <<>> /\ simdTargets = <<>>
  /\ implOpen = {}
  /\ implText = <<>> /\ simdListed = <<>> /\ implBlock = NoImplBlock
  /\ implPhase = "spec" /\ build = NoBuild

-----------------------------------------------------------------------------
(* parse_impl, by kind of line. *)

ReadsImpl(kind, value) ==
  /\ implPhase = "spec" /\ Len(implText) < MaxImplLines
  /\ implText' = Append(implText, [in |-> implBlock, kind |-> kind, value |-> value])
  /\ UNCHANGED build

ImplBlockAfter(kind, n, oneLine) == IF oneLine THEN NoImplBlock ELSE <<kind, n>>

PlatformLine(oneLine) ==
  /\ ReadsImpl(IF oneLine THEN "platformOnOneLine" ELSE "platform", <<>>)
  /\ implBlock = NoImplBlock
  /\ IF Len(dispatches) >= MaxDispatches
     THEN implPhase' = "wild" /\ UNCHANGED <<dispatches, implOpen, implBlock>>
     ELSE /\ dispatches' = Append(dispatches, <<>>)
          /\ implOpen' = implOpen \cup {"platform"}
          /\ implBlock' = ImplBlockAfter("platform", Len(dispatches) + 1, oneLine)
          /\ UNCHANGED implPhase
  /\ UNCHANGED <<simdTargets, simdListed>>

\* A second block replaces the first.
SimdLine(oneLine) ==
  /\ ReadsImpl("simd", <<>>) /\ implBlock = NoImplBlock
  /\ simdTargets' = <<>> /\ simdListed' = <<>>
  /\ implOpen' = implOpen \cup {"simd"}
  /\ implBlock' = ImplBlockAfter("simd", Len(implText) + 1, oneLine)
  /\ UNCHANGED <<dispatches, implPhase>>

\* Mutation of ImplBraceLine: in_platform is not reset.
ImplBraceLineOfSimd ==
  /\ ReadsImpl("close", <<>>) /\ implBlock # NoImplBlock
  /\ implOpen' = implOpen \ {"simd"} /\ implBlock' = NoImplBlock
  /\ UNCHANGED <<dispatches, simdTargets, simdListed, implPhase>>

ImplBraceLine ==
  /\ ReadsImpl("close", <<>>) /\ implBlock # NoImplBlock
  /\ implOpen' = {} /\ implBlock' = NoImplBlock
  /\ UNCHANGED <<dispatches, simdTargets, simdListed, implPhase>>

\* What stands before the colon is a target, while in_platform is set.
AddTarget(name) ==
  LET d == Len(dispatches)
  IN IF Len(dispatches[d]) >= MaxPlatforms
     THEN implPhase' = "wild" /\ UNCHANGED dispatches
     ELSE dispatches' = [dispatches EXCEPT ![d] = Append(@, name)] /\ UNCHANGED implPhase

TargetLine(name) ==
  /\ ReadsImpl("target", <<name>>) /\ implBlock[1] = "platform"
  /\ AddTarget(name)
  /\ UNCHANGED <<simdTargets, simdListed, implOpen, implBlock>>

Truncated(n, s) == SubSeq(s, 1, IF Len(s) < n THEN Len(s) ELSE n)

\* A line of a SIMD block, cut at its colon if it has been taken for a target.
\* fallback is stored and never written.
SimdBodyLine(key, list) ==
  LET listed == IF key = "target" THEN list ELSE <<>>
  IN /\ ReadsImpl("simdLine", listed) /\ implBlock[1] = "simd"
     /\ simdListed' = simdListed \o listed
     /\ IF "platform" \in implOpen
        THEN AddTarget(key) /\ UNCHANGED simdTargets
        ELSE /\ simdTargets' = Truncated(MaxSimdTargets, simdTargets \o listed)
             /\ UNCHANGED <<dispatches, implPhase>>
     /\ UNCHANGED <<implOpen, implBlock>>

\* The header is compiled with cosmocc or for one system, and the program started.
ImplBuild(b) ==
  /\ implPhase = "spec" /\ implBlock = NoImplBlock
  /\ implPhase' = "built" /\ build' = b
  /\ UNCHANGED <<dispatches, simdTargets, simdListed, implOpen, implText, implBlock>>

ImplNext ==
  \/ \E oneLine \in BOOLEAN : PlatformLine(oneLine) \/ SimdLine(oneLine)
  \/ ImplBraceLine
  \/ \E name \in Platforms : TargetLine(name)
  \/ \E key \in {"target", "fallback"}, list \in SimdLists : SimdBodyLine(key, list)
  \/ \E b \in [cosmo : BOOLEAN, host : Hosts] : ImplBuild(b)

ImplSpec == ImplInit /\ [][ImplNext]_implVars

-----------------------------------------------------------------------------
(* What PREFIX_NAME_IMPL() calls, if it is defined: under cosmocc the host is *)
(* asked only where Linux and Windows are both targets.                       *)

NotDefined == "undefined"

Called(d) ==
  LET targets == dispatches[d]
  IN IF build.cosmo
     THEN IF {"linux", "windows"} \subseteq ToSet(targets)
          THEN IF build.host = "windows" THEN "windows" ELSE "linux"
          ELSE IF targets # <<>> THEN Head(targets) ELSE NotDefined
     ELSE IF build.host \in ToSet(targets) THEN build.host ELSE NotDefined

-----------------------------------------------------------------------------
(* Properties. *)

\* Until a write past an array, the arrays keep their limits (implgen.c:102-190).
ImplTypeOK ==
  /\ Len(dispatches) <= MaxDispatches
  /\ \A d \in DOMAIN dispatches : Len(dispatches[d]) <= MaxPlatforms
  /\ Len(simdTargets) <= MaxSimdTargets
  /\ implOpen \subseteq {"platform", "simd"}
  /\ implPhase \in {"spec", "wild", "built"}

TargetsOf(d) ==
  {implText[i].value[1] : i \in {j \in DOMAIN implText : /\ implText[j].in = <<"platform", d>>
                                                         /\ implText[j].kind = "target"}}

\* The program calls an implementation that the block lists, and never that of
\* another system while there is one for the host: except that under cosmocc the
\* first target is taken, whatever the host, where Linux or Windows is missing, and
\* Linux for a third system; a cosmo target is called only as the first of such a
\* block (implgen.c:248-276).
HostsGetTheirImplementation ==
  implPhase = "built" =>
    \A d \in DOMAIN dispatches : TargetsOf(d) # {} =>
      /\ Called(d) \in TargetsOf(d) \cup {NotDefined}
      /\ Called(d) = NotDefined => ~build.cosmo /\ build.host \notin TargetsOf(d)
      /\ build.host \in TargetsOf(d) /\ Called(d) # build.host =>
           build.cosmo /\ ~(/\ {"linux", "windows"} \subseteq TargetsOf(d)
                            /\ build.host \in {"linux", "windows"})

\* The targets of SIMD are those of the last block, unless a platform written on one
\* line has stayed open and taken them for its own (implgen.c:121, :143-160).
SimdIsTheLastBlock ==
  LET openings == {i \in DOMAIN implText : implText[i].kind = "simd"}
      StaysOpen(p, i) == /\ implText[p].kind = "platformOnOneLine"
                         /\ \A j \in p..i : implText[j].kind # "close"
      taken == \E i \in openings, p \in DOMAIN implText :
                 (\A j \in openings : j <= i) /\ p < i /\ StaysOpen(p, i)
  IN simdTargets = IF taken THEN <<>> ELSE Truncated(MaxSimdTargets, simdListed)

\* The implementation that is called and the instruction sets that are probed are listed.
BuildsAreAsListed == HostsGetTheirImplementation /\ SimdIsTheLastBlock
=============================================================================
