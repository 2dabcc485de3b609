-------------------------------- MODULE Regen --------------------------------
(***************************************************************************)
(* scripts/regen-all.sh in one checkout: the generators run over the specs *)
(* one after the other and overwrite their outputs under gen/, and with    *)
(* --verify `git diff' then compares gen/ with the index.  The developer   *)
(* edits specs, stages gen/ and interrupts the script meanwhile.           *)
(*                                                                         *)
(* The content of a spec is a version, 0 when there is no such file, and   *)
(* the content of an output is the version it was generated from.          *)
(***************************************************************************)
EXTENDS Integers, Sequences, SequencesExt

CONSTANTS
  Specs,       \* the specifications under specs/
  OutputsOf,   \* for each, the files its generator writes, in order
  Order,       \* the specs regen-all.sh has a generator for, in its order
  Broken,      \* versions the generator's parser refuses
  Commits,     \* the commits that may be checked out: their specs and gen/
  MaxVersion,  \* bound: versions of a spec
  MaxEdits     \* bound: changes by the developer

Version == 1 .. MaxVersion
Absent  == 0
Torn    == -1  \* opened for writing, hence truncated, and not yet closed
Foreign == -2  \* edited by hand

Outputs == UNION {ToSet(OutputsOf[f]) : f \in Specs}
Content == {Absent, Torn, Foreign} \union Version

ASSUME RegenAssumption ==
  /\ OutputsOf \in [Specs -> Seq(STRING)]
  /\ \A f, g \in Specs :
       f # g => ToSet(OutputsOf[f]) \cap ToSet(OutputsOf[g]) = {}
  /\ \A f \in Specs : OutputsOf[f] # <<>>
  /\ Order \in Seq(Specs)
  /\ Broken \subseteq Version
  /\ Commits \subseteq [spec : [Specs -> {Absent} \union Version],
                       gen  : [Outputs -> {Absent, Foreign} \union Version]]
  /\ MaxVersion \in Nat
  /\ MaxEdits \in Nat

VARIABLES
  spec,     \* the files under specs/
  gen,      \* the files under gen/
  index,    \* what git has staged of gen/
  run,      \* the run of regen-all.sh: where it is and what it has left to do
  verdict,  \* what the last --verify said: "none", "ok" or "drift"
  read,     \* for each spec, the version its generator parsed in this run,
            \* Absent when none did
  before,   \* gen/ when the run began
  edits

vars == <<spec, gen, index, run, verdict, read, before, edits>>

Good(v) == v \in Version \ Broken

NoRun == [pc |-> "idle", verify |-> FALSE, todo |-> <<>>, outs |-> <<>>,
          version |-> Absent]

\* A checkout: gen/ is what is committed, of whatever specs.
Init ==
  /\ \E c \in Commits : spec = c.spec /\ gen = c.gen
  /\ index = gen
  /\ run = NoRun
  /\ verdict = "none"
  /\ read = [f \in Specs |-> Absent]
  /\ before = gen
  /\ edits = 0

-----------------------------------------------------------------------------
(* The script.                                                             *)

Start(verify) ==
  /\ run.pc = "idle"
  /\ run' = [NoRun EXCEPT !.pc = "next", !.verify = verify, !.todo = Order]
  /\ verdict' = "none"
  /\ read' = [f \in Specs |-> Absent]
  /\ before' = gen
  /\ UNCHANGED <<spec, gen, index, edits>>

\* The generator of the next spec parses it and, if it can, opens its first
\* output; a spec it cannot open or parse is passed over with "(failed)".
Generate ==
  /\ run.pc = "next"
  /\ run.todo # <<>>
  /\ LET f == Head(run.todo) IN
       IF Good(spec[f])
       THEN /\ read' = [read EXCEPT ![f] = spec[f]]
            /\ gen' = [gen EXCEPT ![Head(OutputsOf[f])] = Torn]
            /\ run' = [run EXCEPT !.pc = "write", !.todo = Tail(@),
                                  !.outs = OutputsOf[f], !.version = spec[f]]
       ELSE /\ run' = [run EXCEPT !.todo = Tail(@)]
            /\ UNCHANGED <<read, gen>>
  /\ UNCHANGED <<spec, index, verdict, before, edits>>

\* Mutation of WriteOutput: the spec is parsed again for the next output.
WriteOutputReread ==
  /\ run.pc = "write"
  /\ LET o == Head(run.outs)
         rest == Tail(run.outs)
         f == CHOOSE g \in Specs : o \in ToSet(OutputsOf[g])
     IN /\ gen' = [p \in Outputs |-> IF p = o THEN spec[f]
                                     ELSE IF rest # <<>> /\ p = Head(rest)
                                     THEN Torn ELSE gen[p]]
        /\ run' = [run EXCEPT !.outs = rest,
                              !.pc = IF rest = <<>> THEN "next" ELSE @]
  /\ UNCHANGED <<spec, index, verdict, read, before, edits>>

\* The generator closes an output and opens the next one, or exits.
WriteOutput ==
  /\ run.pc = "write"
  /\ LET o    == Head(run.outs)
         rest == Tail(run.outs)
     IN /\ gen' = [p \in Outputs |-> IF p = o THEN run.version
                                     ELSE IF rest # <<>> /\ p = Head(rest)
                                     THEN Torn ELSE gen[p]]
        /\ run' = [run EXCEPT !.outs = rest,
                              !.pc = IF rest = <<>> THEN "next" ELSE @]
  /\ UNCHANGED <<spec, index, verdict, read, before, edits>>

\* git diff looks at the files git knows; gen/ agrees if none of them differs.
Clean == \A o \in Outputs : index[o] # Absent => gen[o] = index[o]

\* The last generator has run: with --verify, exit 0 or 2.
Finish ==
  /\ run.pc = "next"
  /\ run.todo = <<>>
  /\ run' = NoRun
  /\ verdict' = IF ~run.verify THEN "none" ELSE IF Clean THEN "ok" ELSE "drift"
  /\ UNCHANGED <<spec, gen, index, read, before, edits>>

Script == Generate \/ WriteOutput \/ Finish

-----------------------------------------------------------------------------
(* The developer.                                                          *)

EditSpec(f, v) ==
  /\ edits < MaxEdits
  /\ v # spec[f]
  /\ spec' = [spec EXCEPT ![f] = v]
  /\ edits' = edits + 1
  /\ UNCHANGED <<gen, index, run, verdict, read, before>>

\* git add gen/
Stage ==
  /\ edits < MaxEdits
  /\ index # gen
  /\ index' = gen
  /\ edits' = edits + 1
  /\ UNCHANGED <<spec, gen, run, verdict, read, before>>

\* An output is edited by hand, or make distclean removes gen/*, between runs.
HandEdit(o) ==
  /\ edits < MaxEdits
  /\ run.pc = "idle"
  /\ gen[o] # Foreign
  /\ gen' = [gen EXCEPT ![o] = Foreign]
  /\ edits' = edits + 1
  /\ UNCHANGED <<spec, index, run, verdict, read, before>>

DistClean ==
  /\ edits < MaxEdits
  /\ run.pc = "idle"
  /\ gen' = [o \in Outputs |-> Absent]
  /\ edits' = edits + 1
  /\ UNCHANGED <<spec, index, run, verdict, read, before>>

\* Ctrl-C kills the script and the generator in it.
Interrupt ==
  /\ edits < MaxEdits
  /\ run.pc # "idle"
  /\ run' = NoRun
  /\ edits' = edits + 1
  /\ UNCHANGED <<spec, gen, index, verdict, read, before>>

Developer ==
  \/ \E f \in Specs, v \in {Absent} \union Version : EditSpec(f, v)
  \/ Stage
  \/ \E o \in Outputs : HandEdit(o)
  \/ DistClean

Next == Script \/ Developer \/ Interrupt \/ \E v \in BOOLEAN : Start(v)

Spec == Init /\ [][Next]_vars

-----------------------------------------------------------------------------
TypeOK ==
  /\ spec \in [Specs -> {Absent} \union Version]
  /\ gen \in [Outputs -> Content]
  /\ index \in [Outputs -> Content]
  /\ run \in [pc: {"idle", "next", "write"}, verify: BOOLEAN,
              todo: Seq(Specs), outs: Seq(Outputs),
              version: {Absent} \union Version]
  /\ verdict \in {"none", "ok", "drift"}
  /\ read \in [Specs -> {Absent} \union Version]
  /\ before \in [Outputs -> Content]
  /\ edits \in 0 .. MaxEdits

\* The gate is exact about what the generators were given: whatever is edited
\* or staged meanwhile, and whatever an interrupted run left behind, --verify
\* exits 0 just when every tracked output of a spec that was parsed in this run
\* is staged as generated from the version parsed, all outputs of a spec from
\* one version, and every other tracked output is staged as it was found.
GateIsExact ==
  [][Finish /\ run.verify =>
       (verdict' = "ok" <=>
          \A f \in Specs : \A o \in ToSet(OutputsOf[f]) :
            index[o] # Absent =>
              index[o] = IF read[f] # Absent THEN read[f] ELSE before[o])]_vars

\* What a repository has to see to for the gate to be of use: the outputs of
\* every spec that its generator accepts are committed.
OutputsAreCommitted ==
  \A c \in Commits : \A f \in ToSet(Order) :
    Good(c.spec[f]) => \A o \in ToSet(OutputsOf[f]) : c.gen[o] # Absent

\* The drift job of the template's CI exists to verify that generated code
\* matches the specs: in a clean checkout, where nobody edits, --verify says ok
\* only if every spec that its generator accepts has its outputs committed, as
\* generated from it.
VerifiedMatchesSpecs ==
  verdict = "ok" /\ edits = 0 =>
    \A f \in ToSet(Order) :
      Good(spec[f]) => \A o \in ToSet(OutputsOf[f]) : index[o] = spec[f]
=============================================================================
