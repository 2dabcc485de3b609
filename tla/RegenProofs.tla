----------------------------- MODULE RegenProofs -----------------------------
(***************************************************************************)
(* Theorems about Regen and SpecWatcher, for any specifications, outputs,  *)
(* commits and number of edits.                                            *)
(***************************************************************************)
EXTENDS SpecWatcher, TLAPS

LEMMA Assumptions ==
  /\ OutputsOf \in [Specs -> Seq(STRING)]
  /\ \A f, g \in Specs :
       f # g => ToSet(OutputsOf[f]) \cap ToSet(OutputsOf[g]) = {}
  /\ \A f \in Specs : OutputsOf[f] # <<>>
  /\ Order \in Seq(Specs)
  /\ Commits \subseteq [spec : [Specs -> {Absent} \union Version],
                       gen  : [Outputs -> {Absent, Foreign} \union Version]]
  /\ MaxEdits \in Nat
BY RegenAssumption

\* The elements of a sequence that is not empty.
LEMMA HeadAndTail ==
  ASSUME NEW S, NEW s \in Seq(S), s # <<>>
  PROVE  /\ Head(s) \in S /\ Head(s) \in ToSet(s)
         /\ Tail(s) \in Seq(S) /\ ToSet(Tail(s)) \subseteq ToSet(s)
         /\ \A x \in ToSet(s) : x = Head(s) \/ x \in ToSet(Tail(s))
<1>1. Len(s) \in Nat /\ Len(s) > 0 /\ DOMAIN s = 1 .. Len(s) /\ Head(s) = s[1]
      /\ \A i \in 1 .. Len(s) : s[i] \in S
  OBVIOUS
<1>2. Head(s) \in S /\ Head(s) \in ToSet(s)
  BY <1>1 DEF ToSet
<1>3. Tail(s) \in Seq(S) /\ Len(Tail(s)) = Len(s) - 1
      /\ DOMAIN Tail(s) = 1 .. Len(Tail(s))
      /\ \A i \in 1 .. Len(Tail(s)) : Tail(s)[i] = s[i + 1]
  BY <1>1
<1>4. ToSet(Tail(s)) \subseteq ToSet(s)
  BY <1>1, <1>3 DEF ToSet
<1>5. ASSUME NEW x \in ToSet(s), x # Head(s) PROVE x \in ToSet(Tail(s))
  <2>1. PICK i \in 1 .. Len(s) : x = s[i]
    BY <1>1 DEF ToSet
  <2>2. i - 1 \in 1 .. Len(Tail(s)) /\ Tail(s)[i - 1] = s[i]
    BY <1>1, <1>3, <1>5, <2>1
  <2> QED BY <1>3, <2>1, <2>2 DEF ToSet
<1> QED BY <1>2, <1>3, <1>4, <1>5

\* The outputs of a spec are outputs, and there is one.
LEMMA OutputsOfSpec ==
  ASSUME NEW f \in Specs
  PROVE  /\ OutputsOf[f] \in Seq(Outputs) /\ OutputsOf[f] # <<>>
         /\ ToSet(OutputsOf[f]) \subseteq Outputs
<1>1. OutputsOf[f] \in Seq(STRING) /\ OutputsOf[f] # <<>>
  BY Assumptions
<1>2. ToSet(OutputsOf[f]) \subseteq Outputs
  BY DEF Outputs
<1>3. OutputsOf[f] \in Seq(Outputs)
  BY <1>1, <1>2 DEF ToSet
<1> QED BY <1>1, <1>2, <1>3

-----------------------------------------------------------------------------
(* Type correctness.                                                       *)

RunRecord == [pc: {"idle", "next", "write"}, verify: BOOLEAN,
              todo: Seq(Specs), outs: Seq(Outputs),
              version: {Absent} \union Version]

\* A generator that is writing has an output open.
TypeInv == TypeOK /\ (run.pc = "write" => run.outs # <<>>)

LEMMA NoRunIsRun == NoRun \in RunRecord
BY DEF NoRun, RunRecord

LEMMA RegenTypeInit == Init => TypeInv
<1> SUFFICES ASSUME Init PROVE TypeInv
  OBVIOUS
<1>1. PICK c \in Commits : spec = c.spec /\ gen = c.gen
  BY DEF Init
<1>2. spec \in [Specs -> {Absent} \union Version] /\ gen \in [Outputs -> Content]
  BY <1>1, Assumptions DEF Content
<1>3. run \in RunRecord /\ run.pc = "idle"
  BY NoRunIsRun DEF Init, NoRun
<1> QED BY <1>2, <1>3, Assumptions DEF Init, TypeInv, TypeOK, RunRecord

LEMMA RegenTypeStep == TypeInv /\ [Next]_vars => TypeInv'
<1> SUFFICES ASSUME TypeInv, [Next]_vars PROVE TypeInv'
  OBVIOUS
<1>0. /\ spec \in [Specs -> {Absent} \union Version]
      /\ gen \in [Outputs -> Content] /\ index \in [Outputs -> Content]
      /\ run \in RunRecord /\ verdict \in {"none", "ok", "drift"}
      /\ read \in [Specs -> {Absent} \union Version]
      /\ before \in [Outputs -> Content]
      /\ edits \in 0 .. MaxEdits /\ MaxEdits \in Nat
      /\ run.pc = "write" => run.outs # <<>>
  BY Assumptions DEF TypeInv, TypeOK, RunRecord
<1>1. ASSUME NEW v \in BOOLEAN, Start(v) PROVE TypeInv'
  <2>1. run' = [NoRun EXCEPT !.pc = "next", !.verify = v, !.todo = Order]
    BY <1>1 DEF Start
  <2>2. run' \in RunRecord /\ run'.pc = "next"
    BY <2>1, NoRunIsRun, Assumptions DEF RunRecord
  <2> QED BY <1>0, <1>1, <2>2 DEF Start, TypeInv, TypeOK, RunRecord
<1>2. CASE Generate
  <2>1. run.pc = "next" /\ run.todo \in Seq(Specs) /\ run.todo # <<>>
    BY <1>0, <1>2 DEF Generate, RunRecord
  <2>2. Head(run.todo) \in Specs /\ Tail(run.todo) \in Seq(Specs)
    BY <2>1, HeadAndTail
  <2>3. CASE Good(spec[Head(run.todo)])
    <3> DEFINE f == Head(run.todo)
    <3>1. /\ read' = [read EXCEPT ![f] = spec[f]]
          /\ gen' = [gen EXCEPT ![Head(OutputsOf[f])] = Torn]
          /\ run' = [run EXCEPT !.pc = "write", !.todo = Tail(@),
                                !.outs = OutputsOf[f], !.version = spec[f]]
          /\ UNCHANGED <<spec, index, verdict, before, edits>>
      BY <1>2, <2>3 DEF Generate
    <3>2. f \in Specs /\ spec[f] \in {Absent} \union Version
      BY <1>0, <2>2
    <3>3. OutputsOf[f] \in Seq(Outputs) /\ OutputsOf[f] # <<>>
      BY <3>2, OutputsOfSpec
    <3>4. run' \in RunRecord /\ run'.outs # <<>>
      BY <1>0, <2>2, <3>1, <3>2, <3>3 DEF RunRecord
    <3>5. gen' \in [Outputs -> Content] /\ read' \in [Specs -> {Absent} \union Version]
      BY <1>0, <3>1, <3>2 DEF Content
    <3> QED BY <1>0, <3>1, <3>4, <3>5 DEF TypeInv, TypeOK, RunRecord
  <2>4. CASE ~Good(spec[Head(run.todo)])
    <3>1. /\ run' = [run EXCEPT !.todo = Tail(@)]
          /\ UNCHANGED <<spec, gen, index, verdict, read, before, edits>>
      BY <1>2, <2>4 DEF Generate
    <3>2. run' \in RunRecord /\ run'.pc = "next"
      BY <1>0, <2>1, <2>2, <3>1 DEF RunRecord
    <3> QED BY <1>0, <3>1, <3>2 DEF TypeInv, TypeOK, RunRecord
  <2> QED BY <2>3, <2>4
<1>3. CASE WriteOutput
  <2> DEFINE o    == Head(run.outs)
             rest == Tail(run.outs)
  <2>1. /\ run.pc = "write"
        /\ gen' = [p \in Outputs |-> IF p = o THEN run.version
                                     ELSE IF rest # <<>> /\ p = Head(rest)
                                     THEN Torn ELSE gen[p]]
        /\ run' = [run EXCEPT !.outs = rest,
                              !.pc = IF rest = <<>> THEN "next" ELSE @]
        /\ UNCHANGED <<spec, index, verdict, read, before, edits>>
    BY <1>3 DEF WriteOutput
  <2>2. rest \in Seq(Outputs)
    BY <1>0, <2>1, HeadAndTail DEF RunRecord
  <2>3. run' \in RunRecord /\ (run'.pc = "write" => run'.outs # <<>>)
    BY <1>0, <2>1, <2>2 DEF RunRecord
  <2>4. gen' \in [Outputs -> Content]
    BY <1>0, <2>1 DEF RunRecord, Content
  <2> QED BY <1>0, <2>1, <2>3, <2>4 DEF TypeInv, TypeOK, RunRecord
<1>4. CASE Finish
  BY <1>0, <1>4, NoRunIsRun DEF Finish, NoRun, TypeInv, TypeOK, RunRecord
<1>5. ASSUME NEW f \in Specs, NEW v \in {Absent} \union Version, EditSpec(f, v)
      PROVE  TypeInv'
  BY <1>0, <1>5 DEF EditSpec, TypeInv, TypeOK, RunRecord
<1>6. CASE Stage
  BY <1>0, <1>6 DEF Stage, TypeInv, TypeOK, RunRecord
<1>7. ASSUME NEW o \in Outputs, HandEdit(o) PROVE TypeInv'
  BY <1>0, <1>7 DEF HandEdit, TypeInv, TypeOK, RunRecord, Content
<1>8. CASE DistClean
  BY <1>0, <1>8 DEF DistClean, TypeInv, TypeOK, RunRecord, Content
<1>9. CASE Interrupt
  BY <1>0, <1>9, NoRunIsRun DEF Interrupt, NoRun, TypeInv, TypeOK, RunRecord
<1>10. CASE UNCHANGED vars
  BY <1>0, <1>10 DEF vars, TypeInv, TypeOK, RunRecord
<1> QED BY <1>1, <1>2, <1>3, <1>4, <1>5, <1>6, <1>7, <1>8, <1>9, <1>10
        DEF Next, Script, Developer

\* Every file, index entry and record of the script keeps its type.
THEOREM RegenTypeSafe == Spec => []TypeOK
<1>1. TypeInv => TypeOK
  BY DEF TypeInv
<1> QED BY <1>1, RegenTypeInit, RegenTypeStep, PTL DEF Spec

-----------------------------------------------------------------------------
(* What a run has made of gen/ so far.                                     *)

\* What the outputs of f hold once its generator has had its turn, and held
\* before it.
Due(f, o) == IF read[f] # Absent THEN read[f] ELSE before[o]

\* Every output of f is what is due.
Done(f) == \A o \in ToSet(OutputsOf[f]) : gen[o] = Due(f, o)

\* f is the spec whose outputs are being written: those that are closed hold
\* the version that was parsed, and all other specs have what is due.
Writing(f) ==
  /\ run.version = read[f] /\ read[f] # Absent
  /\ ToSet(run.outs) \subseteq ToSet(OutputsOf[f])
  /\ \A o \in ToSet(OutputsOf[f]) \ ToSet(run.outs) : gen[o] = run.version
  /\ \A g \in Specs \ {f} : Done(g)

RunInv ==
  /\ run.pc = "next"  => \A f \in Specs : Done(f)
  /\ run.pc = "write" => \E f \in Specs : Writing(f)

LEMMA RunKept ==
  ASSUME RunInv, UNCHANGED <<gen, read, before, run>>
  PROVE  RunInv'
BY DEF RunInv, Done, Due, Writing

LEMMA RunStep ==
  ASSUME TypeInv, RunInv, [Next]_vars
  PROVE  RunInv'
<1>0. /\ gen \in [Outputs -> Content] /\ run \in RunRecord
      /\ read \in [Specs -> {Absent} \union Version]
      /\ run.pc = "write" => run.outs # <<>>
  BY DEF TypeInv, TypeOK, RunRecord
<1>idle. ASSUME run'.pc = "idle" PROVE RunInv'
  BY <1>idle DEF RunInv
<1>1. ASSUME NEW v \in BOOLEAN, Start(v) PROVE RunInv'
  <2>1. /\ run'.pc = "next" /\ read' = [f \in Specs |-> Absent]
        /\ before' = gen /\ gen' = gen
    BY <1>1 DEF Start, NoRun
  <2>2. \A f \in Specs : Done(f)'
    BY <2>1 DEF Done, Due
  <2> QED BY <2>1, <2>2 DEF RunInv
<1>2. CASE Generate
  <2>1. run.pc = "next" /\ run.todo \in Seq(Specs) /\ run.todo # <<>>
    BY <1>0, <1>2 DEF Generate, RunRecord
  <2>2. Head(run.todo) \in Specs
    BY <2>1, HeadAndTail
  <2>3. \A g \in Specs : Done(g)
    BY <2>1 DEF RunInv
  <2>4. CASE Good(spec[Head(run.todo)])
    <3>f. PICK f \in Specs : f = Head(run.todo)
      BY <2>2
    <3> DEFINE first == Head(OutputsOf[f])
    <3>1. /\ read' = [read EXCEPT ![f] = spec[f]]
          /\ gen' = [gen EXCEPT ![first] = Torn]
          /\ run' = [run EXCEPT !.pc = "write", !.todo = Tail(@),
                                !.outs = OutputsOf[f], !.version = spec[f]]
          /\ before' = before
      BY <1>2, <2>4, <3>f DEF Generate
    <3>2. spec[f] # Absent
      BY <2>4, <3>f DEF Good, Version, Absent
    <3>3. first \in ToSet(OutputsOf[f])
      BY <3>2, OutputsOfSpec, HeadAndTail
    <3>4. run'.pc = "write" /\ run'.outs = OutputsOf[f] /\ run'.version = spec[f]
      BY <1>0, <3>1 DEF RunRecord
    <3>5. read'[f] = spec[f] /\ \A g \in Specs \ {f} : read'[g] = read[g]
      BY <1>0, <3>1, <3>2
    <3> HIDE DEF first
    <3>6. ASSUME NEW g \in Specs \ {f} PROVE Done(g)'
      <4>1. \A o \in ToSet(OutputsOf[g]) : o \in Outputs /\ o # first
        BY <3>2, <3>3, OutputsOfSpec, Assumptions
      <4>2. \A o \in ToSet(OutputsOf[g]) : gen'[o] = gen[o]
        BY <1>0, <3>1, <4>1
      <4> QED BY <2>3, <3>1, <3>5, <4>2 DEF Done, Due
    <3>7. Writing(f)'
      BY <3>2, <3>4, <3>5, <3>6 DEF Writing
    <3> QED BY <3>2, <3>4, <3>7 DEF RunInv
  <2>5. CASE ~Good(spec[Head(run.todo)])
    <3>1. run'.pc = "next" /\ UNCHANGED <<gen, read, before>>
      BY <1>0, <1>2, <2>1, <2>5 DEF Generate, RunRecord
    <3> QED BY <2>3, <3>1 DEF RunInv, Done, Due
  <2> QED BY <2>4, <2>5
<1>3. CASE WriteOutput
  <2> DEFINE o    == Head(run.outs)
             rest == Tail(run.outs)
  <2>1. /\ run.pc = "write" /\ UNCHANGED <<read, before>>
        /\ gen' = [p \in Outputs |-> IF p = o THEN run.version
                                     ELSE IF rest # <<>> /\ p = Head(rest)
                                     THEN Torn ELSE gen[p]]
        /\ run' = [run EXCEPT !.outs = rest,
                              !.pc = IF rest = <<>> THEN "next" ELSE @]
    BY <1>3 DEF WriteOutput
  <2>2. run'.outs = rest /\ run'.version = run.version
        /\ run'.pc = IF rest = <<>> THEN "next" ELSE "write"
    BY <1>0, <2>1 DEF RunRecord
  <2>3. run.outs \in Seq(Outputs) /\ run.outs # <<>>
    BY <1>0, <2>1 DEF RunRecord
  <2>4. /\ o \in ToSet(run.outs) /\ rest \in Seq(Outputs)
        /\ ToSet(rest) \subseteq ToSet(run.outs)
        /\ \A x \in ToSet(run.outs) : x = o \/ x \in ToSet(rest)
    BY <2>3, HeadAndTail
  <2>5. rest # <<>> => Head(rest) \in ToSet(rest)
    BY <2>4, HeadAndTail
  <2>6. PICK f \in Specs : Writing(f)
    BY <2>1 DEF RunInv
  <2> HIDE DEF o, rest
  <2>7. ASSUME NEW g \in Specs \ {f} PROVE Done(g)'
    <3>1. \A p \in ToSet(OutputsOf[g]) :
            p \in Outputs /\ p # o /\ p \notin ToSet(rest)
      BY <2>4, <2>6, OutputsOfSpec, Assumptions DEF Writing
    <3>2. \A p \in ToSet(OutputsOf[g]) : gen'[p] = gen[p]
      BY <2>1, <2>5, <3>1
    <3> QED BY <2>1, <2>6, <3>2 DEF Writing, Done, Due
  <2>8. ASSUME NEW p \in ToSet(OutputsOf[f]), p \notin ToSet(rest)
        PROVE  gen'[p] = run.version
    <3>1. p \in Outputs
      BY OutputsOfSpec
    <3>2. CASE p = o
      BY <2>1, <3>1, <3>2
    <3>3. CASE p # o
      <4>1. gen[p] = run.version
        BY <2>4, <2>6, <2>8, <3>3 DEF Writing
      <4> QED BY <2>1, <2>5, <2>8, <3>1, <3>3, <4>1
    <3> QED BY <3>2, <3>3
  <2>9. CASE rest = <<>>
    <3>1. ToSet(rest) = {}
      BY <2>9 DEF ToSet
    <3>2. \A p \in ToSet(OutputsOf[f]) : gen'[p] = run.version
      BY <2>8, <3>1
    <3>3. Done(f)'
      BY <2>1, <2>6, <3>2 DEF Writing, Done, Due
    <3> QED BY <2>2, <2>7, <2>9, <3>3 DEF RunInv
  <2>10. CASE rest # <<>>
    <3>1. Writing(f)'
      BY <2>1, <2>2, <2>4, <2>6, <2>7, <2>8 DEF Writing
    <3> QED BY <2>2, <2>10, <3>1 DEF RunInv
  <2> QED BY <2>9, <2>10
<1>4. CASE Finish
  BY <1>4, <1>idle DEF Finish, NoRun
<1>5. ASSUME NEW f \in Specs, NEW v \in {Absent} \union Version, EditSpec(f, v)
      PROVE  RunInv'
  BY <1>5, RunKept DEF EditSpec
<1>6. CASE Stage
  BY <1>6, RunKept DEF Stage
<1>7. ASSUME NEW o \in Outputs, HandEdit(o) PROVE RunInv'
  BY <1>7, <1>idle DEF HandEdit
<1>8. CASE DistClean
  BY <1>8, <1>idle DEF DistClean
<1>9. CASE Interrupt
  BY <1>9, <1>idle DEF Interrupt, NoRun
<1>10. CASE UNCHANGED vars
  BY <1>10, RunKept DEF vars
<1> QED BY <1>1, <1>2, <1>3, <1>4, <1>5, <1>6, <1>7, <1>8, <1>9, <1>10
        DEF Next, Script, Developer

LEMMA RegenInvariant == Spec => [](TypeInv /\ RunInv)
<1>1. Init => RunInv
  BY DEF Init, RunInv, NoRun
<1>2. TypeInv /\ RunInv /\ [Next]_vars => (TypeInv /\ RunInv)'
  BY RegenTypeStep, RunStep
<1> QED BY <1>1, <1>2, RegenTypeInit, PTL DEF Spec

\* Every tracked output is staged as its generator makes it from the version it
\* parsed or, without one, as the run found it.
Exact ==
  \A f \in Specs : \A o \in ToSet(OutputsOf[f]) :
    index[o] # Absent => index[o] = IF read[f] # Absent THEN read[f] ELSE before[o]

LEMMA FinishIsExact ==
  ASSUME RunInv, Finish, run.verify
  PROVE  verdict' = "ok" <=> Exact
<1>1. \A f \in Specs : Done(f)
  BY DEF Finish, RunInv
<1>2. verdict' = "ok" <=> Clean
  BY DEF Finish
<1>3. Clean <=> \A f \in Specs : \A o \in ToSet(OutputsOf[f]) :
                   index[o] # Absent => gen[o] = index[o]
  BY DEF Clean, Outputs
<1> QED BY <1>1, <1>2, <1>3 DEF Done, Due, Exact

\* The gate says ok just when every tracked output is staged as its generator
\* makes it from the version it parsed or, without one, as the run found it.
THEOREM GateExact == Spec => GateIsExact
<1>1. TypeInv /\ RunInv /\ [Next]_vars =>
        [Finish /\ run.verify => (verdict' = "ok" <=> Exact)]_vars
  BY FinishIsExact
<1> QED BY <1>1, RegenInvariant, PTL DEF Spec, GateIsExact, Exact

\* Beside the watcher the script is the one above: the composition implements
\* Regen, so what is proved of Regen holds with the watcher at work.
THEOREM WatcherRunsRegen == WSpec => Spec
<1>1. WInit => Init
  BY DEF WInit
<1>2. [WNext]_all => [Next]_vars
  <2> SUFFICES ASSUME WNext PROVE Next \/ UNCHANGED vars
    BY DEF all
  <2>1. CASE Loop
    BY <2>1 DEF Loop, HashFile, Same, Changed, RegenDone, BuildDone, Sleep, Next
  <2>2. CASE StartWatcher
    BY <2>2 DEF StartWatcher
  <2>3. ASSUME NEW f \in Specs, NEW v \in {Absent} \union Version, WEditSpec(f, v)
        PROVE  Next
    BY <2>3 DEF WEditSpec, Next, Developer
  <2>4. CASE WFinish
    BY <2>4 DEF WFinish, Next, Script
  <2>5. CASE WOther
    BY <2>5 DEF WOther, Next, Script, Developer
  <2>6. CASE WInterrupt
    BY <2>6 DEF WInterrupt, Next
  <2> QED BY <2>1, <2>2, <2>3, <2>4, <2>5, <2>6 DEF WNext
<1> QED BY <1>1, <1>2, PTL DEF WSpec, Spec

-----------------------------------------------------------------------------
(* The watcher's own variables.                                            *)

\* Past the poll every watched file has been hashed.
WatchInv ==
  /\ watcher \in {"off", "poll", "compare", "regen", "build", "sleep"}
  /\ hash \in [Watched -> {Unread, Absent} \union Version]
  /\ lastHash = NoHash \/ lastHash \in [Watched -> {Absent} \union Version]
  /\ pending \subseteq Watched
  /\ watcher \in {"compare", "regen", "build", "sleep"} =>
       \A f \in Watched : hash[f] # Unread

LEMMA WatchInit == WInit => WatchInv
<1> SUFFICES ASSUME WInit PROVE WatchInv
  OBVIOUS
<1>1. hash \in [Watched -> {Unread, Absent} \union Version]
  BY DEF WInit, EmptyHash
<1> QED BY <1>1 DEF WInit, WatchInv

LEMMA WatchStep == TypeInv /\ WatchInv /\ [WNext]_all => WatchInv'
<1> SUFFICES ASSUME TypeInv, WatchInv, [WNext]_all PROVE WatchInv'
  OBVIOUS
<1>0. /\ watcher \in {"off", "poll", "compare", "regen", "build", "sleep"}
      /\ hash \in [Watched -> {Unread, Absent} \union Version]
      /\ lastHash = NoHash \/ lastHash \in [Watched -> {Absent} \union Version]
      /\ pending \subseteq Watched
      /\ watcher \in {"compare", "regen", "build", "sleep"} =>
           \A f \in Watched : hash[f] # Unread
      /\ spec \in [Specs -> {Absent} \union Version] /\ Watched \subseteq Specs
  BY WatcherAssumption DEF WatchInv, TypeInv, TypeOK
<1>1. ASSUME NEW f \in Watched, HashFile(f) PROVE WatchInv'
  <2>1. /\ hash' = [hash EXCEPT ![f] = spec[f]]
        /\ watcher' = IF \A g \in Watched : hash'[g] # Unread THEN "compare" ELSE "poll"
        /\ UNCHANGED <<lastHash, pending>>
    BY <1>1 DEF HashFile
  <2>2. spec[f] \in {Absent} \union Version
    BY <1>0
  <2>3. hash' \in [Watched -> {Unread, Absent} \union Version]
    BY <1>0, <2>1, <2>2
  <2> QED BY <1>0, <2>1, <2>3 DEF WatchInv
<1>2. CASE Sleep
  <2>1. watcher = "sleep" /\ watcher' = "poll" /\ lastHash' = hash /\ hash' = EmptyHash
        /\ pending' = pending
    BY <1>2 DEF Sleep
  <2>2. hash \in [Watched -> {Absent} \union Version]
    BY <1>0, <2>1
  <2>3. hash' \in [Watched -> {Unread, Absent} \union Version]
    BY <2>1 DEF EmptyHash
  <2> QED BY <1>0, <2>1, <2>2, <2>3 DEF WatchInv
<1>3. CASE StartWatcher
  <2>1. watcher' = "poll" /\ hash' = EmptyHash /\ lastHash' = NoHash /\ pending' = {}
    BY <1>3 DEF StartWatcher
  <2>2. hash' \in [Watched -> {Unread, Absent} \union Version]
    BY <2>1 DEF EmptyHash
  <2> QED BY <2>1, <2>2 DEF WatchInv
<1>4. CASE Same \/ Changed \/ RegenDone \/ BuildDone
  BY <1>0, <1>4 DEF Same, Changed, RegenDone, BuildDone, WatchInv
<1>5. ASSUME NEW f \in Specs, NEW v \in {Absent} \union Version, WEditSpec(f, v)
      PROVE  WatchInv'
  BY <1>0, <1>5 DEF WEditSpec, WatchInv
<1>6. CASE WFinish
  BY <1>0, <1>6 DEF WFinish, WatchInv
<1>7. CASE WOther \/ UNCHANGED all
  BY <1>0, <1>7 DEF WOther, all, watch, WatchInv
<1>8. CASE WInterrupt
  BY <1>0, <1>8 DEF WInterrupt, WatchInv
<1> QED BY <1>1, <1>2, <1>3, <1>4, <1>5, <1>6, <1>7, <1>8 DEF WNext, Loop

\* The hash the watcher compares with is one of whole contents, never of a poll that
\* has not come to its end, whatever is edited, run or interrupted meanwhile
\* (feedback-loop.sh:95-108).
THEOREM WatcherTypeSafe == WSpec => []WTypeOK
<1>1. TypeInv /\ WatchInv => WTypeOK
  BY DEF TypeInv, WatchInv, WTypeOK
<1> QED BY <1>1, WatchInit, WatchStep, WatcherRunsRegen, RegenInvariant, PTL DEF WSpec

-----------------------------------------------------------------------------
(* What an ok says of the specs, where every output is committed.          *)

\* While nobody has edited anything: the outputs of the accepted specs are in the
\* index, a run has parsed those it has passed, and an ok means they agree.
CheckoutInv ==
  edits = 0 => \A f \in ToSet(Order) : Good(spec[f]) =>
    /\ \A o \in ToSet(OutputsOf[f]) : index[o] # Absent
    /\ run.pc # "idle" => f \in ToSet(run.todo) \/ read[f] = spec[f]
    /\ verdict = "ok" => \A o \in ToSet(OutputsOf[f]) : index[o] = spec[f]

LEMMA OrderIsOfSpecs == ToSet(Order) \subseteq Specs
BY Assumptions DEF ToSet

LEMMA CheckoutInit == OutputsAreCommitted /\ Init => CheckoutInv
BY DEF OutputsAreCommitted, Init, CheckoutInv, NoRun

LEMMA CheckoutStep ==
  ASSUME TypeInv, RunInv, CheckoutInv, [Next]_vars
  PROVE  CheckoutInv'
<1>0. /\ run \in RunRecord /\ edits \in Nat
      /\ read \in [Specs -> {Absent} \union Version]
  BY Assumptions DEF TypeInv, TypeOK, RunRecord
<1>edit. ASSUME edits' = edits + 1 PROVE CheckoutInv'
  BY <1>0, <1>edit DEF CheckoutInv
<1> SUFFICES ASSUME edits' = 0, NEW f \in ToSet(Order), Good(spec'[f])
             PROVE  /\ \A o \in ToSet(OutputsOf[f]) : index'[o] # Absent
                    /\ run'.pc # "idle" => f \in ToSet(run'.todo) \/ read'[f] = spec'[f]
                    /\ verdict' = "ok" => \A o \in ToSet(OutputsOf[f]) : index'[o] = spec'[f]
  BY DEF CheckoutInv, Good, Version
<1>f. f \in Specs
  BY OrderIsOfSpecs
<1>same. ASSUME UNCHANGED <<spec, index, edits>>
         PROVE  /\ edits = 0 /\ Good(spec[f])
                /\ \A o \in ToSet(OutputsOf[f]) : index'[o] # Absent
                /\ run.pc # "idle" => f \in ToSet(run.todo) \/ read[f] = spec[f]
                /\ verdict = "ok" => \A o \in ToSet(OutputsOf[f]) : index[o] = spec[f]
  BY <1>same DEF CheckoutInv, Good, Version
<1>1. ASSUME NEW v \in BOOLEAN, Start(v)
      PROVE  /\ \A o \in ToSet(OutputsOf[f]) : index'[o] # Absent
             /\ run'.todo = Order /\ verdict' = "none"
  BY <1>1, <1>same DEF Start, NoRun
<1>2. CASE Generate
  <2>1. /\ run.pc = "next" /\ run.todo \in Seq(Specs) /\ run.todo # <<>>
        /\ UNCHANGED <<spec, index, verdict, edits>>
    BY <1>0, <1>2 DEF Generate, RunRecord
  <2>2. run'.todo = Tail(run.todo)
        /\ \A x \in ToSet(run.todo) : x = Head(run.todo) \/ x \in ToSet(Tail(run.todo))
    BY <1>0, <1>2, <2>1, HeadAndTail DEF Generate, RunRecord
  <2>3. CASE f = Head(run.todo)
    <3>1. read' = [read EXCEPT ![f] = spec[f]]
      BY <1>2, <1>same, <2>1, <2>3 DEF Generate
    <3>2. read'[f] = spec[f]
      BY <1>0, <1>f, <3>1
    <3> QED BY <1>same, <2>1, <3>2
  <2>4. CASE f # Head(run.todo)
    <3>1. read'[f] = read[f]
      BY <1>0, <1>2, <1>f, <2>4 DEF Generate
    <3> QED BY <1>same, <2>1, <2>2, <2>4, <3>1
  <2> QED BY <2>3, <2>4
<1>3. CASE WriteOutput
  <2>1. run.pc = "write" /\ run'.todo = run.todo
        /\ UNCHANGED <<spec, index, verdict, edits, read>>
    BY <1>0, <1>3 DEF WriteOutput, RunRecord
  <2> QED BY <1>same, <2>1
<1>4. CASE Finish
  <2>1. /\ run.pc = "next" /\ run.todo = <<>> /\ run'.pc = "idle"
        /\ UNCHANGED <<spec, index, edits, read>>
    BY <1>4 DEF Finish, NoRun
  <2>2. read[f] = spec[f] /\ \A o \in ToSet(OutputsOf[f]) : index'[o] # Absent
    BY <1>same, <2>1 DEF ToSet
  <2>3. ASSUME verdict' = "ok"
        PROVE  \A o \in ToSet(OutputsOf[f]) : index'[o] = spec'[f]
    <3>1. run.verify
      BY <1>4, <2>3 DEF Finish
    <3>2. Exact
      BY <1>4, <2>3, <3>1, FinishIsExact
    <3>3. read[f] # Absent
      BY <1>same, <2>1, <2>2 DEF Good, Version, Absent
    <3> QED BY <1>f, <2>1, <2>2, <3>2, <3>3 DEF Exact
  <2> QED BY <2>1, <2>2, <2>3
<1>5. CASE Developer \/ Interrupt
  BY <1>5, <1>0 DEF Developer, EditSpec, Stage, HandEdit, DistClean, Interrupt
<1>6. CASE UNCHANGED vars
  BY <1>6, <1>same DEF vars
<1> QED BY <1>1, <1>2, <1>3, <1>4, <1>5, <1>6 DEF Next, Script

\* In a checkout that has every output of the accepted specs committed, and in
\* which nobody edits, --verify says ok only if every one of them is what its
\* generator makes of its spec, also with the watcher at work.
THEOREM VerifiedWhereCommitted ==
  ASSUME OutputsAreCommitted
  PROVE  /\ Spec => []VerifiedMatchesSpecs
         /\ WSpec => []VerifiedMatchesSpecs
<1>1. CheckoutInv => VerifiedMatchesSpecs
  BY DEF CheckoutInv, VerifiedMatchesSpecs
<1>2. Init => CheckoutInv
  BY CheckoutInit
<1>3. TypeInv /\ RunInv /\ CheckoutInv /\ [Next]_vars => CheckoutInv'
  BY CheckoutStep
<1>4. Spec => []VerifiedMatchesSpecs
  BY <1>1, <1>2, <1>3, RegenInvariant, PTL DEF Spec
<1> QED BY <1>4, WatcherRunsRegen, PTL

-----------------------------------------------------------------------------
(* What keeps an edit from being forgotten: the safety part of             *)
(* EditsAreRegenerated.                                                    *)

\* The hash that the watcher's next comparison, or the one it has come to, will find
\* on the other side.
Compared(f) ==
  IF watcher \in {"poll", "compare"} /\ lastHash # NoHash THEN lastHash[f] ELSE hash[f]

\* The regeneration the watcher waits for has parsed f as it is, or is still to.
WillRead(f) ==
  /\ watcher = "regen" /\ run.pc # "idle"
  /\ f \in ToSet(run.todo) \/ read[f] = spec[f]

\* An edit of a spec that is not yet regenerated is never forgotten: the regeneration
\* that is on takes it in, or the watcher compares with a content that is not it.
EditsAreAhead ==
  watcher # "off" =>
    \A f \in pending \cap ToSet(Order) :
      Good(spec[f]) => WillRead(f) \/ Compared(f) \notin {Unread, spec[f]}

\* No content is newer than the newest, and the watcher has a hash to compare an edit
\* that is pending with.
AheadInv ==
  /\ EditsAreAhead
  /\ \A f \in Watched :
       /\ spec[f] <= latest[f] /\ hash[f] <= latest[f]
       /\ lastHash # NoHash => lastHash[f] <= latest[f]
  /\ latest \in [Specs -> {Absent} \union Version]
  /\ watcher # "off" => \A f \in pending : Compares(f)

LEMMA AheadInit == WInit => AheadInv
<1> SUFFICES ASSUME WInit PROVE AheadInv
  OBVIOUS
<1>1. spec \in [Specs -> {Absent} \union Version] /\ Watched \subseteq Specs
  BY RegenTypeInit, WatcherAssumption DEF WInit, TypeInv, TypeOK
<1>2. \A f \in Watched : spec[f] \in Int /\ spec[f] >= 0
  BY <1>1, RegenAssumption DEF Absent, Version
<1> QED BY <1>1, <1>2 DEF WInit, EmptyHash, Unread, AheadInv, EditsAreAhead

LEMMA AheadTypes ==
  ASSUME TypeInv, WatchInv, AheadInv
  PROVE  /\ spec \in [Specs -> {Absent} \union Version]
         /\ hash \in [Watched -> {Unread, Absent} \union Version]
         /\ lastHash = NoHash \/ lastHash \in [Watched -> {Absent} \union Version]
         /\ latest \in [Specs -> {Absent} \union Version]
         /\ Watched \subseteq Specs /\ pending \subseteq Watched
         /\ \A x \in {Unread, Absent} \union Version : x \in Int
         /\ Unread \notin {Absent} \union Version
         /\ \A f \in Specs : spec[f] \in Int /\ latest[f] \in Int
         /\ \A f \in Watched : hash[f] \in Int
BY WatcherAssumption, RegenAssumption
   DEF WatchInv, TypeInv, TypeOK, AheadInv, Version, Absent, Unread

\* The watched contents and the newest, in a step that does neither edit nor hash.
LEMMA AheadKept ==
  ASSUME AheadInv, UNCHANGED <<spec, hash, lastHash, latest>>,
         watcher' # "off" => watcher # "off",
         pending' \subseteq pending, EditsAreAhead'
  PROVE  AheadInv'
BY DEF AheadInv, Compares

\* The steps of the watcher.
LEMMA AheadLoop ==
  ASSUME TypeInv, WatchInv, AheadInv, Loop
  PROVE  AheadInv'
<1>0. /\ spec \in [Specs -> {Absent} \union Version]
      /\ hash \in [Watched -> {Unread, Absent} \union Version]
      /\ lastHash = NoHash \/ lastHash \in [Watched -> {Absent} \union Version]
      /\ Watched \subseteq Specs /\ pending \subseteq Watched
      /\ Unread \notin {Absent} \union Version
  BY AheadTypes
<1>whole. watcher \in {"compare", "regen", "build", "sleep"} =>
            \A f \in Watched : hash[f] # Unread
  BY DEF WatchInv
<1>1. ASSUME NEW f \in Watched, HashFile(f) PROVE AheadInv'
  <2>1. /\ watcher = "poll" /\ hash[f] = Unread /\ hash' = [hash EXCEPT ![f] = spec[f]]
        /\ watcher' \in {"compare", "poll"}
        /\ UNCHANGED <<spec, lastHash, latest, pending>>
    BY <1>1 DEF HashFile, vars
  <2>2. hash'[f] = spec[f] /\ \A g \in Watched \ {f} : hash'[g] = hash[g]
    BY <1>0, <2>1
  <2>3. \A g \in pending : lastHash = NoHash => hash[g] # Unread
    BY <2>1 DEF AheadInv, Compares
  <2>4. \A g \in pending : lastHash = NoHash => hash'[g] = hash[g]
    BY <1>0, <2>1, <2>2, <2>3
  <2>5. EditsAreAhead'
    <3> SUFFICES ASSUME NEW g \in pending \cap ToSet(Order), Good(spec[g])
                 PROVE  Compared(g)' \notin {Unread, spec[g]}
      BY <2>1 DEF EditsAreAhead, Good
    <3>1. Compared(g) \notin {Unread, spec[g]}
      BY <2>1 DEF AheadInv, EditsAreAhead, WillRead
    <3> QED BY <2>1, <2>4, <3>1 DEF Compared
  <2>6. \A g \in Watched : hash'[g] <= latest[g]
    BY <2>2 DEF AheadInv
  <2>7. \A g \in pending' : Compares(g)'
    BY <2>1, <2>3, <2>4 DEF Compares
  <2> QED BY <2>1, <2>5, <2>6, <2>7 DEF AheadInv
<1>2. CASE Same
  <2>1. /\ watcher = "compare" /\ watcher' = "sleep" /\ (hash = lastHash \/ lastHash = NoHash)
        /\ UNCHANGED <<spec, hash, lastHash, latest, pending>>
    BY <1>2 DEF Same, vars
  <2>2. EditsAreAhead'
    BY <2>1 DEF AheadInv, EditsAreAhead, Compared, WillRead, Good
  <2> QED BY <2>1, <2>2, AheadKept
<1>3. CASE Changed
  <2>1. /\ watcher = "compare" /\ watcher' = "regen"
        /\ run'.pc = "next" /\ run'.todo = Order
        /\ UNCHANGED <<spec, hash, lastHash, latest, pending>>
    BY <1>3 DEF Changed, Start, NoRun
  <2>2. EditsAreAhead'
    BY <2>1 DEF EditsAreAhead, WillRead
  <2> QED BY <2>1, <2>2, AheadKept
<1>4. CASE RegenDone \/ BuildDone
  <2>1. /\ watcher = "build" \/ (watcher = "regen" /\ run.pc = "idle")
        /\ watcher' \in {"build", "sleep"}
        /\ UNCHANGED <<spec, hash, lastHash, latest, pending>>
    BY <1>4 DEF RegenDone, BuildDone, vars
  <2>2. EditsAreAhead'
    BY <2>1 DEF AheadInv, EditsAreAhead, Compared, WillRead, Good
  <2> QED BY <2>1, <2>2, AheadKept
<1>5. CASE Sleep
  <2>1. /\ watcher = "sleep" /\ watcher' = "poll" /\ lastHash' = hash /\ hash' = EmptyHash
        /\ UNCHANGED <<spec, latest, pending>>
    BY <1>5 DEF Sleep, vars
  <2>2. ASSUME NEW f \in Watched PROVE hash # NoHash
    <3>1. DOMAIN hash = Watched /\ DOMAIN NoHash = {}
      BY <1>0 DEF NoHash
    <3> QED BY <3>1
  <2>3. EditsAreAhead'
    <3> SUFFICES ASSUME NEW f \in pending \cap ToSet(Order), Good(spec[f])
                 PROVE  Compared(f)' \notin {Unread, spec[f]}
      BY <2>1 DEF EditsAreAhead, Good
    <3>1. Compared(f) \notin {Unread, spec[f]}
      BY <2>1 DEF AheadInv, EditsAreAhead, WillRead
    <3>2. Compared(f) = hash[f] /\ Compared(f)' = hash[f]
      BY <1>0, <2>1, <2>2 DEF Compared
    <3> QED BY <3>1, <3>2
  <2>4. \A f \in Watched : hash'[f] <= latest[f]
    <3>1. \A f \in Watched : latest[f] \in Int /\ latest[f] >= 0
      BY <1>0, RegenAssumption DEF AheadInv, Absent, Version
    <3> QED BY <2>1, <3>1 DEF EmptyHash, Unread
  <2>5. \A f \in pending' : Compares(f)'
    BY <1>0, <2>1, <2>2 DEF Compares
  <2> QED BY <2>1, <2>3, <2>4, <2>5 DEF AheadInv
<1> QED BY <1>1, <1>2, <1>3, <1>4, <1>5 DEF Loop

\* An edit: its content is newer than all that was hashed.
LEMMA AheadEdit ==
  ASSUME ~Undo, TypeInv, WatchInv, AheadInv,
         NEW f \in Specs, NEW v \in {Absent} \union Version, WEditSpec(f, v)
  PROVE  AheadInv'
<1>0. /\ spec \in [Specs -> {Absent} \union Version]
      /\ hash \in [Watched -> {Unread, Absent} \union Version]
      /\ lastHash = NoHash \/ lastHash \in [Watched -> {Absent} \union Version]
      /\ latest \in [Specs -> {Absent} \union Version]
      /\ Watched \subseteq Specs /\ pending \subseteq Watched
      /\ \A x \in {Unread, Absent} \union Version : x \in Int
      /\ Unread \notin {Absent} \union Version
  BY AheadTypes
<1>1. /\ spec' = [spec EXCEPT ![f] = v] /\ (v = Absent \/ v > latest[f])
      /\ latest' = [latest EXCEPT ![f] = IF v > @ THEN v ELSE @]
      /\ pending' = IF f \in Watched /\ Compares(f) THEN pending \union {f} ELSE pending
      /\ UNCHANGED <<run, read, watcher, hash, lastHash>>
  BY DEF WEditSpec, EditSpec
<1>2. /\ spec'[f] = v /\ \A g \in Specs \ {f} : spec'[g] = spec[g]
      /\ latest'[f] = (IF v > latest[f] THEN v ELSE latest[f])
      /\ \A g \in Specs \ {f} : latest'[g] = latest[g]
      /\ latest' \in [Specs -> {Absent} \union Version]
  <2>1. (IF v > latest[f] THEN v ELSE latest[f]) \in {Absent} \union Version
    BY <1>0
  <2>2. /\ spec'[f] = v /\ \A g \in Specs \ {f} : spec'[g] = spec[g]
    BY <1>0, <1>1
  <2>3. /\ latest'[f] = (IF v > latest[f] THEN v ELSE latest[f])
        /\ \A g \in Specs \ {f} : latest'[g] = latest[g]
    BY <1>0, <1>1
  <2>4. latest' \in [Specs -> {Absent} \union Version]
    BY <1>0, <1>1, <2>1
  <2> QED BY <2>2, <2>3, <2>4
<1>3. \A g \in Specs : latest[g] \in Int /\ latest'[g] \in Int /\ latest[g] <= latest'[g]
  BY <1>0, <1>2
<1>4. \A g \in Watched :
        /\ spec'[g] <= latest'[g] /\ hash'[g] <= latest'[g]
        /\ lastHash' # NoHash => lastHash'[g] <= latest'[g]
  <2> SUFFICES ASSUME NEW g \in Watched
               PROVE  /\ spec'[g] <= latest'[g] /\ hash[g] <= latest'[g]
                      /\ lastHash # NoHash => lastHash[g] <= latest'[g]
    BY <1>1
  <2>1. /\ hash[g] \in Int /\ spec'[g] \in Int /\ g \in Specs
        /\ lastHash # NoHash => lastHash[g] \in Int
        /\ latest[g] \in Int /\ latest'[g] \in Int /\ latest[g] <= latest'[g]
    <3>1. g \in Specs /\ spec'[g] \in {Absent} \union Version
      BY <1>0, <1>2
    <3>2. hash[g] \in {Unread, Absent} \union Version
          /\ (lastHash # NoHash => lastHash[g] \in {Absent} \union Version)
      BY <1>0
    <3> QED BY <1>0, <1>3, <3>1, <3>2
  <2>2. hash[g] <= latest[g] /\ (lastHash # NoHash => lastHash[g] <= latest[g])
        /\ spec[g] <= latest[g]
    BY DEF AheadInv
  <2>3. spec'[g] <= latest'[g]
    <3>1. CASE g = f
      BY <1>0, <1>2, <1>3, <3>1
    <3>2. CASE g # f
      BY <1>2, <2>1, <2>2, <3>2
    <3> QED BY <3>1, <3>2
  <2> QED BY <2>1, <2>2, <2>3
<1>5. watcher # "off" => \A g \in pending' : Compares(g)'
  BY <1>1 DEF AheadInv, Compares
<1>6. ASSUME watcher # "off", NEW g \in pending' \cap ToSet(Order), Good(spec'[g])
      PROVE  WillRead(g)' \/ Compared(g)' \notin {Unread, spec'[g]}
  <2>0. g \in Watched
    BY <1>0, <1>1
  <2>1. Compared(g)' = Compared(g)
    BY <1>1 DEF Compared
  <2>2. CASE g = f
    <3>1. v > latest[f] /\ v \in Int
      BY <1>0, <1>1, <1>2, <1>6, <2>2 DEF Good, Absent, Version
    <3>2. Compares(f)
      BY <1>1, <1>6, <2>2 DEF AheadInv
    <3>3. Compared(f) # Unread
      BY <1>0, <1>6, <2>0, <2>2, <3>2 DEF Compared, Compares, WatchInv
    <3>4. Compared(f) <= latest[f] /\ Compared(f) \in Int
      BY <1>0, <2>0, <2>2 DEF Compared, AheadInv
    <3>5. Compared(f) # v
      BY <1>3, <3>1, <3>4
    <3> QED BY <1>2, <2>1, <2>2, <3>3, <3>5
  <2>3. CASE g # f
    <3>1. g \in pending /\ spec'[g] = spec[g]
      BY <1>0, <1>1, <1>2, <2>0, <2>3
    <3>2. WillRead(g) \/ Compared(g) \notin {Unread, spec[g]}
      BY <1>6, <3>1 DEF AheadInv, EditsAreAhead
    <3> QED BY <1>1, <2>1, <3>1, <3>2 DEF WillRead
  <2> QED BY <2>2, <2>3
<1>7. EditsAreAhead'
  BY <1>1, <1>6 DEF EditsAreAhead, Good
<1> QED BY <1>1, <1>2, <1>4, <1>5, <1>7 DEF AheadInv

\* The script goes on, by itself or for the watcher.
LEMMA AheadScript ==
  ASSUME TypeInv, RunInv, WatchInv, AheadInv,
         WFinish \/ (WOther /\ (Generate \/ WriteOutput))
  PROVE  AheadInv'
<1>0. /\ UNCHANGED <<spec, watcher, hash, lastHash, latest>> /\ pending' \subseteq pending
  BY DEF WFinish, Finish, WOther, Generate, WriteOutput, watch
<1>1. /\ run \in RunRecord /\ Order \in Seq(Specs) /\ read \in [Specs -> {Absent} \union Version]
      /\ pending \subseteq Specs
  BY Assumptions, AheadTypes DEF TypeInv, TypeOK, RunRecord
<1>2. ASSUME NEW f \in pending' \cap ToSet(Order), Good(spec[f]), WillRead(f)
      PROVE  WillRead(f)'
  <2>0. f \in Specs /\ f \in pending /\ watcher = "regen"
        /\ (f \in ToSet(run.todo) \/ read[f] = spec[f])
    BY <1>0, <1>1, <1>2 DEF WillRead
  <2>1. CASE WFinish
    <3>1. run.pc = "next" /\ run.todo = <<>> /\ f \notin ToSet(run.todo) /\ ~Current(f)
      BY <1>2, <2>1 DEF WFinish, Finish, ToSet
    <3>2. Done(f) /\ read[f] = spec[f] /\ read[f] # Absent
      BY <1>2, <2>0, <3>1 DEF RunInv, Good, Absent, Version
    <3> QED BY <3>1, <3>2 DEF Done, Due, Current
  <2>2. CASE Generate
    <3>1. run.pc = "next" /\ run.todo # <<>> /\ run.todo \in Seq(Specs)
      BY <1>1, <2>2 DEF Generate, RunRecord
    <3> DEFINE h == Head(run.todo)
    <3>2. h \in Specs /\ \A x \in ToSet(run.todo) : x = h \/ x \in ToSet(Tail(run.todo))
      BY <3>1, HeadAndTail
    <3>3. CASE Good(spec[h])
      <4>1. read' = [read EXCEPT ![h] = spec[h]]
            /\ run'.pc = "write" /\ run'.todo = Tail(run.todo)
        BY <1>1, <2>2, <3>3 DEF Generate, RunRecord
      <4>2. read'[h] = spec[h] /\ (f # h => read'[f] = read[f])
        BY <1>1, <2>0, <3>2, <4>1
      <4> QED BY <1>0, <2>0, <3>2, <4>1, <4>2 DEF WillRead
    <3>4. CASE ~Good(spec[h])
      <4>1. read' = read /\ run'.pc = "next" /\ run'.todo = Tail(run.todo)
        BY <1>1, <2>2, <3>1, <3>4 DEF Generate, RunRecord
      <4>2. f # h
        BY <1>2, <3>4
      <4> QED BY <1>0, <2>0, <3>2, <4>1, <4>2 DEF WillRead
    <3> QED BY <3>3, <3>4
  <2>3. CASE WriteOutput
    <3>1. read' = read /\ run'.pc \in {"next", "write"} /\ run'.todo = run.todo
      BY <1>1, <2>3 DEF WriteOutput, RunRecord
    <3> QED BY <1>0, <2>0, <3>1 DEF WillRead
  <2> QED BY <2>1, <2>2, <2>3
<1>3. EditsAreAhead'
  <2> SUFFICES ASSUME watcher # "off", NEW f \in pending' \cap ToSet(Order), Good(spec[f])
               PROVE  WillRead(f)' \/ Compared(f)' \notin {Unread, spec[f]}
    BY <1>0 DEF EditsAreAhead, Good
  <2>1. WillRead(f) \/ Compared(f) \notin {Unread, spec[f]}
    BY <1>0 DEF AheadInv, EditsAreAhead
  <2> QED BY <1>0, <1>2, <2>1 DEF Compared
<1> QED BY <1>0, <1>3, AheadKept

\* The developer's other steps, and what stops the watcher.
LEMMA AheadStep ==
  ASSUME ~Undo, TypeInv, RunInv, WatchInv, AheadInv, [WNext]_all
  PROVE  AheadInv'
<1>1. CASE Loop
  BY <1>1, AheadLoop
<1>2. CASE StartWatcher
  <2>1. /\ pending' = {} /\ lastHash' = NoHash /\ hash' = EmptyHash
        /\ UNCHANGED <<spec, latest>>
    BY <1>2 DEF StartWatcher, vars
  <2>2. \A f \in Watched : hash'[f] <= latest[f]
    <3>1. \A f \in Watched : latest[f] \in Int /\ latest[f] >= 0
      BY RegenAssumption, WatcherAssumption DEF AheadInv, Absent, Version
    <3> QED BY <2>1, <3>1 DEF EmptyHash, Unread
  <2> QED BY <2>1, <2>2 DEF AheadInv, EditsAreAhead
<1>3. ASSUME NEW f \in Specs, NEW v \in {Absent} \union Version, WEditSpec(f, v)
      PROVE  AheadInv'
  BY <1>3, AheadEdit
<1>4. CASE WFinish \/ (WOther /\ (Generate \/ WriteOutput))
  BY <1>4, AheadScript
<1>5. CASE WOther /\ ~Generate /\ ~WriteOutput
  <2>1. UNCHANGED <<spec, watcher, hash, lastHash, latest, pending>>
    BY <1>5 DEF WOther, watch, Stage, HandEdit, DistClean, Start
  <2>2. watcher = "regen" => UNCHANGED <<run, read>>
    BY <1>5 DEF WOther, Stage, HandEdit, DistClean
  <2>3. EditsAreAhead'
    BY <2>1, <2>2 DEF AheadInv, EditsAreAhead, WillRead, Compared, Good
  <2> QED BY <2>1, <2>3, AheadKept
<1>6. CASE WInterrupt
  <2>1. /\ UNCHANGED <<spec, hash, lastHash, latest, pending>>
        /\ watcher' = IF watcher = "regen" THEN "off" ELSE watcher
    BY <1>6 DEF WInterrupt, Interrupt
  <2>2. EditsAreAhead'
    BY <2>1 DEF AheadInv, EditsAreAhead, WillRead, Compared, Good
  <2> QED BY <2>1, <2>2, AheadKept
<1>7. CASE UNCHANGED all
  BY <1>7 DEF all, vars, watch, AheadInv, EditsAreAhead, WillRead, Compared, Compares, Good
<1> QED BY <1>1, <1>2, <1>3, <1>4, <1>5, <1>6, <1>7 DEF WNext

\* The watcher forgets no edit, if no edit gives a spec a content it had before: whatever
\* is edited, generated, staged or interrupted while it hashes, regenerates, builds or
\* sleeps, an edit that is pending is one the regeneration takes in or the next
\* comparison finds (feedback-loop.sh:66-108).
THEOREM NoEditIsForgotten ==
  ASSUME ~Undo
  PROVE  WSpec => []EditsAreAhead
<1>1. TypeInv /\ RunInv /\ WatchInv /\ AheadInv /\ [WNext]_all => AheadInv'
  BY AheadStep
<1>2. WSpec => [](TypeInv /\ RunInv)
  BY WatcherRunsRegen, RegenInvariant, PTL
<1>3. WInit => WatchInv
  BY WatchInit
<1>4. AheadInv => EditsAreAhead
  BY DEF AheadInv
<1> QED BY <1>1, <1>2, <1>3, <1>4, AheadInit, WatchStep, PTL DEF WSpec
=============================================================================
