--------------------------- MODULE GeneratorProofs ---------------------------
(***************************************************************************)
(* Theorems about SmParser, SchemaParser, Modes, Rules, SqlSpecs, Platforms *)
(* and UiPanels: what the parsers of the .sm, .schema, .msm, .rules, .sql,  *)
(* .impl and .ui files keep, for every file and all limits of their tables, *)
(* how the modal machine of an .msm file goes from mode to mode, what       *)
(* evaluate_all does with the rules, which implementation a build calls and *)
(* what a window shows.                                                     *)
(***************************************************************************)
EXTENDS SmParser, SchemaParser, Modes, Rules, SqlSpecs, Platforms, UiPanels, DataLemmas

Written == [event : EventNames, block : 1..Len(smStates), target : StateNames]

\* Where the author is in a block, the parser is in that block's state.
InItsBlock == smBlock # 0 => smCurrent = smBlock

SmInv ==
  /\ SmTypeOK /\ InItsBlock
  /\ TransitionsAreAsWritten /\ SmCallbacksStay /\ EventsHaveEnumerators

LEMMA SmLimits ==
  MaxSmStates \in Nat /\ MaxSmEvents \in Nat /\ MaxSmTransitions \in Nat /\ MaxSmLines \in Nat
BY SmAssumption

\* A sequence over a set is one over a larger set.
LEMMA SeqGrows ==
  ASSUME NEW S, NEW R, NEW s \in Seq(S), S \subseteq R
  PROVE  s \in Seq(R)
OBVIOUS

\* Each transition of the table was written in the block of some state.
LEMMA BlocksOfTransitions ==
  ASSUME SmInv
  PROVE  \A i \in DOMAIN smTransitions :
           i \in DOMAIN smWritten /\ smWritten[i].block \in 1..Len(smStates)
<1>1. /\ smTransitions \in Seq(SmTransition) /\ smWritten \in Seq(Written)
      /\ Len(smTransitions) <= Len(smWritten)
  BY SmLimits DEF SmInv, SmTypeOK, TransitionsAreAsWritten, Written
<1>2. /\ Len(smTransitions) \in Nat /\ Len(smWritten) \in Nat
      /\ DOMAIN smTransitions = 1..Len(smTransitions) /\ DOMAIN smWritten = 1..Len(smWritten)
      /\ \A i \in 1..Len(smWritten) : smWritten[i] \in Written
  BY <1>1
<1>3. \A w \in Written : w.block \in 1..Len(smStates)
  BY DEF Written
<1> QED BY <1>1, <1>2, <1>3

LEMMA SmInitInv == SmInit => SmInv
<1> SUFFICES ASSUME SmInit PROVE SmInv
  OBVIOUS
<1>1. SmTypeOK
  BY SmLimits DEF SmInit, SmTypeOK, SmState, SmTransition
<1>2. TransitionsAreAsWritten /\ SmCallbacksStay /\ EventsHaveEnumerators /\ InItsBlock
  BY SmLimits
     DEF SmInit, TransitionsAreAsWritten, SmCallbacksStay, EventsHaveEnumerators, InItsBlock
<1> QED BY <1>1, <1>2 DEF SmInv

LEMMA ReadsSmType == SmTypeOK /\ ReadsSm => smLines' \in 0..MaxSmLines
BY SmLimits DEF SmTypeOK, ReadsSm

\* A state line adds a state without callbacks, or refuses the file.
LEMMA StateLineStep ==
  ASSUME SmInv, NEW name \in StateNames, NEW oneLine \in BOOLEAN, SmStateLine(name, oneLine)
  PROVE  SmInv'
<1> DEFINE new == [name |-> name, callbacks |-> {}]
<1>1. /\ smLines' \in 0..MaxSmLines /\ smBlock = 0
      /\ UNCHANGED <<smTransitions, smEvents, smWritten, smCallbacks>>
  BY ReadsSmType DEF SmInv, SmStateLine
<1>2. CASE Len(smStates) >= MaxSmStates
  <2>1. UNCHANGED <<smStates, smCurrent, smBlock>> /\ smPhase' = "refused"
    BY <1>2 DEF SmStateLine
  <2> QED BY <1>1, <2>1
          DEF SmInv, SmTypeOK, InItsBlock, TransitionsAreAsWritten, SmCallbacksStay,
              EventsHaveEnumerators, KnownEvent
<1>3. CASE ~(Len(smStates) >= MaxSmStates)
  <2>1. /\ smStates' = Append(smStates, new) /\ smCurrent' = Len(smStates) + 1
        /\ smBlock' = IF oneLine THEN 0 ELSE Len(smStates) + 1
        /\ UNCHANGED smPhase
    BY <1>3 DEF SmStateLine
  <2>2. new \in SmState /\ new.callbacks = {} /\ smStates \in Seq(SmState)
    BY DEF SmState, SmInv, SmTypeOK
  <2> HIDE DEF new
  <2>3. /\ smStates' \in Seq(SmState) /\ Len(smStates') = Len(smStates) + 1
        /\ Len(smStates) \in Nat
        /\ \A i \in 1..Len(smStates) : smStates'[i] = smStates[i]
        /\ smStates'[Len(smStates) + 1] = new
        /\ DOMAIN smStates = 1..Len(smStates) /\ DOMAIN smStates' = 1..(Len(smStates) + 1)
    BY <2>1, <2>2, Appended
  <2>4. smWritten \in Seq(Written')
    <3>1. smWritten \in Seq(Written)
      BY DEF SmInv, SmTypeOK, Written
    <3>2. Written \subseteq Written'
      BY <2>3 DEF Written
    <3> HIDE DEF Written
    <3> QED BY <3>1, <3>2, SeqGrows
  <2>5. Len(smStates') <= MaxSmStates
    BY <1>3, <2>3, SmLimits
  <2>6. SmTypeOK'
    BY <1>1, <2>1, <2>3, <2>4, <2>5 DEF SmInv, SmTypeOK, Written
  <2>7. InItsBlock'
    BY <2>1 DEF InItsBlock
  <2>8. TransitionsAreAsWritten'
    <3> QED BY <1>1, <2>3, BlocksOfTransitions DEF SmInv, TransitionsAreAsWritten
  <2>9. SmCallbacksStay'
    <3>1. \A c \in Callbacks : <<Len(smStates) + 1, c>> \notin smCallbacks
      BY <2>3 DEF SmInv, SmTypeOK
    <3>2. ASSUME NEW s \in 1..Len(smStates), NEW c \in Callbacks
          PROVE  c \in smStates'[s].callbacks <=> <<s, c>> \in smCallbacks'
      BY <1>1, <2>3 DEF SmInv, SmCallbacksStay
    <3>3. ASSUME NEW c \in Callbacks
          PROVE  c \in smStates'[Len(smStates) + 1].callbacks
                   <=> <<Len(smStates) + 1, c>> \in smCallbacks'
      BY <1>1, <2>2, <2>3, <3>1
    <3>4. \A s \in DOMAIN smStates' : s \in 1..Len(smStates) \/ s = Len(smStates) + 1
      BY <2>3
    <3> QED BY <3>2, <3>3, <3>4 DEF SmCallbacksStay
  <2>10. EventsHaveEnumerators'
    BY <1>1 DEF SmInv, EventsHaveEnumerators, KnownEvent
  <2> QED BY <2>6, <2>7, <2>8, <2>9, <2>10 DEF SmInv
<1> QED BY <1>2, <1>3

LEMMA BraceLineStep ==
  ASSUME SmInv, SmBraceLine
  PROVE  SmInv'
<1>1. smLines' \in 0..MaxSmLines
  BY ReadsSmType DEF SmInv, SmBraceLine
<1>2. SmTypeOK'
  BY <1>1 DEF SmInv, SmTypeOK, SmBraceLine
<1> QED BY <1>2 DEF SmInv, SmBraceLine, InItsBlock, TransitionsAreAsWritten, SmCallbacksStay,
                    EventsHaveEnumerators, KnownEvent

\* entry: and exit: add to the callbacks of the state they stand in, and nothing to
\* the name of any.
LEMMA CallbackLineStep ==
  ASSUME SmInv, NEW callback \in Callbacks, SmCallbackLine(callback)
  PROVE  SmInv'
<1>1. /\ smLines' \in 0..MaxSmLines /\ smBlock # 0 /\ smCurrent = smBlock
      /\ smBlock \in 1..Len(smStates) /\ smStates \in Seq(SmState) /\ Len(smStates) \in Nat
      /\ DOMAIN smStates = 1..Len(smStates)
      /\ UNCHANGED <<smTransitions, smEvents, smCurrent, smWritten, smBlock, smPhase>>
  BY ReadsSmType DEF SmInv, SmTypeOK, SmCallbackLine, InItsBlock
<1>2. smStates' = [smStates EXCEPT ![smBlock].callbacks = @ \cup {callback}]
  BY <1>1 DEF SmCallbackLine
<1>3. smCallbacks' = smCallbacks \cup {<<smBlock, callback>>}
  BY DEF SmCallbackLine
<1>4. \A i \in 1..Len(smStates) : smStates[i] \in SmState
  BY <1>1
<1>5. /\ smStates' \in [1..Len(smStates) -> SmState]
      /\ \A i \in 1..Len(smStates) :
           /\ smStates'[i].name = smStates[i].name
           /\ i # smBlock => smStates'[i] = smStates[i]
      /\ smStates'[smBlock].callbacks = smStates[smBlock].callbacks \cup {callback}
  BY <1>1, <1>2, <1>4 DEF SmState
<1>6. smStates' \in Seq(SmState) /\ Len(smStates') = Len(smStates)
      /\ DOMAIN smStates' = DOMAIN smStates
  BY <1>1, <1>5
<1>7. SmTypeOK'
  BY <1>1, <1>3, <1>6 DEF SmInv, SmTypeOK
<1>8. TransitionsAreAsWritten'
  <2> QED BY <1>1, <1>5, BlocksOfTransitions DEF SmInv, TransitionsAreAsWritten
<1>9. SmCallbacksStay'
  BY <1>1, <1>3, <1>5, <1>6 DEF SmInv, SmCallbacksStay
<1> QED BY <1>1, <1>7, <1>8, <1>9 DEF SmInv, InItsBlock, EventsHaveEnumerators, KnownEvent

\* find_or_add_event keeps the enumerators apart and within their table, and the
\* event has one afterwards unless the table is full.
LEMMA NoteEventKeeps ==
  ASSUME SmInv, NEW event \in EventNames, NoteEvent(event)
  PROVE  /\ smEvents' \in Seq(EventNames) /\ Len(smEvents') <= MaxSmEvents
         /\ \A i, j \in DOMAIN smEvents' : smEvents'[i] = smEvents'[j] => i = j
         /\ Len(smEvents') = MaxSmEvents \/ KnownEvent(event)'
         /\ Len(smEvents) = MaxSmEvents => smEvents' = smEvents
         /\ \A e : KnownEvent(e) => KnownEvent(e)'
<1>1. /\ smEvents \in Seq(EventNames) /\ Len(smEvents) <= MaxSmEvents /\ Len(smEvents) \in Nat
      /\ \A i, j \in DOMAIN smEvents : smEvents[i] = smEvents[j] => i = j
      /\ DOMAIN smEvents = 1..Len(smEvents)
  BY DEF SmInv, SmTypeOK, EventsHaveEnumerators
<1>2. CASE KnownEvent(event) \/ Len(smEvents) >= MaxSmEvents
  <2>1. smEvents' = smEvents
    BY <1>2 DEF NoteEvent
  <2>2. Len(smEvents) = MaxSmEvents \/ KnownEvent(event)
    <3>1. Len(smEvents) >= MaxSmEvents => Len(smEvents) = MaxSmEvents
      <4>1. Len(smEvents) <= MaxSmEvents /\ Len(smEvents) \in Nat
        BY <1>1
      <4> QED BY <4>1, SmLimits
    <3> QED BY <1>2, <3>1
  <2>3. \A e : KnownEvent(e) => KnownEvent(e)'
    BY <2>1 DEF KnownEvent
  <2> QED BY <1>1, <2>1, <2>2, <2>3 DEF KnownEvent
<1>3. CASE ~(KnownEvent(event) \/ Len(smEvents) >= MaxSmEvents)
  <2>1. smEvents' = Append(smEvents, event)
    BY <1>3 DEF NoteEvent
  <2>2. /\ smEvents' \in Seq(EventNames) /\ Len(smEvents') = Len(smEvents) + 1
        /\ DOMAIN smEvents' = 1..(Len(smEvents) + 1)
        /\ \A i \in 1..Len(smEvents) : smEvents'[i] = smEvents[i]
        /\ smEvents'[Len(smEvents) + 1] = event
    BY <1>1, <2>1, Appended
  <2>3. \A i \in 1..Len(smEvents) : smEvents[i] # event
    BY <1>1, <1>3 DEF KnownEvent
  <2>4. \A i, j \in DOMAIN smEvents' : smEvents'[i] = smEvents'[j] => i = j
    BY <1>1, <2>2, <2>3
  <2>5. KnownEvent(event)' /\ \A e : KnownEvent(e) => KnownEvent(e)'
    BY <1>1, <2>2 DEF KnownEvent
  <2>6. Len(smEvents) < MaxSmEvents
    BY <1>1, <1>3, SmLimits
  <2>7. Len(smEvents') <= MaxSmEvents
    BY <1>1, <2>2, <2>6, SmLimits
  <2> QED BY <1>1, <2>2, <2>4, <2>5, <2>6, <2>7
<1> QED BY <1>2, <1>3

\* The table of events after a transition line, whose transition is in the table
\* from here on or not at all.
LEMMA EventsAfter ==
  ASSUME SmInv, NEW event \in EventNames,
         \/ NoteEvent(event)
         \/ UNCHANGED smEvents
  PROVE  /\ smEvents' \in Seq(EventNames) /\ Len(smEvents') <= MaxSmEvents
         /\ \A i, j \in DOMAIN smEvents' : smEvents'[i] = smEvents'[j] => i = j
         /\ \/ Len(smEvents') = MaxSmEvents
            \/ \A i \in DOMAIN smTransitions :
                 \E j \in DOMAIN smEvents' : smEvents'[j] = smTransitions[i].event
<1>1. CASE UNCHANGED smEvents
  BY <1>1 DEF SmInv, SmTypeOK, EventsHaveEnumerators, KnownEvent
<1>2. CASE NoteEvent(event)
  <2>1. /\ smEvents' \in Seq(EventNames) /\ Len(smEvents') <= MaxSmEvents
        /\ \A i, j \in DOMAIN smEvents' : smEvents'[i] = smEvents'[j] => i = j
    BY <1>2, NoteEventKeeps
  <2>2. CASE Len(smEvents) = MaxSmEvents
    BY <1>2, <2>1, <2>2, NoteEventKeeps
  <2>3. CASE \A i \in DOMAIN smTransitions : KnownEvent(smTransitions[i].event)
    <3>1. \A e : KnownEvent(e) => KnownEvent(e)'
      BY <1>2, NoteEventKeeps
    <3>2. ASSUME NEW i \in DOMAIN smTransitions
          PROVE  \E j \in DOMAIN smEvents' : smEvents'[j] = smTransitions[i].event
      <4> DEFINE e == smTransitions[i].event
      <4>1. KnownEvent(e)
        BY <2>3
      <4> HIDE DEF e
      <4>2. \E j \in DOMAIN smEvents' : smEvents'[j] = e
        BY <4>1, <3>1 DEF KnownEvent
      <4> QED BY <4>2 DEF e
    <3> QED BY <2>1, <3>2
  <2> QED BY <2>2, <2>3 DEF SmInv, EventsHaveEnumerators
<1> QED BY <1>1, <1>2

LEMMA OnLineWithoutArrowStep ==
  ASSUME SmInv, NEW event \in EventNames, SmOnLineWithoutArrow(event)
  PROVE  SmInv'
<1>1. /\ smLines' \in 0..MaxSmLines
      /\ UNCHANGED <<smStates, smTransitions, smCurrent, smWritten, smCallbacks, smBlock,
                     smPhase>>
      /\ NoteEvent(event) \/ UNCHANGED smEvents
  BY ReadsSmType DEF SmInv, SmOnLineWithoutArrow
<1>2. EventsHaveEnumerators' /\ smEvents' \in Seq(EventNames) /\ Len(smEvents') <= MaxSmEvents
  BY <1>1, EventsAfter DEF EventsHaveEnumerators, KnownEvent
<1>3. SmTypeOK'
  <2>1. smWritten' \in Seq(Written') /\ Written' = Written
    BY <1>1 DEF SmInv, SmTypeOK, Written
  <2> QED BY <1>1, <1>2, <2>1 DEF SmInv, SmTypeOK, Written
<1> QED BY <1>1, <1>2, <1>3
        DEF SmInv, InItsBlock, TransitionsAreAsWritten, SmCallbacksStay

\* A whole transition line: the transition enters the table with the name of the
\* state it is written in, or the table is full and stays the first part of the file.
LEMMA OnLineStep ==
  ASSUME SmInv, NEW event \in EventNames, NEW target \in StateNames, SmOnLine(event, target)
  PROVE  SmInv'
<1> DEFINE line == [event |-> event, block |-> smBlock, target |-> target]
           t == [event |-> event, source |-> smStates[smCurrent].name, target |-> target]
<1>1. /\ smLines' \in 0..MaxSmLines /\ smBlock # 0 /\ smCurrent = smBlock
      /\ smBlock \in 1..Len(smStates) /\ smStates \in Seq(SmState) /\ Len(smStates) \in Nat
      /\ smWritten' = Append(smWritten, line)
      /\ UNCHANGED <<smStates, smCurrent, smCallbacks, smBlock, smPhase>>
  BY ReadsSmType DEF SmInv, SmTypeOK, SmOnLine, InItsBlock
<1>2. smStates[smBlock] \in SmState
  BY <1>1
<1>3. t \in SmTransition /\ line \in Written
  BY <1>1, <1>2 DEF SmState, SmTransition, Written
<1>4. /\ t.event = event /\ t.target = target /\ t.source = smStates[smBlock].name
      /\ line.event = event /\ line.target = target /\ line.block = smBlock
  BY <1>1
<1>5. \/ HasRoom /\ NoteEvent(event) /\ smTransitions' = Append(smTransitions, t)
      \/ ~HasRoom /\ UNCHANGED <<smEvents, smTransitions>>
  BY <1>1 DEF SmOnLine
<1> HIDE DEF line, t
<1>6. /\ smWritten \in Seq(Written) /\ smTransitions \in Seq(SmTransition)
      /\ Len(smWritten) \in Nat /\ Len(smTransitions) \in Nat
      /\ DOMAIN smWritten = 1..Len(smWritten) /\ DOMAIN smTransitions = 1..Len(smTransitions)
  BY DEF SmInv, SmTypeOK, Written
<1>7. /\ smWritten' \in Seq(Written) /\ Len(smWritten') = Len(smWritten) + 1
      /\ \A i \in 1..Len(smWritten) : smWritten'[i] = smWritten[i]
      /\ smWritten'[Len(smWritten) + 1] = line
  BY <1>1, <1>3, <1>6, Appended
<1>8. /\ smEvents' \in Seq(EventNames) /\ Len(smEvents') <= MaxSmEvents
      /\ \A i, j \in DOMAIN smEvents' : smEvents'[i] = smEvents'[j] => i = j
      /\ \/ Len(smEvents') = MaxSmEvents
         \/ \A i \in DOMAIN smTransitions :
              \E j \in DOMAIN smEvents' : smEvents'[j] = smTransitions[i].event
  BY <1>5, EventsAfter
<1>9. Len(smTransitions) = IF Len(smWritten) <= MaxSmTransitions THEN Len(smWritten)
                           ELSE MaxSmTransitions
  BY DEF SmInv, TransitionsAreAsWritten
<1>12. Len(smTransitions) \in Nat /\ Len(smWritten) \in Nat
  BY <1>6
<1>10. CASE HasRoom
  <2>1. /\ NoteEvent(event) /\ smTransitions' = Append(smTransitions, t)
        /\ Len(smTransitions) < MaxSmTransitions
    BY <1>5, <1>10 DEF HasRoom
  <2>2. /\ smTransitions' \in Seq(SmTransition)
        /\ Len(smTransitions') = Len(smTransitions) + 1
        /\ DOMAIN smTransitions' = 1..(Len(smTransitions) + 1)
        /\ \A i \in 1..Len(smTransitions) : smTransitions'[i] = smTransitions[i]
        /\ smTransitions'[Len(smTransitions) + 1] = t
    BY <1>3, <1>6, <2>1, Appended
  <2>3. Len(smTransitions) = Len(smWritten)
    BY <1>9, <1>12, <2>1, SmLimits
  <2>4. Len(smTransitions') <= MaxSmTransitions
    BY <1>6, <2>1, <2>2, SmLimits
  <2>5. SmTypeOK'
    BY <1>1, <1>7, <1>8, <2>2, <2>4 DEF SmInv, SmTypeOK, Written
  <2>6. TransitionsAreAsWritten'
    <3>1. Len(smTransitions') = IF Len(smWritten') <= MaxSmTransitions THEN Len(smWritten')
                                ELSE MaxSmTransitions
      BY <1>6, <1>7, <2>2, <2>3, <2>4, SmLimits
    <3>2. ASSUME NEW i \in 1..(Len(smTransitions) + 1)
          PROVE  /\ smTransitions'[i].event = smWritten'[i].event
                 /\ smTransitions'[i].target = smWritten'[i].target
                 /\ smTransitions'[i].source = smStates'[smWritten'[i].block].name
      <4>1. CASE i = Len(smTransitions) + 1
        BY <1>1, <1>4, <1>7, <2>2, <2>3, <4>1
      <4>2. CASE i \in 1..Len(smTransitions)
        BY <1>1, <1>6, <1>7, <2>2, <2>3, <4>2 DEF SmInv, TransitionsAreAsWritten
      <4> QED BY <1>6, <4>1, <4>2
    <3> QED BY <2>2, <3>1, <3>2 DEF TransitionsAreAsWritten
  <2>7. EventsHaveEnumerators'
    <3>1. \/ Len(smEvents') = MaxSmEvents
          \/ \E j \in DOMAIN smEvents' : smEvents'[j] = event
      BY <2>1, NoteEventKeeps DEF KnownEvent
    <3>2. CASE Len(smEvents') = MaxSmEvents
      <4>1. \A i, j \in DOMAIN smEvents' : smEvents'[i] = smEvents'[j] => i = j
        BY <1>8
      <4> QED BY <3>2, <4>1 DEF EventsHaveEnumerators
    <3>3. CASE /\ \E j \in DOMAIN smEvents' : smEvents'[j] = event
               /\ \A i \in DOMAIN smTransitions :
                    \E j \in DOMAIN smEvents' : smEvents'[j] = smTransitions[i].event
      <4>1. \A i \in 1..(Len(smTransitions) + 1) : i \in 1..Len(smTransitions)
                                                     \/ i = Len(smTransitions) + 1
        BY <1>6
      <4>2. \A i \in 1..(Len(smTransitions) + 1) :
              \E j \in DOMAIN smEvents' : smEvents'[j] = smTransitions'[i].event
        BY <1>4, <1>6, <2>2, <3>3, <4>1
      <4> QED BY <1>8, <2>2, <4>2 DEF EventsHaveEnumerators, KnownEvent
    <3> QED BY <1>8, <3>1, <3>2, <3>3
  <2>8. InItsBlock' /\ SmCallbacksStay'
    BY <1>1 DEF SmInv, InItsBlock, SmCallbacksStay
  <2> QED BY <2>5, <2>6, <2>7, <2>8 DEF SmInv
<1>11. CASE ~HasRoom
  <2>1. UNCHANGED <<smEvents, smTransitions>> /\ ~(Len(smTransitions) < MaxSmTransitions)
    BY <1>5, <1>11 DEF HasRoom
  <2>2. Len(smTransitions) = MaxSmTransitions /\ MaxSmTransitions <= Len(smWritten)
    BY <1>9, <1>12, <2>1, SmLimits
  <2>3. SmTypeOK'
    BY <1>1, <1>7, <2>1 DEF SmInv, SmTypeOK, Written
  <2>4. TransitionsAreAsWritten'
    <3>1. Len(smTransitions') = IF Len(smWritten') <= MaxSmTransitions THEN Len(smWritten')
                                ELSE MaxSmTransitions
      BY <1>6, <1>7, <2>1, <2>2, SmLimits
    <3>2. \A i \in 1..Len(smTransitions) : i \in 1..Len(smWritten)
      BY <1>6, <2>2, SmLimits
    <3> QED BY <1>1, <1>6, <1>7, <2>1, <3>1, <3>2 DEF SmInv, TransitionsAreAsWritten
  <2> QED BY <1>1, <2>1, <2>3, <2>4
          DEF SmInv, InItsBlock, SmCallbacksStay, EventsHaveEnumerators, KnownEvent
<1> QED BY <1>10, <1>11

LEMMA SmStutter == SmInv /\ UNCHANGED smVars => SmInv'
BY DEF smVars, SmInv, SmTypeOK, InItsBlock, TransitionsAreAsWritten, SmCallbacksStay,
       EventsHaveEnumerators, KnownEvent

LEMMA SmInvariant == SmSpec => []SmInv
<1>1. SmInv /\ [SmNext]_smVars => SmInv'
  BY StateLineStep, BraceLineStep, CallbackLineStep, OnLineStep, OnLineWithoutArrowStep,
     SmStutter DEF SmNext
<1> QED BY <1>1, SmInitInv, PTL DEF SmSpec

-----------------------------------------------------------------------------
\* The parser's tables keep their types and their limits, whatever the file
\* (smgen.c:102, :113, :225).
THEOREM SmTypeSafe == SmSpec => []SmTypeOK
<1>1. SmInv => SmTypeOK
  BY DEF SmInv
<1> QED BY <1>1, SmInvariant, PTL

\* The table of transitions is the beginning of the file's, in its order and each
\* with the name of the state it stands in (smgen.c:107-154, :276).
THEOREM TransitionsFromTheFile == SmSpec => []TransitionsAreAsWritten
<1>1. SmInv => TransitionsAreAsWritten
  BY DEF SmInv
<1> QED BY <1>1, SmInvariant, PTL

\* entry and exit callbacks stay with the state they are written in
\* (smgen.c:248-272).
THEOREM CallbacksFromTheFile == SmSpec => []SmCallbacksStay
<1>1. SmInv => SmCallbacksStay
  BY DEF SmInv
<1> QED BY <1>1, SmInvariant, PTL

\* No event has two enumerators, and each that a transition waits for has one as
\* long as the table is not full (smgen.c:98-105).
THEOREM EnumeratorsForEvents == SmSpec => []EventsHaveEnumerators
<1>1. SmInv => EventsHaveEnumerators
  BY DEF SmInv
<1> QED BY <1>1, SmInvariant, PTL

\* With the names of the states apart, the case of a state holds the transitions
\* written in it and no others (smgen.c:459-471).
THEOREM CasesFromTheirBlock == SmSpec => []CasesAreOfTheirBlock
<1>1. ASSUME SmInv, DistinctNames, NEW s \in DOMAIN smStates
      PROVE  CasesOf(s) = {i \in DOMAIN smTransitions : smWritten[i].block = s}
  <2>1. DOMAIN smStates = 1..Len(smStates)
    BY <1>1 DEF SmInv, SmTypeOK
  <2>2. ASSUME NEW i \in DOMAIN smTransitions
        PROVE  smTransitions[i].source = smStates[s].name <=> smWritten[i].block = s
    <3>1. /\ smWritten[i].block \in DOMAIN smStates
          /\ smTransitions[i].source = smStates[smWritten[i].block].name
      BY <1>1, <2>1, BlocksOfTransitions DEF SmInv, TransitionsAreAsWritten
    <3> QED BY <1>1, <3>1 DEF DistinctNames
  <2> QED BY <2>2 DEF CasesOf
<1>2. SmInv => CasesAreOfTheirBlock
  BY <1>1 DEF CasesAreOfTheirBlock
<1> QED BY <1>2, SmInvariant, PTL
\* What smgen keeps of a file, up to its limits, is what the file says: the
\* transitions, callbacks, enumerators and cases (smgen.c:98-154, :248-276, :459-471).
THEOREM TablesFromTheFile == SmSpec => []SmTablesAreTheFile
<1>1. /\ TransitionsAreAsWritten /\ SmCallbacksStay
      /\ EventsHaveEnumerators /\ CasesAreOfTheirBlock
      => SmTablesAreTheFile
  BY DEF SmTablesAreTheFile
<1> QED BY <1>1, TransitionsFromTheFile, CallbacksFromTheFile, EnumeratorsForEvents,
           CasesFromTheirBlock, PTL

-----------------------------------------------------------------------------

ParsedFields == {ParsedField(line) : line \in FieldLines}

\* Each type is its block, field by field.
TypesAreTheirBlocks ==
  /\ schemaTypes \in Seq(Seq(ParsedFields)) /\ schemaWritten \in Seq(Seq(FieldLines))
  /\ Len(schemaTypes) = Len(schemaWritten)
  /\ \A i \in 1..Len(schemaTypes) :
       /\ Len(schemaTypes[i]) = Len(schemaWritten[i])
       /\ \A j \in 1..Len(schemaTypes[i]) : schemaTypes[i][j] = ParsedField(schemaWritten[i][j])

SchemaInv == SchemaParserTypeOK /\ TypesAreTheirBlocks

LEMMA SchemaLimits ==
  MaxSchemaTypes \in Nat /\ MaxSchemaFields \in Nat /\ MaxSchemaLines \in Nat
BY SchemaParserAssumption

LEMMA SchemaInitInv == SchemaParserInit => SchemaInv
BY SchemaLimits DEF SchemaParserInit, SchemaInv, SchemaParserTypeOK, TypesAreTheirBlocks

LEMMA SchemaTypeLineInv ==
  ASSUME SchemaInv, NEW oneLine \in BOOLEAN, SchemaTypeLine(oneLine) PROVE SchemaInv'
<1>1. CASE Len(schemaTypes) >= MaxSchemaTypes
  <2>1. schemaPhase' = "refused"
        /\ UNCHANGED <<schemaTypes, schemaCurrent, schemaWritten, schemaBlock>>
    BY <1>1 DEF SchemaTypeLine
  <2> QED BY <2>1 DEF SchemaInv, SchemaParserTypeOK, TypesAreTheirBlocks
<1>2. CASE ~(Len(schemaTypes) >= MaxSchemaTypes)
  <2>1. /\ schemaTypes' = Append(schemaTypes, <<>>)
        /\ schemaCurrent' = Len(schemaTypes) + 1
        /\ schemaWritten' = Append(schemaWritten, <<>>)
        /\ schemaBlock' \in {0, Len(schemaTypes) + 1}
        /\ schemaPhase' = schemaPhase
    BY <1>2 DEF SchemaTypeLine
  <2>2. /\ schemaTypes \in Seq(Seq(ParsedFields)) /\ schemaWritten \in Seq(Seq(FieldLines))
        /\ Len(schemaTypes) = Len(schemaWritten)
        /\ <<>> \in Seq(ParsedFields) /\ <<>> \in Seq(FieldLines)
    BY DEF SchemaInv, TypesAreTheirBlocks
  <2>3. /\ schemaTypes' \in Seq(Seq(ParsedFields)) /\ schemaWritten' \in Seq(Seq(FieldLines))
        /\ Len(schemaTypes') = Len(schemaTypes) + 1 /\ Len(schemaTypes) \in Nat
        /\ Len(schemaWritten') = Len(schemaTypes) + 1
        /\ DOMAIN schemaTypes = 1..Len(schemaTypes)
        /\ DOMAIN schemaTypes' = 1..(Len(schemaTypes) + 1)
        /\ \A i \in 1..Len(schemaTypes) :
             schemaTypes'[i] = schemaTypes[i] /\ schemaWritten'[i] = schemaWritten[i]
        /\ schemaTypes'[Len(schemaTypes) + 1] = <<>>
        /\ schemaWritten'[Len(schemaTypes) + 1] = <<>>
    BY <2>1, <2>2, Appended
  <2>4. \A i \in 1..(Len(schemaTypes) + 1) : i \in 1..Len(schemaTypes) \/ i = Len(schemaTypes) + 1
    BY <2>3
  <2>5. SchemaParserTypeOK'
    <3>1. /\ Len(schemaTypes') <= MaxSchemaTypes
          /\ schemaCurrent' \in 0..Len(schemaTypes') /\ schemaBlock' \in {0, schemaCurrent'}
          /\ schemaPhase' \in {"spec", "refused"}
      BY <1>2, <2>1, <2>3, SchemaLimits DEF SchemaInv, SchemaParserTypeOK
    <3>2. \A i \in DOMAIN schemaTypes' : Len(schemaTypes'[i]) <= MaxSchemaFields
      <4> SUFFICES ASSUME NEW i \in DOMAIN schemaTypes'
                   PROVE  Len(schemaTypes'[i]) <= MaxSchemaFields
        OBVIOUS
      <4>1. CASE i \in 1..Len(schemaTypes)
        BY <4>1, <2>3 DEF SchemaInv, SchemaParserTypeOK
      <4>2. CASE i = Len(schemaTypes) + 1
        BY <4>2, <2>3, SchemaLimits
      <4> QED BY <4>1, <4>2, <2>3, <2>4
    <3> QED BY <3>1, <3>2 DEF SchemaParserTypeOK
  <2>6. \A i \in 1..Len(schemaTypes') :
          /\ Len(schemaTypes'[i]) = Len(schemaWritten'[i])
          /\ \A j \in 1..Len(schemaTypes'[i]) :
               schemaTypes'[i][j] = ParsedField(schemaWritten'[i][j])
    <3> SUFFICES ASSUME NEW i \in 1..Len(schemaTypes')
                 PROVE  /\ Len(schemaTypes'[i]) = Len(schemaWritten'[i])
                        /\ \A j \in 1..Len(schemaTypes'[i]) :
                             schemaTypes'[i][j] = ParsedField(schemaWritten'[i][j])
      OBVIOUS
    <3>1. CASE i \in 1..Len(schemaTypes)
      BY <3>1, <2>3 DEF SchemaInv, TypesAreTheirBlocks
    <3>2. CASE i = Len(schemaTypes) + 1
      BY <3>2, <2>3
    <3> QED BY <3>1, <3>2, <2>3, <2>4
  <2> QED BY <2>3, <2>5, <2>6 DEF SchemaInv, TypesAreTheirBlocks, ParsedField
<1> QED BY <1>1, <1>2

LEMMA SchemaFieldLineInv ==
  ASSUME SchemaInv, NEW line \in FieldLines, SchemaFieldLine(line) PROVE SchemaInv'
<1> DEFINE c == schemaCurrent
<1>0. schemaBlock # 0 /\ c \in 1..Len(schemaTypes) /\ schemaBlock = c
      /\ UNCHANGED <<schemaCurrent, schemaBlock>>
  BY DEF SchemaFieldLine, SchemaInv, SchemaParserTypeOK, TypesAreTheirBlocks
<1>1. CASE Len(schemaTypes[schemaCurrent]) >= MaxSchemaFields
  <2>1. schemaPhase' = "refused" /\ UNCHANGED <<schemaTypes, schemaWritten>>
    BY <1>1 DEF SchemaFieldLine
  <2> QED BY <1>0, <2>1 DEF SchemaInv, SchemaParserTypeOK, TypesAreTheirBlocks
<1>2. CASE ~(Len(schemaTypes[schemaCurrent]) >= MaxSchemaFields)
  <2> DEFINE f == ParsedField(line)
             n == Len(schemaTypes[c])
  <2>1. /\ schemaTypes' = [schemaTypes EXCEPT ![c] = Append(@, f)]
        /\ schemaWritten' = [schemaWritten EXCEPT ![c] = Append(@, line)]
        /\ schemaPhase' = schemaPhase
    BY <1>0, <1>2 DEF SchemaFieldLine
  <2>2. /\ schemaTypes \in Seq(Seq(ParsedFields)) /\ schemaWritten \in Seq(Seq(FieldLines))
        /\ Len(schemaTypes) = Len(schemaWritten) /\ Len(schemaWritten[c]) = n
        /\ f \in ParsedFields
    BY <1>0 DEF SchemaInv, TypesAreTheirBlocks, ParsedFields
  <2>3. /\ schemaTypes' \in Seq(Seq(ParsedFields)) /\ Len(schemaTypes') = Len(schemaTypes)
        /\ Len(schemaTypes'[c]) = n + 1 /\ schemaTypes'[c][n + 1] = f
        /\ \A j \in 1..n : schemaTypes'[c][j] = schemaTypes[c][j]
        /\ \A k \in 1..Len(schemaTypes) : k # c => schemaTypes'[k] = schemaTypes[k]
        /\ \A k \in 1..Len(schemaTypes) : Len(schemaTypes[k]) \in Nat
    <3> HIDE DEF f
    <3> QED BY <1>0, <2>1, <2>2, AppendedAt
  <2>4. /\ schemaWritten' \in Seq(Seq(FieldLines)) /\ Len(schemaWritten') = Len(schemaTypes)
        /\ Len(schemaWritten'[c]) = n + 1 /\ schemaWritten'[c][n + 1] = line
        /\ \A j \in 1..n : schemaWritten'[c][j] = schemaWritten[c][j]
        /\ \A k \in 1..Len(schemaTypes) : k # c => schemaWritten'[k] = schemaWritten[k]
    <3> HIDE DEF f
    <3> QED BY <1>0, <2>1, <2>2, AppendedAt
  <2>5. SchemaParserTypeOK'
    <3>1. DOMAIN schemaTypes' = 1..Len(schemaTypes) /\ DOMAIN schemaTypes = 1..Len(schemaTypes)
      BY <2>2, <2>3
    <3>2. \A i \in DOMAIN schemaTypes' : Len(schemaTypes'[i]) <= MaxSchemaFields
      <4>1. \A i \in DOMAIN schemaTypes : Len(schemaTypes[i]) <= MaxSchemaFields
        BY DEF SchemaInv, SchemaParserTypeOK
      <4>2. n \in Nat /\ n < MaxSchemaFields
        BY <1>0, <1>2, <2>3, SchemaLimits
      <4> HIDE DEF f, n, c
      <4>3. Len(schemaTypes'[c]) <= MaxSchemaFields
        BY <2>3, <4>2, SchemaLimits
      <4>4. ASSUME NEW i \in 1..Len(schemaTypes) PROVE Len(schemaTypes'[i]) <= MaxSchemaFields
        <5>1. CASE i = c
          BY <4>3, <5>1
        <5>2. CASE i # c
          <6>1. schemaTypes'[i] = schemaTypes[i]
            BY <2>3, <5>2
          <6> QED BY <3>1, <4>1, <6>1
        <5> QED BY <5>1, <5>2
      <4> QED BY <3>1, <4>4
    <3>3. /\ schemaCurrent' = schemaCurrent /\ schemaPhase' = schemaPhase
          /\ schemaBlock' = schemaBlock /\ Len(schemaTypes') = Len(schemaTypes)
      BY <1>0, <2>1, <2>3
    <3> HIDE DEF f, n, c
    <3> QED BY <3>2, <3>3 DEF SchemaInv, SchemaParserTypeOK
  <2>6. \A i \in 1..Len(schemaTypes') :
          /\ Len(schemaTypes'[i]) = Len(schemaWritten'[i])
          /\ \A j \in 1..Len(schemaTypes'[i]) :
               schemaTypes'[i][j] = ParsedField(schemaWritten'[i][j])
    <3> SUFFICES ASSUME NEW i \in 1..Len(schemaTypes)
                 PROVE  /\ Len(schemaTypes'[i]) = Len(schemaWritten'[i])
                        /\ \A j \in 1..Len(schemaTypes'[i]) :
                             schemaTypes'[i][j] = ParsedField(schemaWritten'[i][j])
      BY <2>3
    <3>1. CASE i # c
      BY <3>1, <2>3, <2>4 DEF SchemaInv, TypesAreTheirBlocks
    <3>2. CASE i = c
      <4>1. \A j \in 1..n : schemaTypes[c][j] = ParsedField(schemaWritten[c][j])
        BY <1>0 DEF SchemaInv, TypesAreTheirBlocks
      <4>2. ASSUME NEW j \in 1..(n + 1)
            PROVE  schemaTypes'[c][j] = ParsedField(schemaWritten'[c][j])
        <5>1. n \in Nat
          BY <1>0, <2>3
        <5>2. CASE j = n + 1
          BY <5>2, <2>3, <2>4
        <5>3. CASE j \in 1..n
          BY <5>3, <4>1, <2>3, <2>4
        <5> QED BY <5>1, <5>2, <5>3
      <4> QED BY <3>2, <4>2, <2>3, <2>4
    <3> QED BY <3>1, <3>2
  <2>7. /\ Len(schemaTypes') = Len(schemaWritten')
        /\ schemaTypes' \in Seq(Seq(ParsedFields)) /\ schemaWritten' \in Seq(Seq(FieldLines))
        /\ schemaCurrent' = schemaCurrent /\ schemaBlock' = schemaBlock
    BY <1>0, <2>3, <2>4
  <2> HIDE DEF f, n, c
  <2> QED BY <2>5, <2>6, <2>7 DEF SchemaInv, TypesAreTheirBlocks
<1> QED BY <1>1, <1>2

LEMMA SchemaNextInv == SchemaInv /\ [SchemaParserNext]_parserVars => SchemaInv'
<1> SUFFICES ASSUME SchemaInv, [SchemaParserNext]_parserVars PROVE SchemaInv'
  OBVIOUS
<1>1. CASE SchemaBraceLine
  BY <1>1 DEF SchemaBraceLine, SchemaInv, SchemaParserTypeOK, TypesAreTheirBlocks
<1>2. CASE UNCHANGED parserVars
  BY <1>2 DEF parserVars, SchemaInv, SchemaParserTypeOK, TypesAreTheirBlocks
<1> QED BY <1>1, <1>2, SchemaTypeLineInv, SchemaFieldLineInv DEF SchemaParserNext

LEMMA LineOfField ==
  ASSUME SchemaInv, NEW i \in DOMAIN schemaTypes, NEW j \in DOMAIN schemaTypes[i]
  PROVE  /\ schemaWritten[i][j] \in FieldLines
         /\ schemaTypes[i][j] = ParsedField(schemaWritten[i][j])
<1>1. i \in 1..Len(schemaTypes) /\ schemaTypes[i] \in Seq(ParsedFields)
  BY DEF SchemaInv, TypesAreTheirBlocks
<1>2. j \in 1..Len(schemaTypes[i])
  BY <1>1
<1> QED BY <1>1, <1>2 DEF SchemaInv, TypesAreTheirBlocks

LEMMA LineTypes ==
  ASSUME NEW line \in FieldLines
  PROVE  /\ line.base \in {"int", "string", "struct"} /\ line.sized \in BOOLEAN
         /\ line.note \in BOOLEAN /\ line.at \in [SchemaKeys -> SUBSET Places]
BY SchemaParserAssumption

LEMMA FoundWhereItStands ==
  ASSUME NEW line \in FieldLines, NEW k \in SchemaKeys
  PROVE  /\ ParsedField(line).found[k] = FoundAt(line, k)
         /\ FoundAt(line, k) = "nowhere" <=> line.at[k] = {}
         /\ "attributes" \in line.at[k] =>
              (FoundAt(line, k) # "attributes" <=> "name" \in line.at[k])
BY LineTypes DEF ParsedField, FoundAt, Places

LEMMA ChecksOfALine ==
  ASSUME NEW line \in FieldLines
  PROVE  /\ Compares(ParsedField(line)) <=> line.at["range"] # {}
         /\ Assigns(ParsedField(line)) => line.at["default"] # {}
         /\ AsksForText(ParsedField(line)) => line.at["not_empty"] # {}
BY FoundWhereItStands DEF Compares, Assigns, AsksForText, SchemaKeys

LEMMA NumberOfALine ==
  ASSUME NEW line \in FieldLines, line.base = "int"
  PROVE  LET field == ParsedField(line)
         IN  /\ field.base = "int" \/ (line.note /\ ~HasAttributes(line) /\ ~line.sized)
             /\ MemberOf(field) = "single"
             /\ field.base = "int" => (IsRepeated(field) <=> line.sized)
BY LineTypes DEF ParsedField, BaseOf, SizeOf, MemberOf, IsRepeated

LEMMA SchemaInvImplies == SchemaInv => FieldsAreAsWritten
<1> SUFFICES ASSUME SchemaInv PROVE FieldsAreAsWritten
  OBVIOUS
<1>1. ChecksStayWithTheirField
  <2>1. \A i \in DOMAIN schemaTypes : Len(schemaTypes[i]) = Len(schemaWritten[i])
    BY DEF SchemaInv, TypesAreTheirBlocks
  <2> QED BY <2>1, LineOfField, ChecksOfALine
          DEF ChecksStayWithTheirField, SchemaInv, TypesAreTheirBlocks, SchemaKeys
<1>2. AttributesWin
  BY LineOfField, FoundWhereItStands DEF AttributesWin
<1>3. NumbersKeepTheirType
  BY LineOfField, NumberOfALine DEF NumbersKeepTheirType
<1> QED BY <1>1, <1>2, <1>3 DEF FieldsAreAsWritten

\* The j-th member of a type has the base type, the size and the checks of the j-th
\* line of its block, for any file and any limits, also after a block that was left
\* open or closed on its own line (schemagen.c:207-284, :305-335, :394-411).
THEOREM SchemaFieldsAreAsWritten ==
  SchemaParserSpec => [](SchemaParserTypeOK /\ FieldsAreAsWritten)
<1>1. SchemaInv => SchemaParserTypeOK
  BY DEF SchemaInv
<1> QED BY <1>1, SchemaInitInv, SchemaNextInv, SchemaInvImplies, PTL DEF SchemaParserSpec

-----------------------------------------------------------------------------

ModeTransition == [event : ModeEvents, target : ModeNames]
Mode == [name : ModeNames, trans : Seq(ModeTransition)]

\* The open block is the last one, and the parser is in it.
BlockIsTheLast ==
  modePhase = "spec" /\ modeBlock # 0 => modeOpen /\ modeBlock = Len(modes)

\* A machine that runs was compiled, and has been in the modes of its trail.
RunsCompiled ==
  modePhase = "running" =>
    ModesCompile /\ trail \in Seq(DOMAIN modes) /\ Len(trail) >= 1

ModesInv ==
  /\ modes \in Seq(Mode) /\ meantModes \in Seq(Seq(ModeTransition))
  /\ ModesTypeOK /\ BlockIsTheLast /\ RunsCompiled
  /\ ModesAreAsWritten /\ PreviousIsTheModeBefore

LEMMA ModeLimits == /\ MaxModes \in Nat /\ MaxModeTrans \in Nat
                    /\ EventCode \in [ModeEvents -> Nat]
                    /\ ModeRests \subseteq Seq(ModeTransition)
BY ModesAssumption DEF ModeTransition

LEMMA NoModeTransitions ==
  <<>> \in Seq(ModeTransition) /\ \A ts : Range(<<>>) \subseteq Range(ts)
BY DEF Range

\* A line adds its first transition to the table and all of them to the block.
LEMMA FirstIsAmongAll ==
  ASSUME NEW ts \in Seq(ModeTransition), NEW ws \in Seq(ModeTransition),
         Range(ts) \subseteq Range(ws),
         NEW t \in ModeTransition, NEW rest \in Seq(ModeTransition)
  PROVE  /\ (ws \o <<t>>) \o rest \in Seq(ModeTransition)
         /\ Append(ts, t) \in Seq(ModeTransition)
         /\ Len(Append(ts, t)) = Len(ts) + 1 /\ Len(ts) \in Nat
         /\ Range(Append(ts, t)) \subseteq Range((ws \o <<t>>) \o rest)
         /\ Range(ts) \subseteq Range((ws \o <<t>>) \o rest)
         /\ rest = <<>> /\ ts = ws => Append(ts, t) = (ws \o <<t>>) \o rest
<1> DEFINE all == (ws \o <<t>>) \o rest
           more == Append(ts, t)
<1>1. /\ all \in Seq(ModeTransition) /\ Len(all) = Len(ws) + 1 + Len(rest)
      /\ DOMAIN all = 1..(Len(ws) + 1 + Len(rest)) /\ Len(ws) \in Nat /\ Len(rest) \in Nat
      /\ DOMAIN ws = 1..Len(ws)
      /\ \A i \in 1..Len(ws) : all[i] = ws[i]
      /\ all[Len(ws) + 1] = t
  OBVIOUS
<1>2. /\ more \in Seq(ModeTransition) /\ Len(more) = Len(ts) + 1 /\ Len(ts) \in Nat
      /\ DOMAIN ts = 1..Len(ts) /\ DOMAIN more = 1..(Len(ts) + 1)
      /\ \A i \in 1..Len(ts) : more[i] = ts[i]
      /\ more[Len(ts) + 1] = t
  BY Appended
<1>3. rest = <<>> /\ ts = ws => more = all
  OBVIOUS
<1> HIDE DEF all, more
<1>4. \A i \in 1..Len(ws) : i \in DOMAIN all
  BY <1>1
<1>5. Len(ws) + 1 \in DOMAIN all
  BY <1>1
<1>6. Range(ws) \subseteq Range(all) /\ t \in Range(all)
  BY <1>1, <1>4, <1>5 DEF Range
<1>7. \A i \in DOMAIN more : more[i] \in Range(ts) \/ more[i] = t
  <2> SUFFICES ASSUME NEW i \in DOMAIN more PROVE more[i] \in Range(ts) \/ more[i] = t
    OBVIOUS
  <2>1. i \in 1..Len(ts) \/ i = Len(ts) + 1
    BY <1>2
  <2> QED BY <2>1, <1>2 DEF Range
<1>8. Range(more) \subseteq Range(all)
  BY <1>6, <1>7 DEF Range
<1> QED BY <1>1, <1>2, <1>3, <1>6, <1>8 DEF all, more

LEMMA ModesInitInv == ModesInit => ModesInv
BY ModeLimits DEF ModesInit, ModesInv, ModesTypeOK, BlockIsTheLast, RunsCompiled,
   ModesAreAsWritten, PreviousIsTheModeBefore

LEMMA ModesTypes ==
  ASSUME ModesInv
  PROVE  /\ DOMAIN modes = 1..Len(modes) /\ Len(modes) \in Nat
         /\ \A m \in 1..Len(modes) :
              /\ modes[m] \in Mode /\ modes[m].name \in ModeNames
              /\ modes[m].trans \in Seq(ModeTransition)
              /\ DOMAIN modes[m].trans = 1..Len(modes[m].trans) /\ Len(modes[m].trans) \in Nat
<1>1. /\ modes \in Seq(Mode)
  BY DEF ModesInv
<1>2. /\ DOMAIN modes = 1..Len(modes) /\ Len(modes) \in Nat
      /\ \A m \in 1..Len(modes) : modes[m] \in Mode
  BY <1>1
<1>3. \A m \in 1..Len(modes) :
         modes[m].name \in ModeNames /\ modes[m].trans \in Seq(ModeTransition)
  BY <1>2 DEF Mode
<1>4. \A ts \in Seq(ModeTransition) : DOMAIN ts = 1..Len(ts) /\ Len(ts) \in Nat
  OBVIOUS
<1> QED BY <1>2, <1>3, <1>4

\* The type invariant from that of the elements.
LEMMA DefaultLineInv ==
  ASSUME ModesInv, NEW name \in ModeNames, DefaultLine(name) PROVE ModesInv'
BY DEF ModesInv, DefaultLine, ReadsMode, ModesTypeOK, BlockIsTheLast, RunsCompiled,
       ModesAreAsWritten, PreviousIsTheModeBefore

LEMMA ModeBraceLineInv ==
  ASSUME ModesInv, ModeBraceLine PROVE ModesInv'
<1>1. /\ modePhase = "spec" /\ modeOpen' = FALSE /\ modeBlock' = 0
      /\ UNCHANGED <<modes, defaultMode, meantModes, crowded, modePhase, ctx, trail>>
  BY DEF ModeBraceLine, ReadsMode
<1>2. ModesTypeOK'
  <2>1. modeBlock' \in 0..Len(modes)
    BY <1>1, ModesTypes
  <2> QED BY <1>1, <2>1 DEF ModesInv, ModesTypeOK
<1>3. BlockIsTheLast' /\ RunsCompiled' /\ ModesAreAsWritten' /\ PreviousIsTheModeBefore'
  BY <1>1 DEF ModesInv, BlockIsTheLast, RunsCompiled, ModesAreAsWritten, PreviousIsTheModeBefore
<1> QED BY <1>1, <1>2, <1>3 DEF ModesInv

LEMMA NewModeInv ==
  ASSUME ModesInv, NEW name \in ModeNames, NEW written \in Seq(ModeTransition),
         NewMode(name, written),
         IF Len(modes) >= MaxModes
         THEN modeBlock' = 0 /\ crowded' = crowded
         ELSE /\ modeBlock' \in {0, Len(modes) + 1}
              /\ crowded' = crowded \/ crowded' = crowded \cup {Len(modes) + 1}
              /\ written # <<>> => Len(modes) + 1 \in crowded'
  PROVE  ModesInv'
<1>0. modePhase = "spec" /\ UNCHANGED <<ctx, trail, defaultMode>>
  BY DEF NewMode, ReadsMode
<1>1. CASE Len(modes) >= MaxModes
  <2>1. /\ modePhase' = "wild" /\ UNCHANGED <<modes, modeOpen, meantModes, crowded>>
        /\ modeBlock' = 0
    BY <1>1 DEF NewMode
  <2>2. modeBlock' \in 0..Len(modes)
    BY <2>1, ModesTypes
  <2> QED BY <1>0, <2>1, <2>2 DEF ModesInv, ModesTypeOK, BlockIsTheLast, RunsCompiled,
       ModesAreAsWritten, PreviousIsTheModeBefore
<1>2. CASE ~(Len(modes) >= MaxModes)
  <2> DEFINE new == [name |-> name, trans |-> <<>>]
             n == Len(modes)
  <2>1. /\ modes' = Append(modes, new) /\ meantModes' = Append(meantModes, written)
        /\ modeOpen' = TRUE /\ modeBlock' \in {0, n + 1} /\ modePhase' = "spec"
        /\ crowded' = crowded \/ crowded' = crowded \cup {n + 1}
        /\ written # <<>> => n + 1 \in crowded'
    BY <1>0, <1>2 DEF NewMode
  <2>2. new \in Mode /\ new.trans = <<>> /\ new.name = name
    BY NoModeTransitions DEF Mode
  <2> HIDE DEF new
  <2>3. /\ modes \in Seq(Mode) /\ meantModes \in Seq(Seq(ModeTransition))
        /\ Len(meantModes) = n /\ crowded \subseteq DOMAIN modes
    BY DEF ModesInv, ModesTypeOK
  <2>4. /\ modes' \in Seq(Mode) /\ Len(modes') = n + 1 /\ n \in Nat
        /\ DOMAIN modes = 1..n /\ DOMAIN modes' = 1..(n + 1)
        /\ \A m \in 1..n : modes'[m] = modes[m]
        /\ modes'[n + 1] = new
    BY <2>1, <2>2, <2>3, Appended
  <2>5. /\ meantModes' \in Seq(Seq(ModeTransition)) /\ Len(meantModes') = n + 1
        /\ \A m \in 1..n : meantModes'[m] = meantModes[m]
        /\ meantModes'[n + 1] = written
    BY <2>1, <2>3, Appended
  <2>6. /\ \A m \in 1..(n + 1) : m \in 1..n \/ m = n + 1
        /\ \A m \in 1..n : m \in crowded' <=> m \in crowded
        /\ crowded' \subseteq DOMAIN modes'
    <3>1. /\ \A m \in 1..(n + 1) : m \in 1..n \/ m = n + 1
          /\ \A m \in 1..n : m # n + 1 /\ m \in 1..(n + 1)
          /\ n + 1 \in 1..(n + 1)
      BY <2>4
    <3> QED BY <3>1, <2>1, <2>3, <2>4
  <2>7. ASSUME NEW m \in DOMAIN modes'
        PROVE  /\ modes'[m].name \in ModeNames /\ Len(modes'[m].trans) <= MaxModeTrans
               /\ modes'[m].trans \in Seq([event : ModeEvents, target : ModeNames])
               /\ m \notin crowded' => modes'[m].trans = meantModes'[m]
               /\ Range(modes'[m].trans) \subseteq Range(meantModes'[m])
    <3>1. CASE m \in 1..n
      BY <1>0, <3>1, <2>4, <2>5, <2>6 DEF ModesInv, ModesTypeOK, ModesAreAsWritten
    <3>2. CASE m = n + 1
      <4>1. modes'[m].trans = <<>> /\ modes'[m].name = name /\ meantModes'[m] = written
        BY <3>2, <2>2, <2>4, <2>5
      <4>2. m \notin crowded' => written = <<>>
        BY <3>2, <2>1
      <4> QED BY <4>1, <4>2, ModeLimits, NoModeTransitions DEF ModeTransition
    <3> QED BY <3>1, <3>2, <2>4, <2>6
  <2>8. ModesTypeOK'
    <3>1. Len(modes') <= MaxModes /\ Len(meantModes') = Len(modes')
      BY <1>2, <2>4, <2>5, ModeLimits
    <3>2. defaultMode' \in ModeNames \cup {NoName} /\ modeBlock' \in 0..Len(modes')
          /\ modePhase' \in {"spec", "wild", "running"} /\ ~(modePhase' = "running")
      BY <1>0, <2>1, <2>4 DEF ModesInv, ModesTypeOK
    <3> QED BY <3>1, <3>2, <2>6, <2>7 DEF ModesTypeOK
  <2>9. ModesAreAsWritten'
    BY <2>7 DEF ModesAreAsWritten
  <2>10. BlockIsTheLast' /\ RunsCompiled' /\ PreviousIsTheModeBefore'
    BY <2>1, <2>4 DEF BlockIsTheLast, RunsCompiled, PreviousIsTheModeBefore
  <2> QED BY <2>4, <2>5, <2>8, <2>9, <2>10 DEF ModesInv
<1> QED BY <1>1, <1>2

LEMMA ModeLineInv ==
  ASSUME ModesInv, NEW name \in ModeNames, ModeLine(name) PROVE ModesInv'
<1>1. NewMode(name, <<>>) /\ crowded' = crowded
      /\ modeBlock' = IF Len(modes) >= MaxModes THEN 0 ELSE Len(modes) + 1
  BY DEF ModeLine
<1> QED BY <1>1, NewModeInv, NoModeTransitions

LEMMA ModeOneLineInv ==
  ASSUME ModesInv, NEW name \in ModeNames, NEW rest \in ModeRests, ModeOneLine(name, rest)
  PROVE  ModesInv'
<1>1. /\ NewMode(name, rest) /\ modeBlock' = modeBlock
      /\ crowded' = IF rest = <<>> \/ Len(modes) >= MaxModes THEN crowded
                    ELSE crowded \cup {Len(modes) + 1}
  BY DEF ModeOneLine
<1>2. modeBlock = 0 /\ rest \in Seq(ModeTransition)
  BY <1>1, ModeLimits DEF NewMode
<1> QED BY <1>1, <1>2, NewModeInv

LEMMA ModeOnLineInv ==
  ASSUME ModesInv, NEW event \in ModeEvents, NEW target \in ModeNames, NEW rest \in ModeRests,
         ModeOnLine(event, target, rest)
  PROVE  ModesInv'
<1> DEFINE t == [event |-> event, target |-> target]
           m == Len(modes)
           ts == modes[m].trans
           ws == meantModes[m]
           all == (ws \o <<t>>) \o rest
<1>a. /\ modePhase = "spec" /\ modeBlock # 0
      /\ UNCHANGED <<ctx, trail, defaultMode, modeOpen, modeBlock>>
      /\ meantModes' = [meantModes EXCEPT ![modeBlock] = (@ \o <<t>>) \o rest]
      /\ crowded' = IF rest = <<>> THEN crowded ELSE crowded \cup {modeBlock}
  BY DEF ModeOnLine, ReadsMode
<1>b. /\ modeOpen /\ modeBlock = m /\ m \in 1..m /\ m \in Nat /\ DOMAIN modes = 1..m
      /\ meantModes \in Seq(Seq(ModeTransition)) /\ Len(meantModes) = m
      /\ modes \in Seq(Mode) /\ crowded \subseteq 1..m /\ ws \in Seq(ModeTransition)
  BY <1>a, ModesTypes DEF ModesInv, BlockIsTheLast, ModesTypeOK
<1>1. t \in ModeTransition /\ rest \in Seq(ModeTransition)
  BY ModeLimits DEF ModeTransition
<1>2. /\ modes[m] \in Mode /\ modes[m].name \in ModeNames /\ ts \in Seq(ModeTransition)
      /\ Range(ts) \subseteq Range(ws) /\ (m \notin crowded => ts = ws)
  BY <1>a, <1>b, ModesTypes DEF ModesInv, ModesAreAsWritten
<1>3. /\ all \in Seq(ModeTransition)
      /\ Append(ts, t) \in Seq(ModeTransition)
      /\ Len(Append(ts, t)) = Len(ts) + 1 /\ Len(ts) \in Nat
      /\ Range(Append(ts, t)) \subseteq Range(all)
      /\ rest = <<>> /\ ts = ws => Append(ts, t) = all
  <2> HIDE DEF t, ts, ws, m
  <2> QED BY <1>b, <1>1, <1>2, FirstIsAmongAll DEF all
<1>4. /\ meantModes' \in Seq(Seq(ModeTransition)) /\ Len(meantModes') = m
      /\ meantModes'[m] = all
      /\ \A k \in 1..m : k # m => meantModes'[k] = meantModes[k]
  <2>1. meantModes' = [meantModes EXCEPT ![m] = all]
    BY <1>a, <1>b
  <2> HIDE DEF all
  <2> QED BY <2>1, <1>b, <1>3, ReplacedAt
<1>5. /\ crowded' \subseteq 1..m /\ \A k \in 1..m : k # m => (k \in crowded' <=> k \in crowded)
      /\ m \notin crowded' => rest = <<>> /\ m \notin crowded
  BY <1>a, <1>b
<1>6. CASE Len(ts) >= MaxModeTrans
  <2>1. modePhase' = "wild" /\ modes' = modes
    BY <1>b, <1>6 DEF ModeOnLine
  <2>2. ModesTypeOK'
    BY <1>a, <1>b, <1>4, <1>5, <2>1 DEF ModesInv, ModesTypeOK
  <2> QED BY <1>a, <1>b, <1>4, <2>1, <2>2 DEF ModesInv, BlockIsTheLast, RunsCompiled,
       ModesAreAsWritten, PreviousIsTheModeBefore
<1>7. CASE ~(Len(ts) >= MaxModeTrans)
  <2> DEFINE new == [modes[m] EXCEPT !.trans = Append(@, t)]
  <2>1. modePhase' = "spec" /\ modes' = [modes EXCEPT ![m] = new]
    BY <1>a, <1>b, <1>7 DEF ModeOnLine
  <2>2. new \in Mode /\ new.name = modes[m].name /\ new.trans = Append(ts, t)
    BY <1>2, <1>3 DEF Mode
  <2>3. /\ modes' \in Seq(Mode) /\ Len(modes') = m /\ DOMAIN modes' = 1..m
        /\ modes'[m] = new /\ \A k \in 1..m : k # m => modes'[k] = modes[k]
    <3> HIDE DEF new
    <3> QED BY <1>b, <2>1, <2>2
  <2> HIDE DEF new
  <2>4. Len(Append(ts, t)) <= MaxModeTrans
    <3> HIDE DEF t, ts
    <3> QED BY <1>3, <1>7, ModeLimits
  <2>5. ASSUME NEW k \in DOMAIN modes'
        PROVE  /\ modes'[k].name \in ModeNames /\ Len(modes'[k].trans) <= MaxModeTrans
               /\ modes'[k].trans \in Seq([event : ModeEvents, target : ModeNames])
               /\ k \notin crowded' => modes'[k].trans = meantModes'[k]
               /\ Range(modes'[k].trans) \subseteq Range(meantModes'[k])
    <3>1. CASE k # m
      <4>1. k \in 1..m /\ modes'[k] = modes[k] /\ meantModes'[k] = meantModes[k]
            /\ (k \in crowded' <=> k \in crowded)
        BY <3>1, <1>4, <1>5, <2>3
      <4> QED BY <1>a, <1>b, <4>1 DEF ModesInv, ModesTypeOK, ModesAreAsWritten
    <3>2. CASE k = m
      <4>1. modes'[m].trans = Append(ts, t) /\ modes'[m].name \in ModeNames
        BY <1>2, <2>2, <2>3
      <4>2. m \notin crowded' => Append(ts, t) = all
        BY <1>2, <1>3, <1>5
      <4>3. Append(ts, t) \in Seq([event : ModeEvents, target : ModeNames])
        BY <1>3 DEF ModeTransition
      <4> HIDE DEF t, ts, ws, all, m
      <4> QED BY <3>2, <4>1, <4>2, <4>3, <1>3, <1>4, <2>4
    <3> QED BY <3>1, <3>2
  <2>6. ModesTypeOK'
    <3>1. Len(modes') <= MaxModes /\ Len(meantModes') = Len(modes')
          /\ crowded' \subseteq DOMAIN modes'
      BY <1>4, <1>5, <2>3 DEF ModesInv, ModesTypeOK
    <3>2. defaultMode' \in ModeNames \cup {NoName} /\ modeBlock' \in 0..Len(modes')
          /\ modePhase' \in {"spec", "wild", "running"} /\ ~(modePhase' = "running")
      BY <1>a, <1>b, <2>1, <2>3 DEF ModesInv, ModesTypeOK
    <3> QED BY <3>1, <3>2, <2>5 DEF ModesTypeOK
  <2>7. ModesAreAsWritten'
    BY <2>5 DEF ModesAreAsWritten
  <2>8. BlockIsTheLast' /\ RunsCompiled' /\ PreviousIsTheModeBefore'
    BY <1>a, <1>b, <2>1, <2>3 DEF BlockIsTheLast, RunsCompiled, PreviousIsTheModeBefore
  <2> QED BY <1>4, <2>3, <2>6, <2>7, <2>8 DEF ModesInv
<1> QED BY <1>6, <1>7

LEMMA NamedModeExists ==
  ASSUME NEW name, IsMode(name)
  PROVE  ModeNamed(name) \in DOMAIN modes /\ modes[ModeNamed(name)].name = name
BY DEF IsMode, ModeNamed

LEMMA ModeInitInv ==
  ASSUME ModesInv, ModeInit PROVE ModesInv'
<1> DEFINE d == ModeNamed(defaultMode)
<1>1. d \in DOMAIN modes
  BY NamedModeExists DEF ModeInit, ModesCompile
<1> HIDE DEF d
<1>2. /\ modePhase = "spec" /\ modePhase' = "running" /\ modeBlock = 0
      /\ ctx' = [current |-> d, previous |-> d] /\ trail' = <<d>>
      /\ ModesCompile
      /\ UNCHANGED <<modes, defaultMode, modeOpen, meantModes, crowded, modeBlock, modeLines>>
  BY DEF ModeInit, d
<1>3. ModesCompile'
  BY <1>2 DEF ModesCompile, IsMode
<1>4. ctx'.current = d /\ ctx'.previous = d /\ Len(trail') = 1 /\ trail'[1] = d
  BY <1>2
<1>5. trail' \in Seq(DOMAIN modes)
  BY <1>1, <1>2
<1>6. Last(trail') = d
  BY <1>4 DEF Last
<1>7. PreviousIsTheModeBefore'
  <2>1. \A i \in 2..Len(trail') : trail'[i] # trail'[i - 1]
    BY <1>4
  <2> QED BY <1>4, <1>6, <2>1 DEF PreviousIsTheModeBefore
<1>8. RunsCompiled'
  BY <1>2, <1>3, <1>4, <1>5 DEF RunsCompiled
<1>9. ModesTypeOK'
  BY <1>1, <1>2, <1>4 DEF ModesInv, ModesTypeOK
<1>10. ModesAreAsWritten' /\ BlockIsTheLast'
  BY <1>2 DEF ModesInv, ModesAreAsWritten, BlockIsTheLast
<1> QED BY <1>2, <1>7, <1>8, <1>9, <1>10 DEF ModesInv

\* Where an event leads: to a mode of the file, by a transition of the current one.
LEMMA NextModeIsWritten ==
  ASSUME ModesInv, modePhase = "running", NEW code
  PROVE  /\ NextMode(code) \in DOMAIN modes
         /\ NextMode(code) # ctx.current =>
              \E i \in DOMAIN meantModes[ctx.current] :
                modes[NextMode(code)].name = meantModes[ctx.current][i].target
<1> DEFINE ts == modes[ctx.current].trans
           hit == {i \in DOMAIN ts : EventCode[ts[i].event] = code}
           i == CHOOSE j \in hit : TRUE
<1>1. ctx.current \in DOMAIN modes /\ Range(ts) \subseteq Range(meantModes[ctx.current])
  BY DEF ModesInv, ModesTypeOK, ModesAreAsWritten
<1>2. CASE hit = {}
  <2>1. NextMode(code) = ctx.current
    BY <1>2 DEF NextMode
  <2> QED BY <1>1, <2>1
<1>3. CASE hit # {}
  <2>1. i \in hit /\ NextMode(code) = ModeNamed(ts[i].target)
    BY <1>3 DEF NextMode
  <2>2. i \in DOMAIN ts /\ ts[i] \in Range(ts)
    BY <2>1 DEF Range
  <2> HIDE DEF i
  <2>3. IsMode(ts[i].target)
    BY <1>1, <2>2 DEF ModesInv, RunsCompiled, ModesCompile
  <2> HIDE DEF ts
  <2>4. PICK j \in DOMAIN meantModes[ctx.current] : meantModes[ctx.current][j] = ts[i]
    BY <1>1, <2>2 DEF Range
  <2>5. NextMode(code) \in DOMAIN modes /\ modes[NextMode(code)].name = ts[i].target
    BY <2>1, <2>3, NamedModeExists
  <2> QED BY <2>4, <2>5
<1> QED BY <1>2, <1>3

LEMMA ModeDispatchInv ==
  ASSUME ModesInv, NEW event \in ModeEvents, ModeDispatch(event)
  PROVE  ModesInv' /\ ChangeIsWritten
<1> DEFINE next == NextMode(EventCode[event])
           c == ctx.current
           n == Len(trail)
<1>1. /\ modePhase = "running" /\ ctx' = Enter(next)
      /\ trail' = IF next = c THEN trail ELSE Append(trail, next)
      /\ UNCHANGED <<modes, defaultMode, modeOpen, meantModes, crowded, modeBlock, modePhase,
                     modeLines>>
  BY DEF ModeDispatch
<1>2. /\ next \in DOMAIN modes
      /\ next # c => \E i \in DOMAIN meantModes[c] : modes[next].name = meantModes[c][i].target
  BY <1>1, NextModeIsWritten
<1> HIDE DEF next
<1>3. /\ ctx'.current = next /\ ctx'.previous = IF next = c THEN ctx.previous ELSE c
  BY <1>1 DEF Enter
<1>4. ChangeIsWritten
  BY <1>1, <1>2, <1>3 DEF ChangeIsWritten
<1>5. /\ c \in DOMAIN modes /\ ctx.previous \in DOMAIN modes
      /\ trail \in Seq(DOMAIN modes) /\ n \in Nat /\ n >= 1 /\ c = trail[n]
  BY <1>1 DEF ModesInv, ModesTypeOK, RunsCompiled, PreviousIsTheModeBefore, Last
<1>6. /\ trail' \in Seq(DOMAIN modes) /\ Len(trail') >= 1
      /\ PreviousIsTheModeBefore'
  <2>1. CASE next = c
    <3>1. trail' = trail /\ ctx'.current = ctx.current /\ ctx'.previous = ctx.previous
      BY <1>1, <1>3, <2>1
    <3> QED BY <1>1, <1>5, <3>1 DEF ModesInv, PreviousIsTheModeBefore
  <2>2. CASE next # c
    <3>1. trail' = Append(trail, next) /\ ctx'.previous = c
      BY <1>1, <1>3, <2>2
    <3>2. /\ trail' \in Seq(DOMAIN modes) /\ Len(trail') = n + 1
          /\ trail'[n + 1] = next /\ \A i \in 1..n : trail'[i] = trail[i]
      BY <1>2, <1>5, <3>1, Appended
    <3>3. Last(trail') = next
      BY <3>2 DEF Last
    <3>4. \A i \in 2..n : trail[i] # trail[i - 1]
      BY <1>1 DEF ModesInv, PreviousIsTheModeBefore
    <3>5. ASSUME NEW i \in 2..(n + 1) PROVE trail'[i] # trail'[i - 1]
      <4>1. CASE i = n + 1
        BY <4>1, <1>5, <2>2, <3>2
      <4>2. CASE i \in 2..n
        <5>1. i \in 1..n /\ i - 1 \in 1..n
          BY <1>5, <4>2
        <5> QED BY <4>2, <5>1, <3>2, <3>4
      <4> QED BY <4>1, <4>2, <1>5
    <3>6. (IF Len(trail') = 1 THEN trail'[1] ELSE trail'[Len(trail') - 1]) = c
      <4>1. Len(trail') # 1 /\ Len(trail') - 1 = n /\ n \in 1..n
        BY <1>5, <3>2
      <4> QED BY <4>1, <1>5, <3>2
    <3>7. PreviousIsTheModeBefore'
      BY <1>3, <3>1, <3>2, <3>3, <3>5, <3>6 DEF PreviousIsTheModeBefore
    <3> QED BY <1>5, <3>2, <3>7
  <2> QED BY <2>1, <2>2
<1>7. RunsCompiled'
  BY <1>1, <1>6 DEF ModesInv, RunsCompiled, ModesCompile, IsMode
<1>8. ModesTypeOK'
  <2>1. {ctx'.current, ctx'.previous} \subseteq DOMAIN modes'
    BY <1>1, <1>2, <1>3, <1>5
  <2> QED BY <1>1, <2>1 DEF ModesInv, ModesTypeOK
<1>9. ModesAreAsWritten' /\ BlockIsTheLast'
  BY <1>1 DEF ModesInv, ModesAreAsWritten, BlockIsTheLast
<1> QED BY <1>1, <1>4, <1>6, <1>7, <1>8, <1>9 DEF ModesInv

\* No line of the file and no start changes the mode of a machine that runs.
LEMMA OnlyDispatchChangesMode ==
  ASSUME ModesNext PROVE ChangeIsWritten \/ \E event \in ModeEvents : ModeDispatch(event)
BY DEF ModesNext, ChangeIsWritten, DefaultLine, ModeLine, ModeOneLine, NewMode, ModeBraceLine,
       ModeOnLine, ReadsMode, ModeInit

LEMMA ModesNextInv == ModesInv /\ [ModesNext]_modesVars => ModesInv'
<1> SUFFICES ASSUME ModesInv, [ModesNext]_modesVars PROVE ModesInv'
  OBVIOUS
<1>1. CASE UNCHANGED modesVars
  <2>1. ModesCompile' <=> ModesCompile
    BY <1>1 DEF modesVars, ModesCompile, IsMode
  <2>2. ModesTypeOK' /\ BlockIsTheLast' /\ RunsCompiled'
    BY <1>1, <2>1 DEF modesVars, ModesInv, ModesTypeOK, BlockIsTheLast, RunsCompiled
  <2>3. ModesAreAsWritten' /\ PreviousIsTheModeBefore'
    BY <1>1 DEF modesVars, ModesInv, ModesAreAsWritten, PreviousIsTheModeBefore
  <2> QED BY <1>1, <2>2, <2>3 DEF modesVars, ModesInv
<1> QED BY <1>1, DefaultLineInv, ModeLineInv, ModeOneLineInv, ModeBraceLineInv, ModeOnLineInv,
           ModeInitInv, ModeDispatchInv DEF ModesNext

LEMMA ModesNextIsWritten ==
  ModesInv /\ ModesInv' /\ [ModesNext]_modesVars =>
    [ModesAreAsWritten' /\ PreviousIsTheModeBefore' /\ ChangeIsWritten]_modesVars
BY OnlyDispatchChangesMode, ModeDispatchInv DEF ModesInv

\* The modal machine is the file's: its table has no transition of another mode's, and
\* all of a mode's own if each has a line; a change of mode leads where the block of
\* the mode it leaves says, and previous is the mode before (msmgen.c:114-153, :247-285).
THEOREM ModesAreWritten == ModesSpec => []ModesTypeOK /\ ModesGoAsWritten
<1>1. ModesInv => ModesTypeOK
  BY DEF ModesInv
<1> QED BY <1>1, ModesInitInv, ModesNextInv, ModesNextIsWritten, PTL DEF ModesSpec, ModesGoAsWritten

-----------------------------------------------------------------------------
(* Rules. *)

Rule == [conditions : Seq(Facts), actions : Seq(RuleActions)]

Meant == [conditions : Seq(Facts), actions : Seq(RuleActions),
          styles : SUBSET BlockStyles, crowded : BOOLEAN]

LEMMA RuleLimits ==
  MaxRules \in Nat /\ MaxStatements \in Nat /\ MaxRuleLines \in Nat
BY RulesAssumption

\* Bare, of what the author means by a rule.
IsBare(author) == author.styles \subseteq {"open"} /\ ~author.crowded

\* What the parser has of a rule is of that rule, and all of it if the rule is bare.
KeepsRule(rule, author) ==
  /\ ToSet(rule.conditions) \subseteq ToSet(author.conditions)
  /\ ToSet(rule.actions) \subseteq ToSet(author.actions)
  /\ IsBare(author) => /\ rule.conditions = author.conditions
                       /\ rule.actions = author.actions

\* Where the author is in a rule, the parser is in the same part of it or in none; as
\* long as the rule is bare, it is in the rule.
BlockIsFollowed ==
  LET n == Len(meant) IN
    /\ block.at \in {"top", "rule", "when", "whenDone", "then", "thenDone"}
    /\ currentRule \in {0, Len(rules)}
    /\ block.at \in {"when", "then"} => inPart = block.at
    /\ block.at = "top" => currentRule = 0
    /\ block.at # "top" =>
         /\ n > 0
         /\ block.at # "rule" => block.style \in meant[n].styles
         /\ block.at \in {"whenDone", "thenDone"} => block.style # "open"
         /\ IsBare(meant[n]) => currentRule = n

RulesInv ==
  /\ rules \in Seq(Rule) /\ meant \in Seq(Meant)
  /\ inPart \in {"none", "when", "then"}
  /\ evaluated \in Nat /\ fired \subseteq 1..evaluated
  /\ rulesPhase \in {"spec", "wild", "evaluate"}
  /\ rulesPhase # "wild" =>
       /\ Len(rules) = Len(meant)
       /\ \A r \in 1..Len(rules) : KeepsRule(rules[r], meant[r])
  /\ rulesPhase = "spec" => BlockIsFollowed

LEMMA RulesInitInv == RulesInit => RulesInv
BY DEF RulesInit, RulesInv, BlockIsFollowed

LEMMA RulesTypes ==
  ASSUME RulesInv
  PROVE  /\ DOMAIN rules = 1..Len(rules) /\ Len(rules) \in Nat
         /\ DOMAIN meant = 1..Len(meant) /\ Len(meant) \in Nat
         /\ \A r \in 1..Len(rules) : rules[r] \in Rule
         /\ \A r \in 1..Len(meant) : meant[r] \in Meant
BY DEF RulesInv

\* The elements of a sequence and of a longer one.
LEMMA ToSetAppend ==
  ASSUME NEW S, NEW s \in Seq(S), NEW x \in S
  PROVE  ToSet(Append(s, x)) = ToSet(s) \cup {x}
<1>1. /\ Len(Append(s, x)) = Len(s) + 1 /\ Len(s) \in Nat
      /\ DOMAIN s = 1..Len(s) /\ DOMAIN Append(s, x) = 1..(Len(s) + 1)
      /\ \A i \in 1..Len(s) : Append(s, x)[i] = s[i]
      /\ Append(s, x)[Len(s) + 1] = x
  BY Appended
<1> DEFINE t == Append(s, x)
           n == Len(s)
<1> HIDE DEF t, n
<1>2. ToSet(t) = {t[i] : i \in 1..(n + 1)} /\ ToSet(s) = {s[i] : i \in 1..n}
  BY <1>1 DEF ToSet, t, n
<1>3. /\ \A i \in 1..n : t[i] = s[i] /\ i \in 1..(n + 1)
      /\ t[n + 1] = x /\ n + 1 \in 1..(n + 1)
      /\ \A i \in 1..(n + 1) : i \in 1..n \/ i = n + 1
  BY <1>1 DEF t, n
<1>4. ASSUME NEW y PROVE y \in {t[i] : i \in 1..(n + 1)} <=> y \in {s[i] : i \in 1..n} \cup {x}
  BY <1>3
<1> QED BY <1>2, <1>4 DEF t

LEMMA ToSetConcat ==
  ASSUME NEW S, NEW s \in Seq(S), NEW t \in Seq(S)
  PROVE  ToSet(s) \subseteq ToSet(s \o t) /\ ToSet(t) \subseteq ToSet(s \o t)
<1>1. /\ DOMAIN s = 1..Len(s) /\ DOMAIN t = 1..Len(t) /\ Len(s) \in Nat /\ Len(t) \in Nat
      /\ DOMAIN (s \o t) = 1..(Len(s) + Len(t))
      /\ \A i \in 1..Len(s) : (s \o t)[i] = s[i]
      /\ \A i \in 1..Len(t) : (s \o t)[Len(s) + i] = t[i]
  OBVIOUS
<1> DEFINE u == s \o t
<1> HIDE DEF u
<1>2. \A i \in DOMAIN s : i \in DOMAIN u /\ s[i] = u[i]
  BY <1>1 DEF u
<1>3. \A i \in DOMAIN t : Len(s) + i \in DOMAIN u /\ t[i] = u[Len(s) + i]
  BY <1>1 DEF u
<1> QED BY <1>2, <1>3 DEF ToSet, u

\* The last rule has one part more, and the others stay.
LEMMA MeansMore ==
  ASSUME RulesInv, Len(meant) > 0, NEW part \in {"when", "then"}, NEW style \in BlockStyles,
         NEW statements \in Seq(IF part = "when" THEN Facts ELSE RuleActions),
         Means(part, style, statements)
  PROVE  LET n == Len(meant)
         IN  /\ meant' \in Seq(Meant) /\ Len(meant') = n
             /\ \A r \in 1..n : r # n => meant'[r] = meant[r]
             /\ part = "when" => /\ meant'[n].conditions = meant[n].conditions \o statements
                                 /\ meant'[n].actions = meant[n].actions
             /\ part = "then" => /\ meant'[n].actions = meant[n].actions \o statements
                                 /\ meant'[n].conditions = meant[n].conditions
             /\ meant'[n].styles = meant[n].styles \cup {style}
             /\ ~meant'[n].crowded => ~meant[n].crowded /\ Len(statements) # 2
<1> DEFINE n == Len(meant)
           m == meant[n]
           styles == m.styles \cup {style}
           tight == m.crowded \/ Len(statements) = 2
           list == IF part = "when" THEN m.conditions \o statements
                   ELSE m.actions \o statements
           r == IF part = "when"
                THEN [m EXCEPT !.conditions = list, !.styles = styles, !.crowded = tight]
                ELSE [m EXCEPT !.actions = list, !.styles = styles, !.crowded = tight]
<1>1. n \in 1..n /\ m \in Meant /\ meant \in Seq(Meant)
  BY RulesTypes DEF RulesInv
<1>2. /\ m.conditions \in Seq(Facts) /\ m.actions \in Seq(RuleActions)
      /\ styles \in SUBSET BlockStyles /\ tight \in BOOLEAN
  BY <1>1 DEF Meant
<1>3. /\ part = "when" => list \in Seq(Facts)
      /\ part = "then" => list \in Seq(RuleActions)
  BY <1>2
<1>4. meant' = [meant EXCEPT ![n] = r]
  <2>1. CASE part = "when"
    <3>1. meant' = [meant EXCEPT ![n].conditions = list,
                                 ![n].styles = styles, ![n].crowded = tight]
      BY <2>1 DEF Means
    <3> HIDE DEF list, styles, tight
    <3> QED BY <1>1, <2>1, <3>1
  <2>2. CASE part = "then"
    <3>1. meant' = [meant EXCEPT ![n].actions = list,
                                 ![n].styles = styles, ![n].crowded = tight]
      BY <2>2 DEF Means
    <3> HIDE DEF list, styles, tight
    <3> QED BY <1>1, <2>2, <3>1
  <2> QED BY <2>1, <2>2
<1>5. /\ r \in Meant /\ r.styles = styles /\ r.crowded = tight
      /\ part = "when" => r.conditions = list /\ r.actions = m.actions
      /\ part = "then" => r.actions = list /\ r.conditions = m.conditions
  <2> HIDE DEF list, styles, tight, m
  <2>1. CASE part = "when"
    <3> DEFINE q == [m EXCEPT !.conditions = list, !.styles = styles, !.crowded = tight]
    <3>1. r = q
      BY <2>1
    <3>2. list \in Seq(Facts)
      BY <1>3, <2>1
    <3>3. /\ q \in Meant /\ q.styles = styles /\ q.crowded = tight
          /\ q.conditions = list /\ q.actions = m.actions
      BY <1>1, <1>2, <3>2 DEF Meant
    <3> HIDE DEF q, r
    <3> QED BY <2>1, <3>1, <3>3
  <2>2. CASE part = "then"
    <3> DEFINE q == [m EXCEPT !.actions = list, !.styles = styles, !.crowded = tight]
    <3>1. r = q
      BY <2>2
    <3>2. list \in Seq(RuleActions)
      BY <1>3, <2>2
    <3>3. /\ q \in Meant /\ q.styles = styles /\ q.crowded = tight
          /\ q.actions = list /\ q.conditions = m.conditions
      BY <1>1, <1>2, <3>2 DEF Meant
    <3> HIDE DEF q, r
    <3> QED BY <2>2, <3>1, <3>3
  <2> QED BY <2>1, <2>2
<1> HIDE DEF r
<1>6. /\ meant' \in Seq(Meant) /\ Len(meant') = n /\ meant'[n] = r
      /\ \A k \in 1..n : k # n => meant'[k] = meant[k]
  BY <1>1, <1>4, <1>5, ReplacedAt
<1> HIDE DEF n, m
<1>7. part = "when" => r.conditions = m.conditions \o statements /\ r.actions = m.actions
  BY <1>5
<1>8. part = "then" => r.actions = m.actions \o statements /\ r.conditions = m.conditions
  BY <1>5
<1>9. ~r.crowded => ~m.crowded /\ Len(statements) # 2
  BY <1>5
<1> QED BY <1>5, <1>6, <1>7, <1>8, <1>9 DEF n, m

\* What a line adds to the parser's list is among what it adds to the author's.
LEMMA ListKept ==
  ASSUME NEW S, NEW a \in Seq(S), NEW b \in Seq(S), NEW statements \in Seq(S),
         ToSet(a) \subseteq ToSet(b)
  PROVE  /\ ToSet(a) \subseteq ToSet(b \o statements)
         /\ Len(statements) \in {1, 2} =>
              ToSet(Append(a, Head(statements))) \subseteq ToSet(b \o statements)
         /\ a = b /\ Len(statements) = 1 => Append(a, Head(statements)) = b \o statements
<1>1. ToSet(b) \subseteq ToSet(b \o statements) /\ ToSet(statements) \subseteq ToSet(b \o statements)
  BY ToSetConcat
<1>2. ASSUME Len(statements) \in {1, 2}
      PROVE  ToSet(Append(a, Head(statements))) \subseteq ToSet(b \o statements)
  <2> DEFINE x == Head(statements)
  <2>1. /\ 1 \in DOMAIN statements /\ x = statements[1]
        /\ statements[1] \in S
    BY <1>2
  <2>2. x \in S /\ x \in ToSet(statements)
    BY <2>1 DEF ToSet
  <2> HIDE DEF x
  <2>3. ToSet(Append(a, x)) = ToSet(a) \cup {x}
    BY <2>2, ToSetAppend
  <2> QED BY <1>1, <2>2, <2>3 DEF x
<1>3. ASSUME Len(statements) = 1 PROVE Append(b, Head(statements)) = b \o statements
  <2>1. statements = <<Head(statements)>>
    BY <1>3
  <2>2. Head(statements) \in S
    <3>1. 1 \in DOMAIN statements /\ statements[1] = Head(statements)
      BY <1>3
    <3> QED BY <3>1
  <2> DEFINE x == Head(statements)
  <2> HIDE DEF x
  <2>3. x \in S => Append(b, x) = b \o <<x>>
    OBVIOUS
  <2> QED BY <2>1, <2>2, <2>3 DEF x
<1> QED BY <1>1, <1>2, <1>3

LEMMA StatementTypes ==
  ASSUME NEW part \in {"when", "then"}, NEW statements \in StatementsOf(part)
  PROVE  /\ statements \in Seq(IF part = "when" THEN Facts ELSE RuleActions)
         /\ Len(statements) \in {1, 2}
<1> DEFINE some == IF part = "when" THEN Facts ELSE RuleActions
<1>1. statements \in {<<s>> : s \in some} \cup {<<s, t>> : s, t \in some}
  BY DEF StatementsOf
<1> HIDE DEF some
<1>2. statements \in Seq(some) /\ Len(statements) \in {1, 2}
  <2>1. CASE \E s \in some : statements = <<s>>
    BY <2>1
  <2>2. CASE \E s, t \in some : statements = <<s, t>>
    BY <2>2
  <2> QED BY <1>1, <2>1, <2>2
<1> QED BY <1>2 DEF some

\* What the parser does with a statement: nothing, a write past the array, or one more.
LEMMA StatementRead ==
  ASSUME RulesInv, rulesPhase = "spec", block.at \in {"when", "then"},
         NEW statements \in StatementsOf(block.at), StatementLine(statements)
  PROVE  /\ currentRule' = currentRule /\ inPart' = inPart
         /\ \/ rulesPhase' = "wild" /\ rules' = rules
            \/ rulesPhase' = "spec" /\ rules' = rules /\ currentRule = 0
            \/ /\ rulesPhase' = "spec" /\ Len(rules) > 0
               /\ LET n == Len(rules)
                      r == rules[n]
                      x == Head(statements)
                  IN  \/ /\ block.at = "when"
                         /\ rules' = [rules EXCEPT ![n] =
                                        [r EXCEPT !.conditions = Append(r.conditions, x)]]
                      \/ /\ block.at = "then"
                         /\ rules' = [rules EXCEPT ![n] =
                                        [r EXCEPT !.actions = Append(r.actions, x)]]
<1>1. inPart = block.at /\ currentRule \in {0, Len(rules)} /\ Len(rules) \in Nat
  BY RulesTypes DEF RulesInv, BlockIsFollowed
<1> DEFINE n == Len(rules)
           r == rules[n]
           x == Head(statements)
<1>2. CASE currentRule = 0
  BY <1>1, <1>2 DEF StatementLine
<1>3. CASE currentRule # 0 /\ block.at = "when"
  <2>1. /\ currentRule = n /\ n > 0
        /\ currentRule' = currentRule /\ inPart' = inPart
        /\ \/ rules' = [rules EXCEPT ![n]["conditions"] = Append(@, x)]
              /\ rulesPhase' = rulesPhase
           \/ rulesPhase' = "wild" /\ rules' = rules
    BY <1>1, <1>3 DEF StatementLine
  <2>2. [rules EXCEPT ![n]["conditions"] = Append(@, x)]
          = [rules EXCEPT ![n] = [r EXCEPT !.conditions = Append(r.conditions, x)]]
    OBVIOUS
  <2> QED BY <1>3, <2>1, <2>2
<1>4. CASE currentRule # 0 /\ block.at = "then"
  <2>1. /\ currentRule = n /\ n > 0
        /\ currentRule' = currentRule /\ inPart' = inPart
        /\ \/ rules' = [rules EXCEPT ![n]["actions"] = Append(@, x)]
              /\ rulesPhase' = rulesPhase
           \/ rulesPhase' = "wild" /\ rules' = rules
    BY <1>1, <1>4 DEF StatementLine
  <2>2. [rules EXCEPT ![n]["actions"] = Append(@, x)]
          = [rules EXCEPT ![n] = [r EXCEPT !.actions = Append(r.actions, x)]]
    OBVIOUS
  <2> QED BY <1>4, <2>1, <2>2
<1> QED BY <1>2, <1>3, <1>4

\* Where nothing is read, what is kept of every rule stays of it.
LEMMA KeptUnread ==
  ASSUME RulesInv, rulesPhase = "spec", Len(meant) > 0,
         NEW part \in {"when", "then"}, NEW style \in BlockStyles,
         NEW statements \in Seq(IF part = "when" THEN Facts ELSE RuleActions),
         Means(part, style, statements),
         IsBare(meant'[Len(meant)]) => statements = <<>>
  PROVE  \A r \in 1..Len(rules) : KeepsRule(rules[r], meant'[r])
<1> DEFINE n == Len(meant)
           old == meant[n]
           new == meant'[n]
<1>1. /\ Len(rules) = n /\ \A r \in 1..n : KeepsRule(rules[r], meant[r])
      /\ n \in 1..n /\ old \in Meant /\ n \in Nat
  BY RulesTypes DEF RulesInv
<1>2. \A r \in 1..n : r # n => meant'[r] = meant[r]
  BY MeansMore
<1>4. /\ part = "when" => new.conditions = old.conditions \o statements /\ new.actions = old.actions
      /\ part = "then" => new.actions = old.actions \o statements /\ new.conditions = old.conditions
      /\ new.styles = old.styles \cup {style}
      /\ ~new.crowded => ~old.crowded
  BY MeansMore
<1>5. /\ old.conditions \in Seq(Facts) /\ old.actions \in Seq(RuleActions)
  BY <1>1 DEF Meant
<1>6. /\ ToSet(old.conditions) \subseteq ToSet(new.conditions)
      /\ ToSet(old.actions) \subseteq ToSet(new.actions)
  <2>1. CASE part = "when"
    <3>1. statements \in Seq(Facts)
      BY <2>1
    <3>2. ToSet(old.conditions) \subseteq ToSet(old.conditions \o statements)
      BY <1>5, <3>1, ToSetConcat
    <3> HIDE DEF old, new
    <3> QED BY <1>4, <2>1, <3>2
  <2>2. CASE part = "then"
    <3>1. statements \in Seq(RuleActions)
      BY <2>2
    <3>2. ToSet(old.actions) \subseteq ToSet(old.actions \o statements)
      BY <1>5, <3>1, ToSetConcat
    <3> HIDE DEF old, new
    <3> QED BY <1>4, <2>2, <3>2
  <2> QED BY <2>1, <2>2
<1>7. IsBare(new) => statements = <<>>
  OBVIOUS
<1>8. KeepsRule(rules[n], old)
  BY <1>1
<1> HIDE DEF old, new
<1>9. ASSUME IsBare(new)
      PROVE  IsBare(old) /\ new.conditions = old.conditions /\ new.actions = old.actions
  <2>1. IsBare(old)
    BY <1>4, <1>9 DEF IsBare
  <2>2. /\ old.conditions \o <<>> = old.conditions
        /\ old.actions \o <<>> = old.actions
    BY <1>5
  <2> QED BY <1>4, <1>7, <1>9, <2>1, <2>2
<1>10. KeepsRule(rules[n], new)
  BY <1>6, <1>8, <1>9 DEF KeepsRule
<1> QED BY <1>1, <1>2, <1>10 DEF new

\* A statement that is read is of the last rule, in the part its author is in.
LEMMA KeptRead ==
  ASSUME RulesInv, rulesPhase = "spec", Len(meant) > 0,
         NEW part \in {"when", "then"}, NEW style \in BlockStyles,
         NEW statements \in StatementsOf(part),
         Means(part, style, statements),
         LET n == Len(rules)
             r == rules[n]
             x == Head(statements)
         IN  \/ /\ part = "when"
                /\ rules' = [rules EXCEPT ![n] =
                               [r EXCEPT !.conditions = Append(r.conditions, x)]]
             \/ /\ part = "then"
                /\ rules' = [rules EXCEPT ![n] =
                               [r EXCEPT !.actions = Append(r.actions, x)]]
  PROVE  /\ rules' \in Seq(Rule) /\ Len(rules') = Len(rules)
         /\ \A r \in 1..Len(rules) : KeepsRule(rules'[r], meant'[r])
<1> DEFINE n == Len(rules)
           old == meant[n]
           new == meant'[n]
           r == rules[n]
           x == Head(statements)
           q == rules'[n]
<1>1. /\ n = Len(meant) /\ n \in 1..n /\ n \in Nat /\ old \in Meant /\ r \in Rule
      /\ rules \in Seq(Rule)
      /\ \A k \in 1..n : KeepsRule(rules[k], meant[k])
  BY RulesTypes DEF RulesInv
<1>2. /\ statements \in Seq(IF part = "when" THEN Facts ELSE RuleActions)
      /\ Len(statements) \in {1, 2}
  BY StatementTypes
<1>3. \A k \in 1..n : k # n => meant'[k] = meant[k]
  BY <1>1, <1>2, MeansMore
<1>4. /\ part = "when" => new.conditions = old.conditions \o statements /\ new.actions = old.actions
      /\ part = "then" => new.actions = old.actions \o statements /\ new.conditions = old.conditions
      /\ new.styles = old.styles \cup {style}
      /\ ~new.crowded => ~old.crowded /\ Len(statements) # 2
  BY <1>1, <1>2, MeansMore
<1>5. /\ old.conditions \in Seq(Facts) /\ old.actions \in Seq(RuleActions)
      /\ r.conditions \in Seq(Facts) /\ r.actions \in Seq(RuleActions)
  BY <1>1 DEF Meant, Rule
<1>6. KeepsRule(r, old)
  BY <1>1
<1>7. Head(statements) \in (IF part = "when" THEN Facts ELSE RuleActions)
  <2>1. 1 \in DOMAIN statements /\ statements[1] = Head(statements)
    BY <1>2
  <2> QED BY <1>2, <2>1
<1>8. IsBare(new) => IsBare(old) /\ Len(statements) = 1
  <2> HIDE DEF old, new
  <2> QED BY <1>2, <1>4 DEF IsBare
<1>9. CASE part = "when"
  <2> DEFINE more == [r EXCEPT !.conditions = Append(r.conditions, x)]
  <2>1. rules' = [rules EXCEPT ![n] = more]
    BY <1>9
  <2>2. more \in Rule /\ more.conditions = Append(r.conditions, x) /\ more.actions = r.actions
    <3>1. x \in Facts
      BY <1>7, <1>9
    <3>2. r \in Rule /\ r.conditions \in Seq(Facts)
      BY <1>1, <1>5
    <3> HIDE DEF x, r
    <3>3. Append(r.conditions, x) \in Seq(Facts)
      BY <3>1, <3>2
    <3> QED BY <3>2, <3>3 DEF Rule
  <2> HIDE DEF more
  <2>3. /\ rules' \in Seq(Rule) /\ Len(rules') = n /\ rules'[n] = more
        /\ \A k \in 1..n : k # n => rules'[k] = rules[k]
    BY <1>1, <2>1, <2>2, ReplacedAt
  <2>4. statements \in Seq(Facts)
    BY <1>2, <1>9
  <2>5. ToSet(r.conditions) \subseteq ToSet(old.conditions)
    BY <1>6 DEF KeepsRule
  <2> HIDE DEF r, old, new, x
  <2>6. /\ ToSet(Append(r.conditions, x)) \subseteq ToSet(old.conditions \o statements)
        /\ r.conditions = old.conditions /\ Len(statements) = 1 =>
             Append(r.conditions, x) = old.conditions \o statements
    <3> DEFINE a == r.conditions
               b == old.conditions
    <3>1. a \in Seq(Facts) /\ b \in Seq(Facts) /\ ToSet(a) \subseteq ToSet(b)
      BY <1>5, <2>5
    <3> HIDE DEF a, b
    <3>2. /\ ToSet(Append(a, Head(statements))) \subseteq ToSet(b \o statements)
          /\ a = b /\ Len(statements) = 1 => Append(a, Head(statements)) = b \o statements
      BY <1>2, <2>4, <3>1, ListKept
    <3> QED BY <3>2 DEF x, a, b
  <2>7. KeepsRule(more, new)
    BY <1>4, <1>6, <1>8, <1>9, <2>2, <2>6 DEF KeepsRule
  <2> QED BY <1>1, <1>3, <2>3, <2>7 DEF new
<1>10. CASE part = "then"
  <2> DEFINE more == [r EXCEPT !.actions = Append(r.actions, x)]
  <2>1. rules' = [rules EXCEPT ![n] = more]
    BY <1>10
  <2>2. more \in Rule /\ more.actions = Append(r.actions, x) /\ more.conditions = r.conditions
    <3>1. x \in RuleActions
      BY <1>7, <1>10
    <3>2. r \in Rule /\ r.actions \in Seq(RuleActions)
      BY <1>1, <1>5
    <3> HIDE DEF x, r
    <3>3. Append(r.actions, x) \in Seq(RuleActions)
      BY <3>1, <3>2
    <3> QED BY <3>2, <3>3 DEF Rule
  <2> HIDE DEF more
  <2>3. /\ rules' \in Seq(Rule) /\ Len(rules') = n /\ rules'[n] = more
        /\ \A k \in 1..n : k # n => rules'[k] = rules[k]
    BY <1>1, <2>1, <2>2, ReplacedAt
  <2>4. statements \in Seq(RuleActions)
    BY <1>2, <1>10
  <2>5. ToSet(r.actions) \subseteq ToSet(old.actions)
    BY <1>6 DEF KeepsRule
  <2> HIDE DEF r, old, new, x
  <2>6. /\ ToSet(Append(r.actions, x)) \subseteq ToSet(old.actions \o statements)
        /\ r.actions = old.actions /\ Len(statements) = 1 =>
             Append(r.actions, x) = old.actions \o statements
    <3> DEFINE a == r.actions
               b == old.actions
    <3>1. a \in Seq(RuleActions) /\ b \in Seq(RuleActions) /\ ToSet(a) \subseteq ToSet(b)
      BY <1>5, <2>5
    <3> HIDE DEF a, b
    <3>2. /\ ToSet(Append(a, Head(statements))) \subseteq ToSet(b \o statements)
          /\ a = b /\ Len(statements) = 1 => Append(a, Head(statements)) = b \o statements
      BY <1>2, <2>4, <3>1, ListKept
    <3> QED BY <3>2 DEF x, a, b
  <2>7. KeepsRule(more, new)
    BY <1>4, <1>6, <1>8, <1>10, <2>2, <2>6 DEF KeepsRule
  <2> QED BY <1>1, <1>3, <2>3, <2>7 DEF new
<1> QED BY <1>9, <1>10

\* A line of the file, by what it leaves.
LEMMA LineWritten ==
  ASSUME RulesInv, Writes, rules' \in Seq(Rule), meant' \in Seq(Meant),
         inPart' \in {"none", "when", "then"}, rulesPhase' \in {"spec", "wild"},
         rulesPhase' = "spec" =>
           /\ Len(rules') = Len(meant')
           /\ \A r \in 1..Len(rules') : KeepsRule(rules'[r], meant'[r])
           /\ BlockIsFollowed'
  PROVE  RulesInv'
BY DEF RulesInv, Writes

LEMMA RuleStep == RulesInv /\ WriteRule => RulesInv'
<1> SUFFICES ASSUME RulesInv, WriteRule PROVE RulesInv'
  OBVIOUS
<1> DEFINE blank == [conditions |-> <<>>, actions |-> <<>>, styles |-> {}, crowded |-> FALSE]
           n == Len(meant)
<1>1. blank \in Meant /\ NewRule \in Rule /\ KeepsRule(NewRule, blank)
  <2>1. blank \in Meant /\ NewRule \in Rule
    BY DEF Meant, Rule, NewRule
  <2>2. KeepsRule(NewRule, blank)
    BY DEF KeepsRule, NewRule
  <2> QED BY <2>1, <2>2
<1>2. /\ Writes /\ rulesPhase = "spec" /\ meant' = Append(meant, blank)
      /\ block' = [at |-> "rule", style |-> "none"] /\ RuleLine
  BY DEF WriteRule, Writes
<1> HIDE DEF blank
<1>3. /\ rules \in Seq(Rule) /\ meant \in Seq(Meant) /\ Len(rules) = n /\ n \in Nat
      /\ \A r \in 1..n : KeepsRule(rules[r], meant[r])
      /\ inPart \in {"none", "when", "then"}
  BY <1>2, RulesTypes DEF RulesInv
<1>4. /\ meant' \in Seq(Meant) /\ Len(meant') = n + 1 /\ meant'[n + 1] = blank
      /\ \A r \in 1..n : meant'[r] = meant[r]
  BY <1>1, <1>2, <1>3, Appended
<1>5. CASE Len(rules) < MaxRules
  <2>1. /\ rules' = Append(rules, NewRule) /\ currentRule' = n + 1
        /\ inPart' = inPart /\ rulesPhase' = "spec"
    BY <1>2, <1>3, <1>5 DEF RuleLine
  <2>2. /\ rules' \in Seq(Rule) /\ Len(rules') = n + 1 /\ rules'[n + 1] = NewRule
        /\ \A r \in 1..n : rules'[r] = rules[r]
    BY <1>1, <1>3, <2>1, Appended
  <2>3. \A r \in 1..(n + 1) : KeepsRule(rules'[r], meant'[r])
    <3> TAKE r \in 1..(n + 1)
    <3> HIDE DEF n
    <3>1. CASE r \in 1..n
      BY <1>3, <1>4, <2>2, <3>1
    <3>2. CASE r = n + 1
      BY <1>1, <1>4, <2>2, <3>2
    <3> QED BY <1>3, <3>1, <3>2
  <2> HIDE DEF n
  <2>4. BlockIsFollowed'
    BY <1>2, <1>3, <1>4, <2>1, <2>2 DEF BlockIsFollowed
  <2> QED BY <1>2, <1>3, <1>4, <2>1, <2>2, <2>3, <2>4, LineWritten
<1>6. CASE ~(Len(rules) < MaxRules)
  <2>1. rulesPhase' = "wild" /\ rules' = rules /\ inPart' = inPart
    BY <1>2, <1>6 DEF RuleLine
  <2> QED BY <1>2, <1>3, <1>4, <2>1, LineWritten
<1> QED BY <1>5, <1>6

\* A line that opens a block, with its statements if the block is on one line: the
\* parser sees the block and reads nothing.
LEMMA BlockOpened ==
  ASSUME RulesInv, Writes, NEW part \in {"when", "then"}, NEW style \in BlockStyles,
         NEW statements \in Seq(IF part = "when" THEN Facts ELSE RuleActions),
         MayOpen(part), Means(part, style, statements), PartLine(part),
         style = "inline" \/ statements = <<>>,
         block'.style = style,
         \/ block'.at = part
         \/ style = "inline" /\ block'.at \in {"whenDone", "thenDone"}
  PROVE  RulesInv'
<1> DEFINE n == Len(meant)
<1>1. /\ rulesPhase = "spec" /\ rules' = rules /\ currentRule' = currentRule
      /\ inPart' = part /\ rulesPhase' = "spec"
  BY DEF Writes, PartLine
<1>2. /\ rules \in Seq(Rule) /\ meant \in Seq(Meant) /\ Len(rules) = n /\ n \in Nat
      /\ BlockIsFollowed /\ block.at # "top"
  BY <1>1, RulesTypes DEF RulesInv, MayOpen
<1>3. n > 0 /\ currentRule \in {0, n} /\ (IsBare(meant[n]) => currentRule = n)
  BY <1>2 DEF BlockIsFollowed
<1>4. /\ meant' \in Seq(Meant) /\ Len(meant') = n
      /\ meant'[n].styles = meant[n].styles \cup {style}
      /\ ~meant'[n].crowded => ~meant[n].crowded
  BY <1>3, MeansMore
<1> DEFINE old == meant[n]
           new == meant'[n]
<1>5. IsBare(new) => IsBare(old) /\ statements = <<>>
  <2> HIDE DEF old, new
  <2>1. new.styles = old.styles \cup {style} /\ (~new.crowded => ~old.crowded)
    BY <1>4 DEF old, new
  <2> QED BY <2>1 DEF IsBare
<1>6. \A r \in 1..n : KeepsRule(rules[r], meant'[r])
  BY <1>1, <1>2, <1>3, <1>5, KeptUnread
<1>7. BlockIsFollowed'
  <2> HIDE DEF n
  <2>1. style \in meant'[n].styles
    BY <1>4
  <2>2. block'.at \in {"when", "then"} => inPart' = block'.at
    BY <1>1
  <2>3. block'.at \in {"whenDone", "thenDone"} => block'.style # "open"
    OBVIOUS
  <2>4. IsBare(meant'[n]) => currentRule' = n
    BY <1>1, <1>3, <1>5
  <2>5. block'.at \in {"when", "then", "whenDone", "thenDone"}
    OBVIOUS
  <2> QED BY <1>1, <1>2, <1>3, <1>4, <2>1, <2>2, <2>3, <2>4, <2>5 DEF BlockIsFollowed
<1> QED BY <1>1, <1>2, <1>4, <1>6, <1>7, LineWritten

LEMMA PartStep ==
  ASSUME RulesInv, NEW part \in {"when", "then"}, NEW style \in BlockStyles,
         WritePart(part, style)
  PROVE  RulesInv'
<1>1. /\ Writes /\ MayOpen(part) /\ block' = [at |-> part, style |-> style]
      /\ Means(part, style, <<>>) /\ PartLine(part)
  BY DEF WritePart
<1>2. <<>> \in Seq(IF part = "when" THEN Facts ELSE RuleActions)
  OBVIOUS
<1>3. block'.style = style /\ block'.at = part
  BY <1>1
<1> QED BY <1>1, <1>2, <1>3, BlockOpened

LEMMA InlineStep ==
  ASSUME RulesInv, NEW part \in {"when", "then"}, NEW statements \in StatementsOf(part),
         WriteInline(part, statements)
  PROVE  RulesInv'
<1>1. /\ Writes /\ MayOpen(part)
      /\ block' = [at |-> IF part = "when" THEN "whenDone" ELSE "thenDone",
                   style |-> "inline"]
      /\ Means(part, "inline", statements) /\ PartLine(part)
  BY DEF WriteInline
<1>2. statements \in Seq(IF part = "when" THEN Facts ELSE RuleActions)
  BY StatementTypes
<1>3. block'.style = "inline" /\ block'.at \in {"whenDone", "thenDone"}
  BY <1>1
<1>4. "inline" \in BlockStyles
  BY DEF BlockStyles
<1> QED BY <1>1, <1>2, <1>3, <1>4, BlockOpened

\* Within a block, by what the parser makes of the statement.
LEMMA StatementStep ==
  ASSUME RulesInv, NEW statements \in StatementsOf(block.at), WriteStatement(statements)
  PROVE  RulesInv'
<1> DEFINE n == Len(meant)
<1>1. /\ Writes /\ rulesPhase = "spec" /\ block.at \in {"when", "then"} /\ block' = block
      /\ Means(block.at, block.style, statements) /\ StatementLine(statements)
  BY DEF WriteStatement, Writes
<1>2. /\ rules \in Seq(Rule) /\ meant \in Seq(Meant) /\ Len(rules) = n /\ n \in Nat
      /\ BlockIsFollowed /\ inPart \in {"none", "when", "then"}
  BY <1>1, RulesTypes DEF RulesInv
<1>3. /\ n > 0 /\ currentRule \in {0, n} /\ (IsBare(meant[n]) => currentRule = n)
      /\ block.style \in meant[n].styles /\ inPart = block.at
  BY <1>1, <1>2 DEF BlockIsFollowed
<1>4. meant[n] \in Meant
  <2>1. n \in 1..n
    BY <1>2, <1>3
  <2> QED BY <2>1, RulesTypes
<1>5. block.style \in BlockStyles
  BY <1>3, <1>4 DEF Meant
<1>6. /\ statements \in Seq(IF block.at = "when" THEN Facts ELSE RuleActions)
      /\ Len(statements) \in {1, 2}
  BY <1>1, StatementTypes
<1>7. /\ meant' \in Seq(Meant) /\ Len(meant') = n
      /\ meant'[n].styles = meant[n].styles \cup {block.style}
      /\ ~meant'[n].crowded => ~meant[n].crowded
  BY <1>1, <1>3, <1>5, <1>6, MeansMore
<1>8. /\ currentRule' = currentRule /\ inPart' = inPart
      /\ \/ rulesPhase' = "wild" /\ rules' = rules
         \/ rulesPhase' = "spec" /\ rules' = rules /\ currentRule = 0
         \/ /\ rulesPhase' = "spec" /\ Len(rules) > 0
            /\ LET k == Len(rules)
                   r == rules[k]
                   x == Head(statements)
               IN  \/ /\ block.at = "when"
                      /\ rules' = [rules EXCEPT ![k] =
                                     [r EXCEPT !.conditions = Append(r.conditions, x)]]
                   \/ /\ block.at = "then"
                      /\ rules' = [rules EXCEPT ![k] =
                                     [r EXCEPT !.actions = Append(r.actions, x)]]
  BY <1>1, StatementRead
<1> DEFINE old == meant[n]
           new == meant'[n]
<1>9. IsBare(new) => IsBare(old)
  <2> HIDE DEF old, new
  <2>1. new.styles = old.styles \cup {block.style} /\ (~new.crowded => ~old.crowded)
    BY <1>7 DEF old, new
  <2> QED BY <2>1 DEF IsBare
<1>10. BlockIsFollowed'
  <2>1. block.style \in new.styles
    BY <1>7
  <2>2. IsBare(new) => currentRule' = n
    BY <1>3, <1>8, <1>9
  <2>3. currentRule' \in {0, Len(rules')}
    <3>1. Len(rules') = n
      <4>1. CASE rules' = rules
        BY <1>2, <4>1
      <4>2. CASE rules' # rules
        <5>1. Len(rules') = Len(rules)
          BY <1>1, <1>3, <1>5, <1>8, <4>2, KeptRead
        <5> QED BY <1>2, <5>1
      <4> QED BY <4>1, <4>2
    <3> QED BY <1>3, <1>8, <3>1
  <2>4. new = meant'[Len(meant')] /\ Len(meant') = n
    BY <1>7
  <2> HIDE DEF n, old, new
  <2>5. IsBare(meant'[Len(meant')]) => currentRule' = Len(meant')
    BY <2>2, <2>4
  <2>6. block'.style \in meant'[Len(meant')].styles
    BY <1>1, <2>1, <2>4
  <2> QED BY <1>1, <1>2, <1>3, <1>8, <2>3, <2>4, <2>5, <2>6 DEF BlockIsFollowed
<1>11. CASE rulesPhase' = "wild" /\ rules' = rules
  BY <1>1, <1>2, <1>7, <1>8, <1>11, LineWritten
<1>12. CASE rulesPhase' = "spec" /\ rules' = rules /\ currentRule = 0
  <2>1. ~IsBare(new)
    BY <1>3, <1>9, <1>12
  <2>2. \A r \in 1..Len(rules) : KeepsRule(rules[r], meant'[r])
    BY <1>1, <1>3, <1>5, <1>6, <2>1, KeptUnread
  <2> QED BY <1>1, <1>2, <1>7, <1>8, <1>10, <1>12, <2>2, LineWritten
<1>13. CASE /\ rulesPhase' = "spec"
            /\ LET k == Len(rules)
                   r == rules[k]
                   x == Head(statements)
               IN  \/ /\ block.at = "when"
                      /\ rules' = [rules EXCEPT ![k] =
                                     [r EXCEPT !.conditions = Append(r.conditions, x)]]
                   \/ /\ block.at = "then"
                      /\ rules' = [rules EXCEPT ![k] =
                                     [r EXCEPT !.actions = Append(r.actions, x)]]
  <2>1. /\ rules' \in Seq(Rule) /\ Len(rules') = Len(rules)
        /\ \A r \in 1..Len(rules) : KeepsRule(rules'[r], meant'[r])
    BY <1>1, <1>3, <1>5, <1>13, KeptRead
  <2> QED BY <1>1, <1>2, <1>7, <1>8, <1>10, <1>13, <2>1, LineWritten
<1> QED BY <1>8, <1>11, <1>12, <1>13

LEMMA CloseStep == RulesInv /\ WriteClose => RulesInv'
<1> SUFFICES ASSUME RulesInv, WriteClose PROVE RulesInv'
  OBVIOUS
<1> DEFINE n == Len(meant)
<1>1. /\ Writes /\ rulesPhase = "spec" /\ rules' = rules /\ meant' = meant
      /\ rulesPhase' = "spec" /\ currentRule' = 0 /\ inPart' = "none"
  BY DEF WriteClose, Writes, CloseLine
<1>2. /\ rules \in Seq(Rule) /\ meant \in Seq(Meant) /\ Len(rules) = n /\ n \in Nat
      /\ BlockIsFollowed /\ \A r \in 1..n : KeepsRule(rules[r], meant[r])
  BY <1>1, RulesTypes DEF RulesInv
<1>3. BlockIsFollowed'
  <2>1. CASE /\ block.at \in {"when", "then"} /\ block.style = "braced"
             /\ block' = [at |-> IF block.at = "when" THEN "whenDone" ELSE "thenDone",
                          style |-> "braced"]
    <3>1. /\ n > 0 /\ "braced" \in meant[n].styles
      BY <1>2, <2>1 DEF BlockIsFollowed
    <3>2. ~IsBare(meant[n])
      BY <3>1 DEF IsBare
    <3>3. block'.at \in {"whenDone", "thenDone"} /\ block'.style = "braced"
      BY <2>1
    <3> QED BY <1>1, <1>2, <3>1, <3>2, <3>3 DEF BlockIsFollowed
  <2>2. CASE block' = [at |-> "top", style |-> "none"]
    BY <1>1, <2>2 DEF BlockIsFollowed
  <2> QED BY <2>1, <2>2 DEF WriteClose
<1> QED BY <1>1, <1>2, <1>3, LineWritten

LEMMA RulesStep == RulesInv /\ [RulesNext]_rulesVars => RulesInv'
<1> SUFFICES ASSUME RulesInv, [RulesNext]_rulesVars PROVE RulesInv'
  OBVIOUS
<1>1. CASE WriteRule
  BY <1>1, RuleStep
<1>2. ASSUME NEW part \in {"when", "then"}, NEW style \in BlockStyles,
             WritePart(part, style)
      PROVE  RulesInv'
  BY <1>2, PartStep
<1>3. ASSUME NEW part \in {"when", "then"}, NEW statements \in StatementsOf(part),
             WriteInline(part, statements)
      PROVE  RulesInv'
  BY <1>3, InlineStep
<1>4. ASSUME NEW statements \in StatementsOf(block.at), WriteStatement(statements)
      PROVE  RulesInv'
  BY <1>4, StatementStep
<1>5. CASE WriteClose
  BY <1>5, CloseStep
<1>6. ASSUME NEW facts \in SUBSET Facts, CallEvaluateAll(facts) PROVE RulesInv'
  BY <1>6 DEF CallEvaluateAll, RulesInv
<1>7. CASE EvaluateRule
  <2>1. /\ rulesPhase = "evaluate" /\ evaluated' = evaluated + 1
        /\ fired' \in {fired, fired \cup {evaluated + 1}}
        /\ UNCHANGED <<rules, inPart, meant, rulesPhase>>
    BY <1>7 DEF EvaluateRule
  <2>2. evaluated' \in Nat /\ fired' \subseteq 1..evaluated'
    BY <2>1 DEF RulesInv
  <2> QED BY <2>1, <2>2 DEF RulesInv
<1>8. CASE UNCHANGED rulesVars
  BY <1>8 DEF rulesVars, RulesInv, BlockIsFollowed
<1> QED BY <1>1, <1>2, <1>3, <1>4, <1>5, <1>6, <1>7, <1>8 DEF RulesNext

\* Of every .rules file: where the parser is, what the rules hold, and what evaluate_all
\* has run so far (clipsgen.c:54-195).
THEOREM RulesInvariant == RulesSpec => []RulesInv
BY RulesInitInv, RulesStep, PTL DEF RulesSpec

\* Whatever is evaluated is a rule that is there; a bare one has what its author wrote.
LEMMA BareRulesAct == RulesInv /\ [RulesNext]_rulesVars => BareRulesDoWhatTheySay
<1> SUFFICES ASSUME RulesInv, [RulesNext]_rulesVars, NEW r \in DOMAIN meant,
                    evaluated' = r, evaluated = r - 1, Bare(r)
             PROVE  /\ r \in fired' <=> Holds(meant[r].conditions, context)
                    /\ context' = IF r \in fired' THEN ActAll(meant[r].actions, context)
                                  ELSE context
  BY DEF BareRulesDoWhatTheySay
<1>1. r \in 1..Len(meant) /\ r \in Nat /\ r \notin fired /\ evaluated \in Nat
  BY RulesTypes DEF RulesInv
<1>2. evaluated' # evaluated
  BY <1>1
<1>3. EvaluateRule
  BY <1>2 DEF RulesNext, rulesVars, WriteRule, WritePart, WriteInline, WriteStatement,
              WriteClose, Writes, CallEvaluateAll
<1>4. KeepsRule(rules[r], meant[r]) /\ IsBare(meant[r])
  BY <1>1, <1>3 DEF EvaluateRule, RulesInv, Bare, IsBare
<1>5. /\ rules[r].conditions = meant[r].conditions /\ rules[r].actions = meant[r].actions
  BY <1>4 DEF KeepsRule
<1>6. IF Holds(meant[r].conditions, context)
      THEN /\ fired' = fired \cup {r}
           /\ context' = ActAll(meant[r].actions, context)
      ELSE UNCHANGED <<fired, context>>
  BY <1>3, <1>5 DEF EvaluateRule
<1> QED BY <1>1, <1>6

\* StatementsKeepTheirRule and BareRulesDoWhatTheySay of every file: clipsgen.c:69-100
\* never puts a statement in another rule or part, and what evaluate_all does with a rule
\* whose blocks have no braces of their own is what its author wrote.
THEOREM RulesAct == RulesSpec => RulesDoWhatTheySay
<1>1. RulesInv => StatementsKeepTheirRule
  <2> SUFFICES ASSUME RulesInv, rulesPhase # "wild"
               PROVE  /\ Len(rules) = Len(meant)
                      /\ \A r \in 1..Len(rules) :
                           /\ ToSet(rules[r].conditions) \subseteq ToSet(meant[r].conditions)
                           /\ ToSet(rules[r].actions) \subseteq ToSet(meant[r].actions)
    BY RulesTypes DEF StatementsKeepTheirRule
  <2> QED BY DEF RulesInv, KeepsRule
<1>2. RulesInv /\ [RulesNext]_rulesVars =>
        [StatementsKeepTheirRule' /\ BareRulesDoWhatTheySay]_rulesVars
  <2>1. RulesInv /\ [RulesNext]_rulesVars => RulesInv' /\ BareRulesDoWhatTheySay
    BY RulesStep, BareRulesAct
  <2>2. RulesInv' => StatementsKeepTheirRule'
    BY <1>1, PTL
  <2> QED BY <2>1, <2>2
<1> QED BY <1>2, RulesInvariant, PTL DEF RulesSpec, RulesDoWhatTheySay

\* The recursion of ActAll, over the sets of the actions' places.
FactsAfter(actions, facts) ==
  CHOOSE f : f = [s \in SUBSET (DOMAIN actions) |->
                    IF s = {} THEN facts ELSE Act(f[s \ {Max(s)}], actions[Max(s)])]

LEMMA ActAllIsIterated ==
  ASSUME NEW actions, NEW facts
  PROVE  ActAll(actions, facts) = FactsAfter(actions, facts)[DOMAIN actions]
BY DEF ActAll, FoldLeft, MapThenFoldSet, FactsAfter

ActionsOn(actions, s, x) == {i \in s : actions[i].fact = x}

\* What holds after the actions at s: where one of them is on a fact, what the last of
\* those says.
Settled(actions, s, facts) ==
  {x \in Facts : IF ActionsOn(actions, s, x) = {} THEN x \in facts
                 ELSE actions[Max(ActionsOn(actions, s, x))].value}

LEMMA MaxIs ==
  ASSUME NEW b \in Nat, NEW s \in SUBSET (1..b), s # {}
  PROVE  Max(s) \in s /\ \A i \in s : Max(s) >= i
<1>1. s \in SUBSET (0..b)
  OBVIOUS
<1>2. \E m \in s : \A n \in s : n <= m
  BY <1>1, Greatest
<1>3. \E m \in s : \A n \in s : m >= n
  BY <1>2
<1> QED BY <1>3 DEF Max

LEMMA MaxIsUnique ==
  ASSUME NEW b \in Nat, NEW s \in SUBSET (1..b), NEW m \in s, \A i \in s : i <= m
  PROVE  Max(s) = m
<1>1. Max(s) \in s /\ Max(s) >= m
  BY MaxIs
<1>2. \A i \in s : i \in Nat
  OBVIOUS
<1>3. \A x \in s : x >= m => x = m
  BY <1>2
<1> QED BY <1>1, <1>3

LEMMA SettledStep ==
  ASSUME NEW actions \in Seq(RuleActions), NEW facts \in SUBSET Facts,
         NEW s \in SUBSET (DOMAIN actions), s # {}
  PROVE  Settled(actions, s, facts) =
           Act(Settled(actions, s \ {Max(s)}, facts), actions[Max(s)])
<1> DEFINE m == Max(s)
           a == actions[m]
           before == Settled(actions, s \ {m}, facts)
<1>1. /\ DOMAIN actions = 1..Len(actions) /\ Len(actions) \in Nat
      /\ m \in s /\ \A i \in s : i <= m
  <2>1. DOMAIN actions = 1..Len(actions) /\ Len(actions) \in Nat
    OBVIOUS
  <2>2. m \in s /\ \A i \in s : m >= i
    BY <2>1, MaxIs
  <2> QED BY <2>1, <2>2
<1>2. a.fact \in Facts /\ a.value \in BOOLEAN
  BY <1>1, RulesAssumption
<1> HIDE DEF m
<1>3. ASSUME NEW x \in Facts
      PROVE  x \in Settled(actions, s, facts) <=>
               IF x = a.fact THEN a.value ELSE x \in before
  <2>1. CASE x = a.fact
    <3>1. /\ m \in ActionsOn(actions, s, x)
          /\ \A i \in ActionsOn(actions, s, x) : i <= m
          /\ ActionsOn(actions, s, x) \in SUBSET (1..Len(actions))
      BY <1>1, <2>1 DEF ActionsOn
    <3>2. Max(ActionsOn(actions, s, x)) = m
      BY <1>1, <3>1, MaxIsUnique
    <3> QED BY <2>1, <3>1, <3>2 DEF Settled
  <2>2. CASE x # a.fact
    <3>1. ActionsOn(actions, s \ {m}, x) = ActionsOn(actions, s, x)
      BY <2>2 DEF ActionsOn
    <3> QED BY <2>2, <3>1 DEF Settled
  <2> QED BY <2>1, <2>2
<1>4. before \subseteq Facts /\ Settled(actions, s, facts) \subseteq Facts
  BY DEF Settled
<1> HIDE DEF a, before
<1>5. ASSUME NEW x PROVE x \in Settled(actions, s, facts) <=> x \in Act(before, a)
  <2>1. CASE a.value
    BY <1>2, <1>3, <1>4, <2>1 DEF Act
  <2>2. CASE ~a.value
    BY <1>2, <1>3, <1>4, <2>2 DEF Act
  <2> QED BY <2>1, <2>2
<1> QED BY <1>5 DEF a, before, m

\* The recursive definition defines a function, of which Settled is the closed form.
LEMMA FactsAfterRec ==
  ASSUME NEW actions \in Seq(RuleActions), NEW facts \in SUBSET Facts
  PROVE  LET f == FactsAfter(actions, facts) IN
           \A s \in SUBSET (DOMAIN actions) :
             f[s] = IF s = {} THEN facts ELSE Act(f[s \ {Max(s)}], actions[Max(s)])
<1> DEFINE D == SUBSET (DOMAIN actions)
           Rec(f) == f = [s \in D |->
                       IF s = {} THEN facts ELSE Act(f[s \ {Max(s)}], actions[Max(s)])]
           F == [s \in D |-> Settled(actions, s, facts)]
<1>1. ASSUME NEW s \in D
      PROVE  F[s] = IF s = {} THEN facts ELSE Act(F[s \ {Max(s)}], actions[Max(s)])
  <2>1. F[s] = Settled(actions, s, facts) /\ F[s \ {Max(s)}] = Settled(actions, s \ {Max(s)}, facts)
    OBVIOUS
  <2>2. CASE s = {}
    BY <2>1, <2>2 DEF Settled, ActionsOn
  <2>3. CASE s # {}
    BY <2>1, <2>3, SettledStep
  <2> QED BY <2>2, <2>3
<1>2. Rec(F)
  <2>1. F = [s \in D |-> F[s]]
    OBVIOUS
  <2> HIDE DEF F, D
  <2> QED BY <1>1, <2>1
<1>3. Rec(FactsAfter(actions, facts))
  <2>1. FactsAfter(actions, facts) = CHOOSE f : Rec(f)
    BY DEF FactsAfter
  <2> HIDE DEF Rec, F
  <2> QED BY <1>2, <2>1
<1> QED BY <1>3

\* After the actions of a rule each fact is as the last of them on it says, and as it was
\* where none is (clipsgen.c:182-185).
THEOREM LastActionCounts ==
  ASSUME NEW actions \in Seq(RuleActions), NEW facts \in SUBSET Facts
  PROVE  ActAll(actions, facts) = Settled(actions, DOMAIN actions, facts)
<1> DEFINE n == Len(actions)
           f == FactsAfter(actions, facts)
           Same == {k \in Nat : k <= n => f[1..k] = Settled(actions, 1..k, facts)}
<1>1. DOMAIN actions = 1..n /\ n \in Nat
  OBVIOUS
<1>2. \A s \in SUBSET (1..n) :
        f[s] = IF s = {} THEN facts ELSE Act(f[s \ {Max(s)}], actions[Max(s)])
  BY <1>1, FactsAfterRec
<1> HIDE DEF f, n
<1>3. 0 \in Same
  <2>1. 1..0 = {} /\ {} \in SUBSET (1..n)
    OBVIOUS
  <2>2. f[{}] = facts
    BY <1>2, <2>1
  <2>3. Settled(actions, {}, facts) = facts
    BY DEF Settled, ActionsOn
  <2> QED BY <2>1, <2>2, <2>3
<1>4. ASSUME NEW k \in Same PROVE k + 1 \in Same
  <2> SUFFICES ASSUME k + 1 <= n PROVE f[1..(k + 1)] = Settled(actions, 1..(k + 1), facts)
    OBVIOUS
  <2>1. k \in Nat /\ f[1..k] = Settled(actions, 1..k, facts)
    BY <1>1
  <2> HIDE DEF Same
  <2>2. 1..(k + 1) \in SUBSET (1..n) /\ k + 1 \in 1..(k + 1) /\ 1..(k + 1) # {}
    <3>1. k + 1 \in Nat /\ k + 1 \in 1..(k + 1)
      BY <2>1
    <3>2. \A i \in 1..(k + 1) : i \in 1..n
      BY <1>1, <2>1
    <3> QED BY <3>1, <3>2
  <2>3. Max(1..(k + 1)) = k + 1
    <3>1. \A i \in 1..(k + 1) : i <= k + 1
      BY <2>1
    <3> QED BY <1>1, <2>2, <3>1, MaxIsUnique
  <2>4. (1..(k + 1)) \ {k + 1} = 1..k
    BY <2>1
  <2>5. f[1..(k + 1)] = Act(f[1..k], actions[k + 1])
    BY <1>2, <2>2, <2>3, <2>4
  <2>6. Settled(actions, 1..(k + 1), facts) =
          Act(Settled(actions, 1..k, facts), actions[k + 1])
    BY <1>1, <2>2, <2>3, <2>4, SettledStep
  <2> QED BY <2>1, <2>5, <2>6
<1>5. n \in Same
  <2>1. Same \in SUBSET Nat
    OBVIOUS
  <2> HIDE DEF Same
  <2> QED BY <1>1, <1>3, <1>4, <2>1, SetInduction
<1>6. ActAll(actions, facts) = f[1..n]
  BY <1>1, ActAllIsIterated DEF f
<1> QED BY <1>1, <1>5, <1>6

\* What the parser's tables and evaluate_all keep to.
RulesKeepLimits ==
  /\ Len(rules) <= MaxRules /\ currentRule \in 0..Len(rules)
  /\ \A r \in 1..Len(rules) : /\ Len(rules[r].conditions) <= MaxStatements
                              /\ Len(rules[r].actions) <= MaxStatements
  /\ context \subseteq Facts /\ evaluated <= Len(rules)

LEMMA LimitsStep ==
  ASSUME RulesInv, RulesInv', RulesKeepLimits, [RulesNext]_rulesVars
  PROVE  RulesKeepLimits'
<1> USE RuleLimits
<1>1. /\ rules \in Seq(Rule) /\ Len(rules) \in Nat /\ DOMAIN rules = 1..Len(rules)
      /\ evaluated \in Nat /\ rules' \in Seq(Rule)
  BY DEF RulesInv
<1>lines. ASSUME UNCHANGED <<context, evaluated>>,
                 rules' = rules, currentRule' \in 0..Len(rules)
          PROVE  RulesKeepLimits'
  BY <1>lines DEF RulesKeepLimits
<1>1a. CASE WriteRule
  <2>1. UNCHANGED <<context, evaluated>>
    BY <1>1a DEF WriteRule, Writes
  <2>2. CASE Len(rules) < MaxRules
    <3>1. rules' = Append(rules, NewRule) /\ currentRule' = Len(rules) + 1
      BY <1>1a, <2>2 DEF WriteRule, RuleLine
    <3>2. NewRule \in Rule /\ Len(NewRule.conditions) = 0 /\ Len(NewRule.actions) = 0
      BY DEF NewRule, Rule
    <3>3. /\ Len(rules') = Len(rules) + 1
          /\ \A r \in 1..Len(rules) : rules'[r] = rules[r]
          /\ rules'[Len(rules) + 1] = NewRule
      BY <1>1, <3>1, <3>2, Appended
    <3> QED BY <1>1, <2>1, <2>2, <3>1, <3>2, <3>3 DEF RulesKeepLimits
  <2>3. CASE ~(Len(rules) < MaxRules)
    <3>1. rules' = rules /\ currentRule' = currentRule
      BY <1>1a, <2>3 DEF WriteRule, RuleLine
    <3> QED BY <2>1, <3>1, <1>lines DEF RulesKeepLimits
  <2> QED BY <2>2, <2>3
<1>2. ASSUME NEW part, NEW style, WritePart(part, style) PROVE RulesKeepLimits'
  BY <1>2, <1>lines DEF WritePart, Writes, PartLine, RulesKeepLimits
<1>3. ASSUME NEW part, NEW statements, WriteInline(part, statements) PROVE RulesKeepLimits'
  BY <1>3, <1>lines DEF WriteInline, Writes, PartLine, RulesKeepLimits
<1>4. ASSUME NEW statements \in StatementsOf(block.at), WriteStatement(statements)
      PROVE  RulesKeepLimits'
  <2>1. StatementLine(statements) /\ UNCHANGED <<context, evaluated>>
    BY <1>4 DEF WriteStatement, Writes
  <2>2. CASE rules' = rules
    <3>1. currentRule' = currentRule
      BY <2>1 DEF StatementLine
    <3> QED BY <2>1, <2>2, <3>1, <1>lines DEF RulesKeepLimits
  <2>3. CASE rules' # rules
    <3> DEFINE field == IF inPart = "when" THEN "conditions" ELSE "actions"
               k == currentRule
               x == Head(statements)
    <3>1. /\ k # 0 /\ Len(rules[k][field]) < MaxStatements
          /\ rules' = [rules EXCEPT ![k][field] = Append(rules[k][field], x)]
          /\ currentRule' = currentRule
      BY <2>1, <2>3 DEF StatementLine
    <3>2. k \in 1..Len(rules)
      BY <1>1, <3>1 DEF RulesKeepLimits
    <3>3. rules[k] \in Rule
      BY <1>1, <3>2
    <3>4. Len(Append(rules[k][field], x)) = Len(rules[k][field]) + 1 /\ Len(rules[k][field]) \in Nat
      BY <3>3 DEF Rule
    <3>5. /\ Len(rules') = Len(rules)
          /\ \A r \in 1..Len(rules) : r # k => rules'[r] = rules[r]
          /\ rules'[k] = [rules[k] EXCEPT ![field] = Append(rules[k][field], x)]
      BY <1>1, <3>1, <3>2
    <3>6. Len(rules'[k].conditions) <= MaxStatements /\ Len(rules'[k].actions) <= MaxStatements
      <4>1. CASE inPart = "when"
        BY <3>1, <3>2, <3>3, <3>4, <3>5, <4>1 DEF Rule, RulesKeepLimits
      <4>2. CASE inPart # "when"
        BY <3>1, <3>2, <3>3, <3>4, <3>5, <4>2 DEF Rule, RulesKeepLimits
      <4> QED BY <4>1, <4>2
    <3> QED BY <1>1, <2>1, <3>1, <3>5, <3>6 DEF RulesKeepLimits
  <2> QED BY <2>2, <2>3
<1>5. CASE WriteClose
  BY <1>1, <1>5, <1>lines DEF WriteClose, Writes, CloseLine
<1>6. ASSUME NEW facts \in SUBSET Facts, CallEvaluateAll(facts) PROVE RulesKeepLimits'
  BY <1>6 DEF CallEvaluateAll, RulesKeepLimits
<1>7. CASE EvaluateRule
  <2>1. /\ evaluated' = evaluated + 1 /\ evaluated < Len(rules)
        /\ UNCHANGED <<rules, currentRule>>
        /\ context' \in {context, ActAll(rules[evaluated + 1].actions, context)}
    BY <1>7 DEF EvaluateRule
  <2>2. rules[evaluated + 1].actions \in Seq(RuleActions)
    <3>1. rules[evaluated + 1] \in Rule
      <4>1. evaluated + 1 \in 1..Len(rules)
        BY <1>1, <2>1
      <4> QED BY <1>1, <4>1
    <3> QED BY <3>1 DEF Rule
  <2>3. ActAll(rules[evaluated + 1].actions, context) \subseteq Facts
    BY <2>2, LastActionCounts DEF Settled, RulesKeepLimits
  <2> QED BY <1>1, <2>1, <2>3 DEF RulesKeepLimits
<1>8. CASE UNCHANGED rulesVars
  BY <1>8 DEF rulesVars, RulesKeepLimits
<1> QED BY <1>1a, <1>2, <1>3, <1>4, <1>5, <1>6, <1>7, <1>8 DEF RulesNext

\* rules[], the lists of each, the facts and the count of rules tried keep their types and
\* their limits, whatever file is read and whatever facts evaluate_all is called with.
THEOREM RulesTypeSafe == RulesSpec => []RulesTypeOK
<1>1. RulesInit => RulesKeepLimits
  BY RuleLimits DEF RulesInit, RulesKeepLimits
<1>2. RulesInv /\ RulesInv' /\ RulesKeepLimits /\ [RulesNext]_rulesVars => RulesKeepLimits'
  BY LimitsStep
<1>3. RulesInv /\ RulesKeepLimits => RulesTypeOK
  <2> SUFFICES ASSUME RulesInv, RulesKeepLimits PROVE RulesTypeOK
    OBVIOUS
  <2>1. /\ rules \in Seq(Rule) /\ DOMAIN rules = 1..Len(rules) /\ Len(rules) \in Nat
        /\ evaluated \in 0..Len(rules)
    BY DEF RulesInv, RulesKeepLimits
  <2>2. \A r \in 1..Len(rules) : /\ rules[r].conditions \in Seq(Facts)
                                 /\ rules[r].actions \in Seq(RuleActions)
    <3>1. \A r \in 1..Len(rules) : rules[r] \in Rule
      BY <2>1
    <3> QED BY <3>1 DEF Rule
  <2> QED BY <2>1, <2>2 DEF RulesInv, RulesKeepLimits, RulesTypeOK
<1> QED BY <1>1, <1>2, <1>3, RulesInvariant, PTL DEF RulesSpec

\* Carrying out the same actions again changes nothing.
LEMMA ActAllAgain ==
  ASSUME NEW actions \in Seq(RuleActions), NEW facts \in SUBSET Facts
  PROVE  ActAll(actions, ActAll(actions, facts)) = ActAll(actions, facts)
<1> DEFINE after == ActAll(actions, facts)
           D == DOMAIN actions
<1>1. after = Settled(actions, D, facts) /\ after \in SUBSET Facts
  BY LastActionCounts DEF Settled
<1>2. ActAll(actions, after) = Settled(actions, D, after)
  BY <1>1, LastActionCounts
<1> HIDE DEF after, D
<1>3. Settled(actions, D, after) = after
  <2>1. ASSUME NEW x \in Facts
        PROVE  x \in Settled(actions, D, after) <=> x \in after
    BY <1>1, <2>1 DEF Settled
  <2>2. Settled(actions, D, after) \subseteq Facts
    BY DEF Settled
  <2> QED BY <1>1, <2>1, <2>2
<1> QED BY <1>2, <1>3 DEF after

\* Before evaluate_all is called no rule has been tried; the one tried last has acted, if
\* it is bare and fired.
FiredInv ==
  /\ rulesPhase # "evaluate" => evaluated = 0
  /\ evaluated \in fired /\ Bare(evaluated) =>
       ActAll(meant[evaluated].actions, context) = context

LEMMA FiredStep ==
  ASSUME RulesInv, RulesKeepLimits, FiredInv, [RulesNext]_rulesVars
  PROVE  FiredInv'
<1>1. fired \subseteq 1..evaluated /\ evaluated \in Nat
  BY DEF RulesInv
<1>2. CASE Writes /\ rulesPhase' \in {"spec", "wild"}
  <2>1. evaluated' = 0 /\ fired' = fired /\ evaluated = 0
    BY <1>2 DEF Writes, FiredInv
  <2>2. 0 \notin fired
    BY <1>1
  <2> QED BY <2>1, <2>2 DEF FiredInv
<1>3. CASE \E facts \in SUBSET Facts : CallEvaluateAll(facts)
  <2>1. /\ evaluated' = 0 /\ fired' = fired /\ evaluated = 0 /\ rulesPhase' = "evaluate"
    BY <1>3 DEF CallEvaluateAll, FiredInv
  <2>2. 0 \notin fired
    BY <1>1
  <2> QED BY <2>1, <2>2 DEF FiredInv
<1>4. CASE EvaluateRule
  <2> DEFINE r == evaluated + 1
  <2>1. /\ evaluated' = r /\ r \in 1..Len(rules) /\ rulesPhase' = "evaluate"
        /\ rulesPhase = "evaluate" /\ meant' = meant
    BY <1>1, <1>4 DEF EvaluateRule, RulesInv
  <2>2. r \in DOMAIN meant /\ meant[r] \in Meant
    <3>1. meant \in Seq(Meant) /\ Len(rules) = Len(meant)
      BY <2>1 DEF RulesInv
    <3> QED BY <2>1, <3>1
  <2>3. evaluated = r - 1
    BY <1>1
  <2> HIDE DEF r
  <2>4. ASSUME r \in fired', Bare(r)
        PROVE  ActAll(meant[r].actions, context') = context'
    <3>1. context' = ActAll(meant[r].actions, context)
      BY <2>1, <2>2, <2>3, <2>4, BareRulesAct DEF BareRulesDoWhatTheySay
    <3>2. meant[r].actions \in Seq(RuleActions) /\ context \in SUBSET Facts
      BY <2>2 DEF Meant, RulesKeepLimits
    <3> QED BY <3>1, <3>2, ActAllAgain
  <2> QED BY <2>1, <2>4 DEF FiredInv, Bare
<1>5. CASE UNCHANGED rulesVars
  BY <1>5 DEF rulesVars, FiredInv, Bare
<1>6. ASSUME WriteRule \/ WriteClose
             \/ (\E part \in {"when", "then"}, style \in BlockStyles : WritePart(part, style))
             \/ (\E part \in {"when", "then"} :
                   \E statements \in StatementsOf(part) : WriteInline(part, statements))
             \/ (\E statements \in StatementsOf(block.at) : WriteStatement(statements))
      PROVE  Writes /\ rulesPhase' \in {"spec", "wild"}
  BY <1>6 DEF WriteRule, RuleLine, WriteClose, CloseLine, WritePart, WriteInline, PartLine,
              WriteStatement, StatementLine, Writes
<1> QED BY <1>2, <1>3, <1>4, <1>5, <1>6 DEF RulesNext

\* FiredRulesAct, which a rule with braces of its own breaks (RulesBraces.cfg), holds of
\* every file without such rules: that rule was the only way to break it.
THEOREM BareFilesAct ==
  RulesSpec => []((\A r \in DOMAIN meant : Bare(r)) => FiredRulesAct)
<1>1. RulesInit => RulesKeepLimits /\ FiredInv
  BY RuleLimits DEF RulesInit, RulesKeepLimits, FiredInv
<1>2. RulesInv /\ RulesInv' /\ RulesKeepLimits /\ FiredInv /\ [RulesNext]_rulesVars =>
        RulesKeepLimits' /\ FiredInv'
  BY LimitsStep, FiredStep
<1>3. RulesInv /\ RulesKeepLimits /\ FiredInv =>
        ((\A r \in DOMAIN meant : Bare(r)) => FiredRulesAct)
  <2> SUFFICES ASSUME RulesInv, RulesKeepLimits, FiredInv,
                      \A r \in DOMAIN meant : Bare(r), evaluated \in fired
               PROVE  ActAll(meant[evaluated].actions, context) = context
    BY DEF FiredRulesAct
  <2>1. evaluated \in 1..Len(rules) /\ rulesPhase = "evaluate"
    BY DEF RulesInv, RulesKeepLimits, FiredInv
  <2>2. evaluated \in DOMAIN meant
    BY <2>1 DEF RulesInv
  <2> QED BY <2>2 DEF FiredInv
<1> QED BY <1>1, <1>2, <1>3, RulesInvariant, PTL DEF RulesSpec

-----------------------------------------------------------------------------
(* SqlSpecs. *)

SqlBlocks == {"none", "table", "query"} \X Nat
SqlTable == [oneLine : BOOLEAN, columns : Seq(Nat)]
SqlQuery == [oneLine : BOOLEAN, sql : Seq(Nat), length : Nat]

\* A line is read.
Reads == \E length \in Nat : ReadsSql(length)

SqlTyped ==
  /\ sqlTables \in Seq(SqlTable) /\ sqlQueries \in Seq(SqlQuery)
  /\ sqlText \in Seq(SqlBlocks) /\ sqlBlock \in SqlBlocks
  /\ sqlLengths \in Seq(Nat) /\ Len(sqlLengths) = Len(sqlText)
  /\ sqlOpen \in SUBSET {"table", "query"}
  /\ sqlIndexCount \in 0..MaxIndexes
  /\ Len(sqlTables) <= MaxTables /\ Len(sqlQueries) <= MaxQueries
  /\ sqlPhase \in {"spec", "wild"}

\* The author is in the last table or query, which is open; what is open besides is
\* on one line.
OpenFits ==
  /\ sqlBlock[1] = "none" => sqlBlock = NoSqlBlock
  /\ sqlBlock[1] = "table" =>
       /\ "table" \in sqlOpen /\ sqlBlock = <<"table", Len(sqlTables)>>
       /\ Len(sqlTables) > 0 /\ ~sqlTables[Len(sqlTables)].oneLine
  /\ sqlBlock[1] = "query" =>
       /\ "query" \in sqlOpen /\ sqlBlock = <<"query", Len(sqlQueries)>>
       /\ Len(sqlQueries) > 0 /\ ~sqlQueries[Len(sqlQueries)].oneLine
  /\ "table" \in sqlOpen =>
       /\ Len(sqlTables) > 0
       /\ sqlTables[Len(sqlTables)].oneLine \/ sqlBlock = <<"table", Len(sqlTables)>>
  /\ "query" \in sqlOpen =>
       /\ Len(sqlQueries) > 0
       /\ sqlQueries[Len(sqlQueries)].oneLine \/ sqlBlock = <<"query", Len(sqlQueries)>>

\* Blocks in the text are those of the arrays, and lines in the arrays are of the text.
TextFits ==
  /\ \A i \in 1..Len(sqlText) :
       /\ sqlText[i][1] = "table" => sqlText[i][2] <= Len(sqlTables)
       /\ sqlText[i][1] = "query" => sqlText[i][2] <= Len(sqlQueries)
  /\ \A t \in 1..Len(sqlTables) : ToSet(sqlTables[t].columns) \subseteq 1..Len(sqlText)
  /\ \A q \in 1..Len(sqlQueries) : /\ ToSet(sqlQueries[q].sql) \subseteq 1..Len(sqlText)
                                   /\ sqlQueries[q].length < MaxSql

\* What an open table or query on one line has taken is of the block the author is in.
TakenNow(lines) == \A i \in ToSet(lines) : sqlText[i] = sqlBlock /\ sqlBlock # NoSqlBlock

OpenStrays ==
  /\ "table" \in sqlOpen /\ sqlTables[Len(sqlTables)].oneLine =>
       TakenNow(sqlTables[Len(sqlTables)].columns)
  /\ "query" \in sqlOpen /\ sqlQueries[Len(sqlQueries)].oneLine =>
       TakenNow(sqlQueries[Len(sqlQueries)].sql)

TableKept(t) ==
  sqlTables[t].oneLine \/
    /\ InOrder(sqlTables[t].columns)
    /\ ToSet(sqlTables[t].columns) = LinesOf(<<"table", t>>)

QueryKept(q) ==
  sqlQueries[q].oneLine \/
    /\ InOrder(sqlQueries[q].sql) /\ ToSet(sqlQueries[q].sql) \subseteq LinesOf(<<"query", q>>)
    /\ \A i \in LinesOf(<<"query", q>>) \ ToSet(sqlQueries[q].sql) :
         sqlQueries[q].length + sqlLengths[i] + 2 >= MaxSql

TableStray(t) ==
  sqlTables[t].oneLine =>
    \A i, j \in ToSet(sqlTables[t].columns) :
      sqlText[i][1] = "query" /\ sqlText[i] = sqlText[j]

QueryStray(q) ==
  sqlQueries[q].oneLine =>
    \A i, j \in ToSet(sqlQueries[q].sql) : sqlText[i] = sqlText[j]

SqlInv ==
  /\ SqlTyped /\ OpenFits /\ TextFits /\ OpenStrays
  /\ \A t \in 1..Len(sqlTables) : TableStray(t) /\ (sqlPhase = "spec" => TableKept(t))
  /\ \A q \in 1..Len(sqlQueries) : QueryStray(q) /\ (sqlPhase = "spec" => QueryKept(q))

LEMMA SqlInitInv == SqlInit => SqlInv
<1> SUFFICES ASSUME SqlInit PROVE SqlInv
  OBVIOUS
<1>1. /\ sqlTables = <<>> /\ sqlQueries = <<>> /\ sqlText = <<>> /\ sqlOpen = {}
      /\ sqlLengths = <<>> /\ sqlBlock = <<"none", 0>> /\ sqlPhase = "spec" /\ sqlIndexCount = 0
  BY DEF SqlInit, NoSqlBlock
<1>2. SqlTyped
  BY <1>1, SqlAssumption DEF SqlTyped, SqlBlocks
<1>3. OpenFits /\ TextFits /\ OpenStrays
  BY <1>1 DEF OpenFits, TextFits, OpenStrays, NoSqlBlock
<1> QED BY <1>1, <1>2, <1>3 DEF SqlInv

\* A line more in order.
LEMMA LineInOrder ==
  ASSUME NEW n \in Nat, NEW s \in Seq(Nat), ToSet(s) \subseteq 1..n
  PROVE  /\ Append(s, n + 1) \in Seq(Nat) /\ Len(Append(s, n + 1)) = Len(s) + 1
         /\ ToSet(Append(s, n + 1)) = ToSet(s) \cup {n + 1}
         /\ InOrder(s) => InOrder(Append(s, n + 1))
<1> DEFINE new == Append(s, n + 1)
<1>1. /\ new \in Seq(Nat) /\ Len(new) = Len(s) + 1 /\ Len(s) \in Nat
      /\ DOMAIN s = 1..Len(s) /\ DOMAIN new = 1..(Len(s) + 1)
      /\ \A i \in 1..Len(s) : new[i] = s[i]
      /\ new[Len(s) + 1] = n + 1
  BY Appended
<1>2. \A i \in 1..Len(s) : s[i] \in 1..n
  BY <1>1 DEF ToSet
<1> HIDE DEF new
<1>3. ToSet(new) = ToSet(s) \cup {n + 1}
  <2>1. \A x \in ToSet(new) : x \in ToSet(s) \cup {n + 1}
    <3> SUFFICES ASSUME NEW i \in 1..(Len(s) + 1) PROVE new[i] \in ToSet(s) \cup {n + 1}
      BY <1>1 DEF ToSet
    <3>1. CASE i \in 1..Len(s)
      BY <1>1, <3>1 DEF ToSet
    <3>2. CASE i = Len(s) + 1
      BY <1>1, <3>2
    <3> QED BY <1>1, <3>1, <3>2
  <2>2. ToSet(s) \subseteq ToSet(new)
    <3> SUFFICES ASSUME NEW i \in 1..Len(s) PROVE s[i] \in ToSet(new)
      BY <1>1 DEF ToSet
    <3>1. new[i] = s[i] /\ i \in DOMAIN new
      BY <1>1
    <3> QED BY <3>1 DEF ToSet
  <2>3. n + 1 \in ToSet(new)
    <3>1. Len(s) + 1 \in DOMAIN new
      BY <1>1
    <3> QED BY <1>1, <3>1 DEF ToSet
  <2> QED BY <2>1, <2>2, <2>3
<1>4. ASSUME InOrder(s) PROVE InOrder(new)
  <2> SUFFICES ASSUME NEW i \in 1..(Len(s) + 1), NEW j \in 1..(Len(s) + 1), i < j
               PROVE  new[i] < new[j]
    BY <1>1 DEF InOrder
  <2>1. i \in 1..Len(s) /\ new[i] = s[i] /\ s[i] \in 1..n
    BY <1>1, <1>2
  <2>2. CASE j \in 1..Len(s)
    BY <1>1, <1>4, <2>1, <2>2 DEF InOrder
  <2>3. CASE j = Len(s) + 1
    <3>1. new[j] = n + 1 /\ new[i] \in 1..n
      BY <1>1, <2>1, <2>3
    <3> QED BY <3>1
  <2>4. j \in 1..Len(s) \/ j = Len(s) + 1
    <3>1. PICK m \in Nat : m = Len(s)
      BY <1>1
    <3>2. j \in 1..(m + 1)
      BY <3>1
    <3>3. j \in 1..m \/ j = m + 1
      BY <3>2
    <3> QED BY <3>1, <3>3
  <2> QED BY <2>2, <2>3, <2>4
<1> QED BY <1>1, <1>3, <1>4 DEF new

-----------------------------------------------------------------------------
(* What one line more makes of the lines of a block. *)

LEMMA TextGrows ==
  ASSUME SqlInv, Reads
  PROVE  /\ sqlPhase = "spec" /\ Len(sqlText) \in Nat /\ Len(sqlText') = Len(sqlText) + 1
         /\ sqlText' \in Seq(SqlBlocks)
         /\ DOMAIN sqlText = 1..Len(sqlText) /\ DOMAIN sqlText' = 1..(Len(sqlText) + 1)
         /\ \A i \in 1..Len(sqlText) : sqlText'[i] = sqlText[i]
         /\ sqlText'[Len(sqlText) + 1] = sqlBlock
         /\ sqlLengths \in Seq(Nat) /\ sqlLengths' \in Seq(Nat)
         /\ Len(sqlLengths') = Len(sqlText) + 1
         /\ \A i \in 1..Len(sqlText) : sqlLengths'[i] = sqlLengths[i] /\ sqlLengths[i] \in Nat
         /\ \A length \in Nat : ReadsSql(length) => sqlLengths'[Len(sqlText) + 1] = length
<1>1. PICK length \in Nat : ReadsSql(length)
  BY DEF Reads
<1>2. /\ sqlPhase = "spec" /\ sqlText' = Append(sqlText, sqlBlock)
      /\ sqlLengths' = Append(sqlLengths, length)
  BY <1>1 DEF ReadsSql
<1>3. /\ sqlText \in Seq(SqlBlocks) /\ sqlBlock \in SqlBlocks
      /\ sqlLengths \in Seq(Nat) /\ Len(sqlLengths) = Len(sqlText)
  BY DEF SqlInv, SqlTyped
<1>4. /\ Len(sqlText) \in Nat /\ Len(sqlText') = Len(sqlText) + 1
      /\ sqlText' \in Seq(SqlBlocks)
      /\ DOMAIN sqlText = 1..Len(sqlText) /\ DOMAIN sqlText' = 1..(Len(sqlText) + 1)
      /\ \A i \in 1..Len(sqlText) : sqlText'[i] = sqlText[i]
      /\ sqlText'[Len(sqlText) + 1] = sqlBlock
  BY <1>2, <1>3, Appended
<1>5. /\ sqlLengths' \in Seq(Nat) /\ Len(sqlLengths') = Len(sqlText) + 1
      /\ \A i \in 1..Len(sqlText) : sqlLengths'[i] = sqlLengths[i] /\ sqlLengths[i] \in Nat
      /\ sqlLengths'[Len(sqlText) + 1] = length
  BY <1>2, <1>3, Appended
<1>6. ASSUME NEW other \in Nat, ReadsSql(other)
      PROVE  sqlLengths'[Len(sqlText) + 1] = other
  BY <1>3, <1>6, Appended DEF ReadsSql
<1> QED BY <1>2, <1>3, <1>4, <1>5, <1>6

\* Outside every block, or by a brace, no block gets a line.
LEMMA LinesStay ==
  ASSUME SqlInv, Reads, NEW b \in SqlBlocks, b # NoSqlBlock,
         \/ sqlBlock = NoSqlBlock /\ sqlBlock' # b
         \/ sqlBlock' = NoSqlBlock
  PROVE  LinesOf(b)' = LinesOf(b)
<1> DEFINE n == Len(sqlText)
<1>1. /\ n \in Nat /\ DOMAIN sqlText = 1..n /\ DOMAIN sqlText' = 1..(n + 1)
      /\ \A i \in 1..n : sqlText'[i] = sqlText[i]
      /\ sqlText'[n + 1] = sqlBlock
  BY TextGrows
<1> HIDE DEF n
<1>2. ASSUME NEW i \in LinesOf(b) PROVE i \in LinesOf(b)'
  <2>1. i \in 1..n /\ sqlText[i] = b
    BY <1>1, <1>2 DEF LinesOf
  <2>2. i \in 1..(n + 1) /\ sqlText'[i] = b
    BY <1>1, <2>1
  <2>3. CASE sqlBlock = b
    <3>1. n + 1 \in 1..(n + 1) /\ i < n + 1 /\ sqlText'[n + 1] = b
      BY <1>1, <2>1, <2>3
    <3> QED BY <1>1, <2>2, <3>1 DEF LinesOf
  <2>4. CASE sqlBlock # b
    <3>1. PICK j \in 1..n : i < j /\ sqlText[j] = b
      BY <1>1, <1>2, <2>4 DEF LinesOf
    <3>2. j \in 1..(n + 1) /\ sqlText'[j] = b
      BY <1>1, <3>1
    <3> QED BY <1>1, <2>2, <3>1, <3>2 DEF LinesOf
  <2> QED BY <2>3, <2>4
<1>3. ASSUME NEW i \in LinesOf(b)' PROVE i \in LinesOf(b)
  <2>1. sqlBlock' # b
    OBVIOUS
  <2>2. i \in 1..(n + 1) /\ sqlText'[i] = b
    BY <1>1, <1>3 DEF LinesOf
  <2>3. PICK j \in 1..(n + 1) : i < j /\ sqlText'[j] = b
    BY <1>1, <1>3, <2>1 DEF LinesOf
  <2>4. i \in 1..n /\ sqlText[i] = b
    BY <1>1, <2>2, <2>3
  <2>5. CASE sqlBlock = b
    BY <1>1, <2>4, <2>5 DEF LinesOf
  <2>6. CASE sqlBlock # b
    <3>1. j \in 1..n /\ sqlText[j] = b
      BY <1>1, <2>3, <2>6
    <3> QED BY <1>1, <2>3, <2>4, <3>1 DEF LinesOf
  <2> QED BY <2>5, <2>6
<1> QED BY <1>2, <1>3

\* A block that begins has no lines.
LEMMA NewBlockIsEmpty ==
  ASSUME SqlInv, Reads, sqlBlock = NoSqlBlock, NEW b \in SqlBlocks, b # NoSqlBlock,
         \A i \in 1..Len(sqlText) : sqlText[i] # b
  PROVE  LinesOf(b)' = {}
<1> SUFFICES ASSUME NEW i \in LinesOf(b)' PROVE FALSE
  OBVIOUS
<1>1. i \in 1..(Len(sqlText) + 1) /\ sqlText'[i] = b
  BY TextGrows DEF LinesOf
<1> QED BY <1>1, TextGrows

\* Within a block, its lines get one more and those of the others stay.
LEMMA LinesGrow ==
  ASSUME SqlInv, Reads, sqlBlock' = sqlBlock, NEW b \in SqlBlocks
  PROVE  /\ b = sqlBlock => LinesOf(b)' = LinesOf(b) \cup {Len(sqlText) + 1}
         /\ b # sqlBlock => LinesOf(b)' = LinesOf(b)
<1> DEFINE n == Len(sqlText)
<1>1. /\ n \in Nat /\ DOMAIN sqlText = 1..n /\ DOMAIN sqlText' = 1..(n + 1)
      /\ \A i \in 1..n : sqlText'[i] = sqlText[i]
      /\ sqlText'[n + 1] = sqlBlock
  BY TextGrows
<1> HIDE DEF n
<1>2. CASE b = sqlBlock
  <2>1. LinesOf(b)' = {i \in 1..(n + 1) : sqlText'[i] = b}
    BY <1>1, <1>2 DEF LinesOf
  <2>2. LinesOf(b) = {i \in 1..n : sqlText[i] = b}
    BY <1>1, <1>2 DEF LinesOf
  <2>3. {i \in 1..(n + 1) : sqlText'[i] = b} = {i \in 1..n : sqlText[i] = b} \cup {n + 1}
    BY <1>1, <1>2
  <2> QED BY <1>2, <2>1, <2>2, <2>3 DEF n
<1>3. CASE b # sqlBlock
  <2>1. LinesOf(b)' = {i \in 1..(n + 1) : sqlText'[i] = b
                         /\ \E j \in 1..(n + 1) : i < j /\ sqlText'[j] = b}
    BY <1>1, <1>3 DEF LinesOf
  <2>2. LinesOf(b) = {i \in 1..n : sqlText[i] = b /\ \E j \in 1..n : i < j /\ sqlText[j] = b}
    BY <1>1, <1>3 DEF LinesOf
  <2>3. ASSUME NEW i \in LinesOf(b) PROVE i \in LinesOf(b)'
    <3>1. PICK j \in 1..n : i < j /\ sqlText[j] = b
      BY <2>2, <2>3
    <3>2. i \in 1..(n + 1) /\ sqlText'[i] = b /\ j \in 1..(n + 1) /\ sqlText'[j] = b
      BY <1>1, <2>2, <2>3, <3>1
    <3> QED BY <2>1, <3>1, <3>2
  <2>4. ASSUME NEW i \in LinesOf(b)' PROVE i \in LinesOf(b)
    <3>1. PICK j \in 1..(n + 1) : i < j /\ sqlText'[j] = b
      BY <2>1, <2>4
    <3>2. i \in 1..(n + 1) /\ sqlText'[i] = b
      BY <2>1, <2>4
    <3>3. i \in 1..n /\ j \in 1..n
      BY <1>1, <1>3, <3>1, <3>2
    <3> QED BY <1>1, <2>2, <3>1, <3>2, <3>3
  <2> QED BY <1>3, <2>3, <2>4
<1> QED BY <1>2, <1>3 DEF n
-----------------------------------------------------------------------------
(* A table or query that the line does not change. *)

LEMMA TableStays ==
  ASSUME SqlInv, Reads, NEW t \in 1..Len(sqlTables), sqlTables'[t] = sqlTables[t]
  PROVE  /\ TableStray(t)'
         /\ ToSet(sqlTables'[t].columns) \subseteq 1..Len(sqlText')
         /\ LinesOf(<<"table", t>>)' = LinesOf(<<"table", t>>) => TableKept(t)'
<1>1. /\ Len(sqlText') = Len(sqlText) + 1 /\ Len(sqlText) \in Nat /\ sqlPhase = "spec"
      /\ \A i \in 1..Len(sqlText) : sqlText'[i] = sqlText[i]
  BY TextGrows
<1>2. /\ ToSet(sqlTables[t].columns) \subseteq 1..Len(sqlText)
      /\ TableStray(t) /\ TableKept(t)
  BY <1>1 DEF SqlInv, TextFits
<1>3. TableStray(t)'
  BY <1>1, <1>2 DEF TableStray
<1>4. ToSet(sqlTables'[t].columns) \subseteq 1..Len(sqlText')
  BY <1>1, <1>2
<1>5. LinesOf(<<"table", t>>)' = LinesOf(<<"table", t>>) => TableKept(t)'
  BY <1>2 DEF TableKept
<1> QED BY <1>3, <1>4, <1>5

LEMMA QueryStays ==
  ASSUME SqlInv, Reads, NEW q \in 1..Len(sqlQueries), sqlQueries'[q] = sqlQueries[q]
  PROVE  /\ QueryStray(q)'
         /\ ToSet(sqlQueries'[q].sql) \subseteq 1..Len(sqlText')
         /\ sqlQueries'[q].length < MaxSql
         /\ LinesOf(<<"query", q>>)' = LinesOf(<<"query", q>>) => QueryKept(q)'
<1>1. /\ Len(sqlText') = Len(sqlText) + 1 /\ Len(sqlText) \in Nat /\ sqlPhase = "spec"
      /\ \A i \in 1..Len(sqlText) : sqlText'[i] = sqlText[i]
  BY TextGrows
<1>2. /\ ToSet(sqlQueries[q].sql) \subseteq 1..Len(sqlText)
      /\ sqlQueries[q].length < MaxSql
      /\ QueryStray(q) /\ QueryKept(q)
  BY <1>1 DEF SqlInv, TextFits
<1>3. QueryStray(q)'
  BY <1>1, <1>2 DEF QueryStray
<1>4. /\ ToSet(sqlQueries'[q].sql) \subseteq 1..Len(sqlText')
      /\ sqlQueries'[q].length < MaxSql
  BY <1>1, <1>2
<1>5. LinesOf(<<"query", q>>)' = LinesOf(<<"query", q>>) => QueryKept(q)'
  <2>1. \A i \in LinesOf(<<"query", q>>) : sqlLengths'[i] = sqlLengths[i]
    BY TextGrows DEF LinesOf
  <2> QED BY <1>2, <2>1 DEF QueryKept
<1> QED BY <1>3, <1>4, <1>5

\* A block of the text that the line stands in has its table or query.
LEMMA TextStaysFit ==
  ASSUME SqlInv, Reads, Len(sqlTables') \in Nat, Len(sqlTables') >= Len(sqlTables),
         Len(sqlQueries') \in Nat, Len(sqlQueries') >= Len(sqlQueries)
  PROVE  \A i \in 1..Len(sqlText') :
           /\ sqlText'[i][1] = "table" => sqlText'[i][2] <= Len(sqlTables')
           /\ sqlText'[i][1] = "query" => sqlText'[i][2] <= Len(sqlQueries')
<1> SUFFICES ASSUME NEW i \in 1..Len(sqlText')
             PROVE  /\ sqlText'[i][1] = "table" => sqlText'[i][2] <= Len(sqlTables')
                    /\ sqlText'[i][1] = "query" => sqlText'[i][2] <= Len(sqlQueries')
  OBVIOUS
<1>1. /\ Len(sqlText') = Len(sqlText) + 1 /\ Len(sqlText) \in Nat
      /\ \A k \in 1..Len(sqlText) : sqlText'[k] = sqlText[k]
      /\ sqlText'[Len(sqlText) + 1] = sqlBlock
  BY TextGrows
<1>2. Len(sqlTables) \in Nat /\ Len(sqlQueries) \in Nat
  BY DEF SqlInv, SqlTyped
<1>3. CASE i \in 1..Len(sqlText)
  <2>1. sqlText[i] \in SqlBlocks /\ sqlText'[i] = sqlText[i]
    BY <1>1, <1>3 DEF SqlInv, SqlTyped
  <2>2. sqlText[i][2] \in Nat
    BY <2>1 DEF SqlBlocks
  <2>3. /\ sqlText[i][1] = "table" => sqlText[i][2] <= Len(sqlTables)
        /\ sqlText[i][1] = "query" => sqlText[i][2] <= Len(sqlQueries)
    BY <1>3 DEF SqlInv, TextFits
  <2> QED BY <1>2, <2>1, <2>2, <2>3
<1>4. CASE i = Len(sqlText) + 1
  <2>1. sqlText'[i] = sqlBlock
    BY <1>1, <1>4
  <2>2. /\ sqlBlock[1] = "table" => sqlBlock[2] = Len(sqlTables)
        /\ sqlBlock[1] = "query" => sqlBlock[2] = Len(sqlQueries)
    BY DEF SqlInv, OpenFits
  <2> QED BY <1>2, <2>1, <2>2
<1> QED BY <1>1, <1>3, <1>4

-----------------------------------------------------------------------------
(* The steps. *)

LEMMA TypedParts ==
  ASSUME SqlInv
  PROVE  /\ Len(sqlTables) \in Nat /\ Len(sqlQueries) \in Nat
         /\ sqlTables \in Seq(SqlTable) /\ sqlQueries \in Seq(SqlQuery)
         /\ sqlBlock \in SqlBlocks /\ sqlOpen \in SUBSET {"table", "query"}
         /\ sqlIndexCount \in 0..MaxIndexes /\ MaxIndexes \in Nat
         /\ MaxTables \in Nat /\ MaxQueries \in Nat /\ MaxSql \in Nat \ {0}
         /\ Len(sqlTables) <= MaxTables /\ Len(sqlQueries) <= MaxQueries
         /\ NoSqlBlock \in SqlBlocks
BY SqlAssumption DEF SqlInv, SqlTyped, SqlBlocks, NoSqlBlock

LEMMA TableAndQueryBlocks ==
  ASSUME NEW t \in Nat
  PROVE  /\ <<"table", t>> \in SqlBlocks /\ <<"query", t>> \in SqlBlocks
         /\ <<"table", t>> # NoSqlBlock /\ <<"query", t>> # NoSqlBlock
BY DEF SqlBlocks, NoSqlBlock

\* The arrays as they are, and the author outside every block afterwards.
LEMMA StandStillStep ==
  ASSUME SqlInv, Reads, UNCHANGED <<sqlTables, sqlQueries>>, sqlBlock' = NoSqlBlock,
         sqlIndexCount' \in 0..MaxIndexes, sqlPhase' \in {"spec", "wild"},
         sqlOpen' = {} \/ (sqlOpen' = sqlOpen /\ sqlBlock = NoSqlBlock)
  PROVE  SqlInv'
<1>1. SqlTyped'
  BY TypedParts, TextGrows DEF SqlTyped
<1>2. OpenFits'
  BY DEF SqlInv, OpenFits, NoSqlBlock
<1>3. OpenStrays'
  <2>1. CASE sqlOpen' = {}
    BY <2>1 DEF OpenStrays
  <2>2. CASE sqlOpen' = sqlOpen /\ sqlBlock = NoSqlBlock
    <3>1. ASSUME NEW lines, TakenNow(lines) PROVE ToSet(lines) = {}
      BY <2>2, <3>1 DEF TakenNow
    <3>2. ASSUME NEW lines, ToSet(lines) = {}
          PROVE  \A i \in ToSet(lines) : sqlText'[i] = sqlBlock' /\ sqlBlock' # NoSqlBlock
      BY <3>2
    <3> QED BY <2>2, <3>1, <3>2 DEF SqlInv, OpenStrays, TakenNow
  <2> QED BY <2>1, <2>2
<1>4. \A b \in SqlBlocks : b # NoSqlBlock => LinesOf(b)' = LinesOf(b)
  BY LinesStay
<1>5. \A t \in 1..Len(sqlTables) :
        /\ TableStray(t)' /\ TableKept(t)'
        /\ ToSet(sqlTables'[t].columns) \subseteq 1..Len(sqlText')
  <2> SUFFICES ASSUME NEW t \in 1..Len(sqlTables)
               PROVE  /\ TableStray(t)' /\ TableKept(t)'
                      /\ ToSet(sqlTables'[t].columns) \subseteq 1..Len(sqlText')
    OBVIOUS
  <2>1. t \in Nat
    BY TypedParts
  <2>3. LinesOf(<<"table", t>>)' = LinesOf(<<"table", t>>)
    BY <1>4, <2>1, TableAndQueryBlocks, Zenon
  <2>2. sqlTables'[t] = sqlTables[t]
    OBVIOUS
  <2> QED BY <2>2, <2>3, TableStays
<1>6. \A q \in 1..Len(sqlQueries) :
        /\ QueryStray(q)' /\ QueryKept(q)'
        /\ ToSet(sqlQueries'[q].sql) \subseteq 1..Len(sqlText')
        /\ sqlQueries'[q].length < MaxSql
  <2> SUFFICES ASSUME NEW q \in 1..Len(sqlQueries)
               PROVE  /\ QueryStray(q)' /\ QueryKept(q)'
                      /\ ToSet(sqlQueries'[q].sql) \subseteq 1..Len(sqlText')
                      /\ sqlQueries'[q].length < MaxSql
    OBVIOUS
  <2>1. q \in Nat
    BY TypedParts
  <2>3. LinesOf(<<"query", q>>)' = LinesOf(<<"query", q>>)
    BY <1>4, <2>1, TableAndQueryBlocks, Zenon
  <2>2. sqlQueries'[q] = sqlQueries[q]
    OBVIOUS
  <2> QED BY <2>2, <2>3, QueryStays
<1>7. TextFits'
  BY <1>5, <1>6, TypedParts, TextStaysFit DEF TextFits
<1> QED BY <1>1, <1>2, <1>3, <1>5, <1>6, <1>7 DEF SqlInv

\* Outside every block nothing has been taken.
LEMMA NothingTaken ==
  ASSUME SqlInv, sqlBlock = NoSqlBlock
  PROVE  /\ "table" \in sqlOpen => /\ sqlTables[Len(sqlTables)].oneLine
                                   /\ ToSet(sqlTables[Len(sqlTables)].columns) = {}
         /\ "query" \in sqlOpen => /\ sqlQueries[Len(sqlQueries)].oneLine
                                   /\ ToSet(sqlQueries[Len(sqlQueries)].sql) = {}
<1>1. /\ "table" \in sqlOpen => sqlTables[Len(sqlTables)].oneLine
      /\ "query" \in sqlOpen => sqlQueries[Len(sqlQueries)].oneLine
  BY DEF SqlInv, OpenFits, NoSqlBlock
<1>2. ASSUME NEW lines, TakenNow(lines) PROVE ToSet(lines) = {}
  BY <1>2 DEF TakenNow
<1> QED BY <1>1, <1>2 DEF SqlInv, OpenStrays

LEMMA EmptyLines == /\ ToSet(<<>>) = {} /\ InOrder(<<>>) /\ <<>> \in Seq(Nat) /\ Len(<<>>) = 0
BY DEF ToSet, InOrder

LEMMA TableLineStep ==
  ASSUME SqlInv, NEW oneLine \in BOOLEAN, TableLine(oneLine)
  PROVE  SqlInv'
<1>1. /\ Reads /\ sqlBlock = NoSqlBlock
      /\ sqlQueries' = sqlQueries /\ sqlIndexCount' = sqlIndexCount
  BY DEF TableLine, Reads
<1>2. CASE Len(sqlTables) >= MaxTables
  <2>1. /\ UNCHANGED <<sqlTables, sqlQueries, sqlIndexCount, sqlOpen>>
        /\ sqlBlock' = NoSqlBlock /\ sqlPhase' = "wild"
    BY <1>1, <1>2 DEF TableLine, Overruns
  <2> QED BY <1>1, <2>1, StandStillStep, TypedParts
<1>3. CASE ~(Len(sqlTables) >= MaxTables)
  <2> DEFINE new == [oneLine |-> oneLine, columns |-> <<>>]
  <2>0. PICK n \in Nat : n = Len(sqlTables)
    BY TypedParts
  <2>20. <<"table", n + 1>> \in SqlBlocks /\ <<"table", n + 1>> # NoSqlBlock
    <3>1. n + 1 \in Nat
      OBVIOUS
    <3> QED BY <3>1, TableAndQueryBlocks, Zenon
  <2>1. /\ sqlTables' = Append(sqlTables, new) /\ sqlOpen' = sqlOpen \cup {"table"}
        /\ sqlBlock' = (IF oneLine THEN NoSqlBlock ELSE <<"table", n + 1>>)
        /\ sqlPhase' = sqlPhase
    BY <1>3, <2>0 DEF TableLine, OpensSql
  <2>2. new \in SqlTable /\ new.oneLine = oneLine /\ new.columns = <<>>
    BY DEF SqlTable
  <2> HIDE DEF new
  <2>3. /\ sqlTables' \in Seq(SqlTable) /\ Len(sqlTables') = n + 1 /\ n \in Nat
        /\ \A t \in 1..n : sqlTables'[t] = sqlTables[t]
        /\ sqlTables'[n + 1] = new /\ n + 1 <= MaxTables
    BY <1>3, <2>0, <2>1, <2>2, Appended, TypedParts
  <2>4. sqlBlock' \in SqlBlocks
    BY <2>1, <2>20, TypedParts
  <2>5. SqlTyped'
    BY <1>1, <2>1, <2>3, <2>4, TypedParts, TextGrows DEF SqlTyped
  <2>6. OpenFits'
    <3>1. "query" \in sqlOpen => /\ Len(sqlQueries) > 0 /\ sqlQueries[Len(sqlQueries)].oneLine
      BY <1>1, NothingTaken DEF SqlInv, OpenFits
    <3>2. sqlTables'[Len(sqlTables')].oneLine = oneLine /\ Len(sqlTables') > 0
      BY <2>2, <2>3
    <3>3. CASE oneLine
      BY <1>1, <2>1, <3>1, <3>2, <3>3 DEF OpenFits, NoSqlBlock
    <3>4. CASE ~oneLine
      BY <1>1, <2>1, <2>3, <3>1, <3>2, <3>4 DEF OpenFits
    <3> QED BY <3>3, <3>4
  <2>7. OpenStrays'
    BY <1>1, <2>1, <2>2, <2>3, NothingTaken, EmptyLines DEF OpenStrays, TakenNow
  <2>8. \A t \in 1..n :
          /\ TableStray(t)' /\ TableKept(t)'
          /\ ToSet(sqlTables'[t].columns) \subseteq 1..Len(sqlText')
    <3> SUFFICES ASSUME NEW t \in 1..n
                 PROVE  /\ TableStray(t)' /\ TableKept(t)'
                        /\ ToSet(sqlTables'[t].columns) \subseteq 1..Len(sqlText')
      OBVIOUS
    <3>1. t \in Nat /\ t # n + 1 /\ sqlTables'[t] = sqlTables[t]
      BY <2>3
    <3>2. sqlBlock' # <<"table", t>>
      BY <2>1, <3>1, TableAndQueryBlocks
    <3>3. LinesOf(<<"table", t>>)' = LinesOf(<<"table", t>>)
      BY <1>1, <3>1, <3>2, LinesStay, TableAndQueryBlocks
    <3> QED BY <1>1, <3>1, <3>3, <2>0, TableStays
  <2>9. \A q \in 1..Len(sqlQueries) :
          /\ QueryStray(q)' /\ QueryKept(q)'
          /\ ToSet(sqlQueries'[q].sql) \subseteq 1..Len(sqlText')
          /\ sqlQueries'[q].length < MaxSql
    <3> SUFFICES ASSUME NEW q \in 1..Len(sqlQueries)
                 PROVE  /\ QueryStray(q)' /\ QueryKept(q)'
                        /\ ToSet(sqlQueries'[q].sql) \subseteq 1..Len(sqlText')
                        /\ sqlQueries'[q].length < MaxSql
      OBVIOUS
    <3>4. q \in Nat
      BY TypedParts
    <3>1. /\ <<"query", q>> \in SqlBlocks /\ <<"query", q>> # NoSqlBlock
          /\ <<"query", q>> # <<"table", n + 1>>
      BY <3>4, TableAndQueryBlocks, Zenon
    <3>3. sqlBlock' # <<"query", q>>
      BY <2>1, <3>1
    <3>2. LinesOf(<<"query", q>>)' = LinesOf(<<"query", q>>)
      BY <1>1, <3>1, <3>3, LinesStay
    <3> QED BY <1>1, <3>2, QueryStays
  <2>10. /\ TableStray(n + 1)' /\ TableKept(n + 1)'
         /\ ToSet(sqlTables'[n + 1].columns) \subseteq 1..Len(sqlText')
    <3>1. sqlTables'[n + 1].columns = <<>> /\ ToSet(sqlTables'[n + 1].columns) = {}
      BY <2>2, <2>3, EmptyLines
    <3>2. LinesOf(<<"table", n + 1>>)' = {}
      <4>1. \A i \in 1..Len(sqlText) : sqlText[i] # <<"table", n + 1>>
        <5> SUFFICES ASSUME NEW i \in 1..Len(sqlText), sqlText[i] = <<"table", n + 1>>
                     PROVE  FALSE
          OBVIOUS
        <5>1. sqlText[i][1] = "table" /\ sqlText[i][2] = n + 1
          OBVIOUS
        <5> QED BY <2>0, <5>1 DEF SqlInv, TextFits
      <4> QED BY <1>1, <2>20, <4>1, NewBlockIsEmpty
    <3>3. TableKept(n + 1)'
      BY <3>1, <3>2, EmptyLines DEF TableKept
    <3>4. TableStray(n + 1)'
      BY <3>1 DEF TableStray
    <3> QED BY <3>1, <3>3, <3>4
  <2>11. \A t \in 1..Len(sqlTables') :
           /\ TableStray(t)' /\ TableKept(t)'
           /\ ToSet(sqlTables'[t].columns) \subseteq 1..Len(sqlText')
    <3>1. \A t \in 1..(n + 1) : t \in 1..n \/ t = n + 1
      BY <2>3
    <3> QED BY <2>3, <2>8, <2>10, <3>1
  <2>12. TextFits'
    <3>1. Len(sqlTables') \in Nat /\ Len(sqlTables') >= Len(sqlTables)
      BY <2>0, <2>3
    <3>2. /\ Len(sqlQueries') \in Nat /\ Len(sqlQueries') >= Len(sqlQueries)
          /\ Len(sqlQueries') = Len(sqlQueries)
      BY <1>1, TypedParts
    <3>3. \A i \in 1..Len(sqlText') :
            /\ sqlText'[i][1] = "table" => sqlText'[i][2] <= Len(sqlTables')
            /\ sqlText'[i][1] = "query" => sqlText'[i][2] <= Len(sqlQueries')
      BY <1>1, <3>1, <3>2, TextStaysFit
    <3> QED BY <2>9, <2>11, <3>2, <3>3 DEF TextFits
  <2> QED BY <1>1, <2>5, <2>6, <2>7, <2>9, <2>11, <2>12 DEF SqlInv
<1> QED BY <1>2, <1>3

LEMMA QueryLineStep ==
  ASSUME SqlInv, NEW oneLine \in BOOLEAN, QueryLine(oneLine)
  PROVE  SqlInv'
<1>1. /\ Reads /\ sqlBlock = NoSqlBlock
      /\ sqlTables' = sqlTables /\ sqlIndexCount' = sqlIndexCount
  BY DEF QueryLine, Reads
<1>2. CASE Len(sqlQueries) >= MaxQueries
  <2>1. /\ UNCHANGED <<sqlQueries, sqlTables, sqlIndexCount, sqlOpen>>
        /\ sqlBlock' = NoSqlBlock /\ sqlPhase' = "wild"
    BY <1>1, <1>2 DEF QueryLine, Overruns
  <2> QED BY <1>1, <2>1, StandStillStep, TypedParts
<1>3. CASE ~(Len(sqlQueries) >= MaxQueries)
  <2> DEFINE new == [oneLine |-> oneLine, sql |-> <<>>, length |-> 0]
  <2>0. PICK n \in Nat : n = Len(sqlQueries)
    BY TypedParts
  <2>20. <<"query", n + 1>> \in SqlBlocks /\ <<"query", n + 1>> # NoSqlBlock
    <3>1. n + 1 \in Nat
      OBVIOUS
    <3> QED BY <3>1, TableAndQueryBlocks, Zenon
  <2>1. /\ sqlQueries' = Append(sqlQueries, new) /\ sqlOpen' = sqlOpen \cup {"query"}
        /\ sqlBlock' = (IF oneLine THEN NoSqlBlock ELSE <<"query", n + 1>>)
        /\ sqlPhase' = sqlPhase
    BY <1>3, <2>0 DEF QueryLine, OpensSql
  <2>2. new \in SqlQuery /\ new.oneLine = oneLine /\ new.sql = <<>> /\ new.length = 0
    BY DEF SqlQuery
  <2> HIDE DEF new
  <2>3. /\ sqlQueries' \in Seq(SqlQuery) /\ Len(sqlQueries') = n + 1 /\ n \in Nat
        /\ \A q \in 1..n : sqlQueries'[q] = sqlQueries[q]
        /\ sqlQueries'[n + 1] = new /\ n + 1 <= MaxQueries
    BY <1>3, <2>0, <2>1, <2>2, Appended, TypedParts
  <2>4. sqlBlock' \in SqlBlocks
    BY <2>1, <2>20, TypedParts
  <2>5. SqlTyped'
    BY <1>1, <2>1, <2>3, <2>4, TypedParts, TextGrows DEF SqlTyped
  <2>6. OpenFits'
    <3>1. "table" \in sqlOpen => /\ Len(sqlTables) > 0 /\ sqlTables[Len(sqlTables)].oneLine
      BY <1>1, NothingTaken DEF SqlInv, OpenFits
    <3>2. sqlQueries'[Len(sqlQueries')].oneLine = oneLine /\ Len(sqlQueries') > 0
      BY <2>2, <2>3
    <3>3. CASE oneLine
      BY <1>1, <2>1, <3>1, <3>2, <3>3 DEF OpenFits, NoSqlBlock
    <3>4. CASE ~oneLine
      BY <1>1, <2>1, <2>3, <3>1, <3>2, <3>4 DEF OpenFits
    <3> QED BY <3>3, <3>4
  <2>7. OpenStrays'
    BY <1>1, <2>1, <2>2, <2>3, NothingTaken, EmptyLines DEF OpenStrays, TakenNow
  <2>8. \A q \in 1..n :
          /\ QueryStray(q)' /\ QueryKept(q)'
          /\ ToSet(sqlQueries'[q].sql) \subseteq 1..Len(sqlText')
          /\ sqlQueries'[q].length < MaxSql
    <3> SUFFICES ASSUME NEW q \in 1..n
                 PROVE  /\ QueryStray(q)' /\ QueryKept(q)'
                        /\ ToSet(sqlQueries'[q].sql) \subseteq 1..Len(sqlText')
                        /\ sqlQueries'[q].length < MaxSql
      OBVIOUS
    <3>1. q \in Nat /\ q # n + 1 /\ sqlQueries'[q] = sqlQueries[q]
      BY <2>3
    <3>2. sqlBlock' # <<"query", q>>
      BY <2>1, <3>1, TableAndQueryBlocks
    <3>3. LinesOf(<<"query", q>>)' = LinesOf(<<"query", q>>)
      BY <1>1, <3>1, <3>2, LinesStay, TableAndQueryBlocks
    <3> QED BY <1>1, <3>1, <3>3, <2>0, QueryStays
  <2>9. \A t \in 1..Len(sqlTables) :
          /\ TableStray(t)' /\ TableKept(t)'
          /\ ToSet(sqlTables'[t].columns) \subseteq 1..Len(sqlText')
    <3> SUFFICES ASSUME NEW t \in 1..Len(sqlTables)
                 PROVE  /\ TableStray(t)' /\ TableKept(t)'
                        /\ ToSet(sqlTables'[t].columns) \subseteq 1..Len(sqlText')
                    OBVIOUS
    <3>4. t \in Nat
      BY TypedParts
    <3>1. /\ <<"table", t>> \in SqlBlocks /\ <<"table", t>> # NoSqlBlock
          /\ <<"table", t>> # <<"query", n + 1>>
      BY <3>4, TableAndQueryBlocks, Zenon
    <3>3. sqlBlock' # <<"table", t>>
      BY <2>1, <3>1
    <3>2. LinesOf(<<"table", t>>)' = LinesOf(<<"table", t>>)
      BY <1>1, <3>1, <3>3, LinesStay
    <3> QED BY <1>1, <3>2, TableStays
  <2>10. /\ QueryStray(n + 1)' /\ QueryKept(n + 1)'
         /\ ToSet(sqlQueries'[n + 1].sql) \subseteq 1..Len(sqlText')
         /\ sqlQueries'[n + 1].length < MaxSql
    <3>1. sqlQueries'[n + 1].sql = <<>> /\ ToSet(sqlQueries'[n + 1].sql) = {}
      BY <2>2, <2>3, EmptyLines
    <3>2. LinesOf(<<"query", n + 1>>)' = {}
      <4>1. \A i \in 1..Len(sqlText) : sqlText[i] # <<"query", n + 1>>
        <5> SUFFICES ASSUME NEW i \in 1..Len(sqlText), sqlText[i] = <<"query", n + 1>>
                     PROVE  FALSE
          OBVIOUS
        <5>1. sqlText[i][1] = "query" /\ sqlText[i][2] = n + 1
          OBVIOUS
        <5> QED BY <2>0, <5>1 DEF SqlInv, TextFits
      <4> QED BY <1>1, <2>20, <4>1, NewBlockIsEmpty
    <3>3. QueryKept(n + 1)'
      BY <3>1, <3>2, EmptyLines DEF QueryKept
    <3>4. QueryStray(n + 1)'
      BY <3>1 DEF QueryStray
    <3>5. sqlQueries'[n + 1].length < MaxSql
      BY <2>2, <2>3, TypedParts
    <3> QED BY <3>1, <3>3, <3>4, <3>5
  <2>11. \A q \in 1..Len(sqlQueries') :
           /\ QueryStray(q)' /\ QueryKept(q)'
           /\ ToSet(sqlQueries'[q].sql) \subseteq 1..Len(sqlText')
           /\ sqlQueries'[q].length < MaxSql
    <3>1. \A q \in 1..(n + 1) : q \in 1..n \/ q = n + 1
      BY <2>3
    <3> QED BY <2>3, <2>8, <2>10, <3>1
  <2>12. TextFits'
    <3>1. Len(sqlQueries') \in Nat /\ Len(sqlQueries') >= Len(sqlQueries)
      BY <2>0, <2>3
    <3>2. /\ Len(sqlTables') \in Nat /\ Len(sqlTables') >= Len(sqlTables)
          /\ Len(sqlTables') = Len(sqlTables)
      BY <1>1, TypedParts
    <3>3. \A i \in 1..Len(sqlText') :
            /\ sqlText'[i][1] = "query" => sqlText'[i][2] <= Len(sqlQueries')
            /\ sqlText'[i][1] = "table" => sqlText'[i][2] <= Len(sqlTables')
      BY <1>1, <3>1, <3>2, TextStaysFit
    <3> QED BY <2>9, <2>11, <3>2, <3>3 DEF TextFits
  <2> QED BY <1>1, <2>5, <2>6, <2>7, <2>9, <2>11, <2>12 DEF SqlInv
<1> QED BY <1>2, <1>3

LEMMA IndexLineStep == SqlInv /\ IndexLine => SqlInv'
<1> SUFFICES ASSUME SqlInv, IndexLine PROVE SqlInv'
  OBVIOUS
<1>1. /\ Reads /\ UNCHANGED <<sqlTables, sqlQueries, sqlOpen>>
      /\ sqlBlock = NoSqlBlock /\ sqlBlock' = NoSqlBlock
  BY DEF IndexLine, Reads
<1>2. sqlIndexCount' \in 0..MaxIndexes /\ sqlPhase' \in {"spec", "wild"}
  BY TypedParts DEF IndexLine, SqlInv, SqlTyped
<1> QED BY <1>1, <1>2, StandStillStep

LEMMA SqlBraceLineStep == SqlInv /\ SqlBraceLine => SqlInv'
<1> SUFFICES ASSUME SqlInv, SqlBraceLine PROVE SqlInv'
  OBVIOUS
<1>1. /\ Reads /\ UNCHANGED <<sqlTables, sqlQueries>>
      /\ sqlOpen' = {} /\ sqlBlock' = NoSqlBlock
  BY DEF SqlBraceLine, Reads
<1>2. sqlIndexCount' \in 0..MaxIndexes /\ sqlPhase' \in {"spec", "wild"}
  BY DEF SqlBraceLine, SqlInv, SqlTyped
<1> QED BY <1>1, <1>2, StandStillStep

-----------------------------------------------------------------------------
(* A line of a block goes to what is open. *)

\* The columns of the tables after the line.
LEMMA BodyTables ==
  ASSUME SqlInv, NEW length \in LineLengths, BodyLine(length)
  PROVE  /\ sqlTables' \in Seq(SqlTable) /\ Len(sqlTables') = Len(sqlTables)
         /\ \A t \in 1..Len(sqlTables) : sqlTables'[t].oneLine = sqlTables[t].oneLine
         /\ \A t \in 1..Len(sqlTables) :
              /\ TableStray(t)' /\ (sqlPhase' = "spec" => TableKept(t)')
              /\ ToSet(sqlTables'[t].columns) \subseteq 1..Len(sqlText')
         /\ "table" \in sqlOpen /\ sqlTables[Len(sqlTables)].oneLine =>
              TakenNow(sqlTables[Len(sqlTables)].columns)'
         /\ sqlPhase' \in {"spec", "wild"}
<1>1. /\ Reads /\ sqlBlock # NoSqlBlock /\ sqlBlock' = sqlBlock /\ sqlPhase = "spec"
      /\ sqlPhase' \in {"spec", "wild"}
  <2>1. Reads /\ sqlBlock # NoSqlBlock /\ sqlBlock' = sqlBlock
    BY SqlAssumption DEF BodyLine, Reads
  <2>2. sqlPhase = "spec"
    BY <2>1, TextGrows
  <2> QED BY <2>1, <2>2 DEF BodyLine
<1>2. PICK n \in Nat, k \in Nat : n = Len(sqlText) /\ k = Len(sqlTables)
  <2>1. Len(sqlText) \in Nat
    BY <1>1, TextGrows
  <2>2. Len(sqlTables) \in Nat
    BY TypedParts
  <2> QED BY <2>1, <2>2, Zenon
<1>3. /\ DOMAIN sqlText = 1..n /\ DOMAIN sqlText' = 1..(n + 1) /\ Len(sqlText') = n + 1
      /\ \A i \in 1..n : sqlText'[i] = sqlText[i]
      /\ sqlText'[n + 1] = sqlBlock
  BY <1>1, <1>2, TextGrows
<1>4. \A t \in 1..k :
        /\ sqlTables[t] \in SqlTable /\ ToSet(sqlTables[t].columns) \subseteq 1..n
        /\ TableStray(t) /\ TableKept(t)
  BY <1>1, <1>2, TypedParts DEF SqlInv, TextFits
\* A block that is not the author's has the lines it had.
<1>5. ASSUME NEW t \in 1..k, sqlTables'[t] = sqlTables[t], sqlBlock # <<"table", t>>
      PROVE  /\ TableStray(t)' /\ TableKept(t)'
             /\ ToSet(sqlTables'[t].columns) \subseteq 1..Len(sqlText')
  <2>1. t \in Nat
    OBVIOUS
  <2>2. LinesOf(<<"table", t>>)' = LinesOf(<<"table", t>>)
    BY <1>1, <1>5, <2>1, LinesGrow, TableAndQueryBlocks
  <2> QED BY <1>1, <1>2, <1>5, <2>2, TableStays
<1>6. CASE "table" \notin sqlOpen
  <2>1. sqlTables' = sqlTables
    BY <1>6 DEF BodyLine
  <2>2. \A t \in 1..k : sqlBlock # <<"table", t>>
    BY <1>6 DEF SqlInv, OpenFits
  <2> QED BY <1>1, <1>2, <1>5, <1>6, <2>1, <2>2, TypedParts
<1>7. CASE "table" \in sqlOpen
  <2>1. k \in 1..k /\ (sqlTables[k].oneLine \/ sqlBlock = <<"table", k>>)
    BY <1>2, <1>7 DEF SqlInv, OpenFits
  <2>2. ~sqlTables[k].oneLine => sqlBlock = <<"table", k>>
    BY <2>1
  <2>3. sqlTables[k].oneLine => /\ TakenNow(sqlTables[k].columns)
                                /\ sqlBlock[1] = "query"
    <3>1. SUFFICES ASSUME sqlTables[k].oneLine
                   PROVE  TakenNow(sqlTables[k].columns) /\ sqlBlock[1] = "query"
      OBVIOUS
    <3>2. TakenNow(sqlTables[k].columns)
      BY <1>2, <1>7, <3>1 DEF SqlInv, OpenStrays
    <3>3. sqlBlock[1] \in {"none", "table", "query"}
      BY TypedParts DEF SqlBlocks
    <3>4. sqlBlock[1] # "none" /\ sqlBlock[1] # "table"
      BY <1>1, <1>2, <3>1 DEF SqlInv, OpenFits
    <3> QED BY <3>2, <3>3, <3>4
  <2>4. CASE Len(sqlTables[k].columns) >= MaxColumns
    <3>1. sqlTables' = sqlTables /\ sqlPhase' = "wild"
      BY <1>2, <1>7, <2>4 DEF BodyLine
    <3>2. \A t \in 1..k :
            TableStray(t)' /\ ToSet(sqlTables'[t].columns) \subseteq 1..Len(sqlText')
      BY <1>1, <1>2, <3>1, TableStays
    <3>3. sqlTables[k].oneLine => TakenNow(sqlTables[k].columns)'
      BY <1>1, <1>3, <1>4, <2>1, <2>3, <3>1 DEF TakenNow
    <3> QED BY <1>2, <3>1, <3>2, <3>3, TypedParts
  <2>5. CASE ~(Len(sqlTables[k].columns) >= MaxColumns)
    <3> DEFINE cols == Append(sqlTables[k].columns, n + 1)
    <3>1. sqlTables' = [sqlTables EXCEPT ![k].columns = Append(@, n + 1)]
      BY <1>2, <1>7, <2>5 DEF BodyLine
    <3>2. sqlTables[k].columns \in Seq(Nat) /\ sqlTables[k] \in SqlTable
      BY <1>4, <2>1 DEF SqlTable
    <3>3. /\ cols \in Seq(Nat)
          /\ ToSet(cols) = ToSet(sqlTables[k].columns) \cup {n + 1}
          /\ InOrder(sqlTables[k].columns) => InOrder(cols)
      BY <1>4, <2>1, <3>2, LineInOrder
    <3> HIDE DEF cols
    <3>4. PICK new \in SqlTable : /\ new.oneLine = sqlTables[k].oneLine /\ new.columns = cols
                                  /\ sqlTables' = [sqlTables EXCEPT ![k] = new]
      <4>1. [sqlTables[k] EXCEPT !.columns = cols] \in SqlTable
        BY <3>2, <3>3 DEF SqlTable
      <4>2. /\ [sqlTables[k] EXCEPT !.columns = cols].oneLine = sqlTables[k].oneLine
            /\ [sqlTables[k] EXCEPT !.columns = cols].columns = cols
        BY <3>2 DEF SqlTable
      <4>3. sqlTables' = [sqlTables EXCEPT ![k] = [sqlTables[k] EXCEPT !.columns = cols]]
        BY <3>1, <2>1, <1>2, TypedParts DEF cols
      <4> QED BY <4>1, <4>2, <4>3
    <3>5. /\ sqlTables' \in Seq(SqlTable) /\ Len(sqlTables') = k
          /\ sqlTables'[k] = new
          /\ \A t \in 1..k : t # k => sqlTables'[t] = sqlTables[t]
      BY <1>2, <2>1, <3>4, TypedParts, ReplacedAt
    <3>6. /\ sqlTables'[k].oneLine = sqlTables[k].oneLine /\ sqlTables'[k].columns = cols
          /\ ToSet(sqlTables'[k].columns) = ToSet(sqlTables[k].columns) \cup {n + 1}
          /\ InOrder(sqlTables[k].columns) => InOrder(sqlTables'[k].columns)
      BY <3>3, <3>4, <3>5
    <3>7. \A t \in 1..k : t # k =>
            /\ TableStray(t)' /\ TableKept(t)'
            /\ ToSet(sqlTables'[t].columns) \subseteq 1..Len(sqlText')
      <4> SUFFICES ASSUME NEW t \in 1..k, t # k
                   PROVE  /\ TableStray(t)' /\ TableKept(t)'
                          /\ ToSet(sqlTables'[t].columns) \subseteq 1..Len(sqlText')
        OBVIOUS
      <4>1. sqlBlock # <<"table", t>>
        BY <1>2 DEF SqlInv, OpenFits
      <4> QED BY <1>5, <3>5, <4>1
    <3>8. ToSet(sqlTables'[k].columns) \subseteq 1..Len(sqlText')
      <4>1. k \in 1..k
        BY <2>1
      <4>2. ToSet(sqlTables[k].columns) \subseteq 1..n
        BY <1>4, <4>1
      <4>3. Len(sqlText') = n + 1
        BY <1>3
      <4>4. 1..n \subseteq 1..(n + 1) /\ n + 1 \in 1..(n + 1)
        OBVIOUS
      <4> QED BY <3>6, <4>2, <4>3, <4>4
    <3>9. TableKept(k)'
      <4>1. CASE sqlTables[k].oneLine
        BY <3>6, <4>1 DEF TableKept
      <4>2. CASE ~sqlTables[k].oneLine
        <5>1. LinesOf(<<"table", k>>)' = LinesOf(<<"table", k>>) \cup {n + 1}
          BY <1>1, <1>2, <2>2, <4>2, LinesGrow, TypedParts
        <5>2. InOrder(sqlTables[k].columns) /\ ToSet(sqlTables[k].columns) = LinesOf(<<"table", k>>)
          BY <1>4, <2>1, <4>2 DEF TableKept
        <5> QED BY <3>6, <5>1, <5>2 DEF TableKept
      <4> QED BY <4>1, <4>2
    <3>10. \A i \in ToSet(sqlTables'[k].columns) : sqlTables[k].oneLine =>
             sqlText'[i] = sqlBlock /\ sqlBlock # NoSqlBlock /\ sqlBlock[1] = "query"
      <4> SUFFICES ASSUME NEW i \in ToSet(sqlTables[k].columns) \cup {n + 1},
                          sqlTables[k].oneLine
                   PROVE  sqlText'[i] = sqlBlock
        BY <1>1, <2>3, <3>6
      <4>1. CASE i = n + 1
        BY <1>3, <4>1
      <4>2. CASE i \in ToSet(sqlTables[k].columns)
        <5>1. i \in 1..n /\ sqlText[i] = sqlBlock
          BY <1>4, <2>1, <2>3, <4>2 DEF TakenNow
        <5> QED BY <1>3, <5>1
      <4> QED BY <4>1, <4>2
    <3>11. TableStray(k)'
      BY <3>6, <3>10 DEF TableStray
    <3>12. \A t \in 1..k :
             /\ TableStray(t)' /\ TableKept(t)'
             /\ ToSet(sqlTables'[t].columns) \subseteq 1..Len(sqlText')
      BY <3>7, <3>8, <3>9, <3>11
    <3>13. \A t \in 1..k : sqlTables'[t].oneLine = sqlTables[t].oneLine
      BY <3>5, <3>6
    <3>14. sqlTables[k].oneLine =>
             \A i \in ToSet(sqlTables'[k].columns) : sqlText'[i] = sqlBlock' /\ sqlBlock' # NoSqlBlock
      BY <1>1, <3>10
    <3>15. sqlTables[Len(sqlTables)].oneLine => TakenNow(sqlTables[Len(sqlTables)].columns)'
      BY <1>2, <3>5, <3>14 DEF TakenNow
    <3> QED BY <1>1, <1>2, <3>5, <3>12, <3>13, <3>15
  <2> QED BY <2>4, <2>5
<1> QED BY <1>6, <1>7

\* The lines of the queries after the line.
LEMMA BodyQueries ==
  ASSUME SqlInv, NEW length \in LineLengths, BodyLine(length)
  PROVE  /\ sqlQueries' \in Seq(SqlQuery) /\ Len(sqlQueries') = Len(sqlQueries)
         /\ \A q \in 1..Len(sqlQueries) : sqlQueries'[q].oneLine = sqlQueries[q].oneLine
         /\ \A q \in 1..Len(sqlQueries) :
              /\ QueryStray(q)' /\ QueryKept(q)'
              /\ ToSet(sqlQueries'[q].sql) \subseteq 1..Len(sqlText')
              /\ sqlQueries'[q].length < MaxSql
         /\ "query" \in sqlOpen /\ sqlQueries[Len(sqlQueries)].oneLine =>
              TakenNow(sqlQueries[Len(sqlQueries)].sql)'
<1>1. Reads /\ sqlBlock # NoSqlBlock /\ sqlBlock' = sqlBlock /\ sqlPhase = "spec"
  <2>1. Reads /\ sqlBlock # NoSqlBlock /\ sqlBlock' = sqlBlock
    BY SqlAssumption DEF BodyLine, Reads
  <2> QED BY <2>1, TextGrows
<1>2. PICK n \in Nat, k \in Nat : n = Len(sqlText) /\ k = Len(sqlQueries)
  <2>1. Len(sqlText) \in Nat
    BY <1>1, TextGrows
  <2>2. Len(sqlQueries) \in Nat
    BY TypedParts
  <2> QED BY <2>1, <2>2, Zenon
<1>3. /\ DOMAIN sqlText = 1..n /\ DOMAIN sqlText' = 1..(n + 1) /\ Len(sqlText') = n + 1
      /\ \A i \in 1..n : sqlText'[i] = sqlText[i]
      /\ sqlText'[n + 1] = sqlBlock
      /\ \A i \in 1..n : sqlLengths'[i] = sqlLengths[i] /\ sqlLengths[i] \in Nat
      /\ sqlLengths'[n + 1] = length /\ length \in Nat /\ MaxSql \in Nat
  <2>1. ReadsSql(length) /\ length \in Nat /\ MaxSql \in Nat
    BY SqlAssumption DEF BodyLine
  <2> QED BY <1>1, <1>2, <2>1, TextGrows
<1>4. \A q \in 1..k :
        /\ sqlQueries[q] \in SqlQuery /\ ToSet(sqlQueries[q].sql) \subseteq 1..n
        /\ sqlQueries[q].length < MaxSql
        /\ QueryStray(q) /\ QueryKept(q)
  BY <1>1, <1>2, TypedParts DEF SqlInv, TextFits
<1>5. ASSUME NEW q \in 1..k, sqlQueries'[q] = sqlQueries[q]
      PROVE  /\ QueryStray(q)' /\ (sqlBlock # <<"query", q>> => QueryKept(q)')
             /\ ToSet(sqlQueries'[q].sql) \subseteq 1..Len(sqlText')
             /\ sqlQueries'[q].length < MaxSql
  <2>1. q \in Nat
    OBVIOUS
  <2>2. sqlBlock # <<"query", q>> => LinesOf(<<"query", q>>)' = LinesOf(<<"query", q>>)
    BY <1>1, <2>1, LinesGrow, TableAndQueryBlocks
  <2> QED BY <1>1, <1>2, <1>5, <2>2, QueryStays
<1>6. CASE "query" \notin sqlOpen
  <2>1. sqlQueries' = sqlQueries
    BY <1>6 DEF BodyLine
  <2>2. \A q \in 1..k : sqlBlock # <<"query", q>>
    BY <1>6 DEF SqlInv, OpenFits
  <2> QED BY <1>1, <1>2, <1>5, <1>6, <2>1, <2>2, TypedParts
<1>7. CASE "query" \in sqlOpen
  <2>1. k \in 1..k /\ (sqlQueries[k].oneLine \/ sqlBlock = <<"query", k>>)
    BY <1>2, <1>7 DEF SqlInv, OpenFits
  <2>2. ~sqlQueries[k].oneLine => sqlBlock = <<"query", k>>
    BY <2>1
  <2>3. sqlQueries[k].oneLine => TakenNow(sqlQueries[k].sql)
    BY <1>2, <1>7 DEF SqlInv, OpenStrays
  <2>4. sqlQueries[k].sql \in Seq(Nat) /\ sqlQueries[k] \in SqlQuery
    BY <1>4, <2>1 DEF SqlQuery
  <2>5. sqlQueries[k].length \in Nat /\ sqlQueries[k].length < MaxSql
    BY <1>4, <2>1, <2>4 DEF SqlQuery
  <2>6. ~sqlQueries[k].oneLine =>
          /\ LinesOf(<<"query", k>>)' = LinesOf(<<"query", k>>) \cup {n + 1}
          /\ InOrder(sqlQueries[k].sql)
          /\ ToSet(sqlQueries[k].sql) \subseteq LinesOf(<<"query", k>>)
          /\ LinesOf(<<"query", k>>) \subseteq 1..n
          /\ \A i \in LinesOf(<<"query", k>>) \ ToSet(sqlQueries[k].sql) :
               sqlQueries[k].length + sqlLengths'[i] + 2 >= MaxSql
    <3>0. LinesOf(<<"query", k>>) \subseteq 1..n
      BY <1>3 DEF LinesOf
    <3>1. SUFFICES ASSUME ~sqlQueries[k].oneLine
                   PROVE  LinesOf(<<"query", k>>)' = LinesOf(<<"query", k>>) \cup {n + 1}
      BY <1>3, <1>4, <2>1, <3>0 DEF QueryKept
    <3> QED BY <1>1, <1>2, <2>2, <3>1, LinesGrow, TypedParts
  <2>7. CASE ~(sqlQueries[k].length + length + 2 < MaxSql)
    <3>1. sqlQueries' = sqlQueries
      BY <1>2, <1>7, <2>7 DEF BodyLine
    <3>2. \A q \in 1..k : q # k => sqlBlock # <<"query", q>>
      BY <1>2 DEF SqlInv, OpenFits
    <3>3. sqlQueries[k].length + sqlLengths'[n + 1] + 2 >= MaxSql
      BY <1>3, <2>5, <2>7
    <3>4. ~sqlQueries[k].oneLine => QueryKept(k)'
      BY <2>6, <3>1, <3>3 DEF QueryKept
    <3>5. sqlQueries[k].oneLine => QueryKept(k)'
      BY <3>1 DEF QueryKept
    <3>6. sqlQueries[k].oneLine => TakenNow(sqlQueries[k].sql)'
      BY <1>1, <1>3, <1>4, <2>1, <2>3, <3>1 DEF TakenNow
    <3>7. \A q \in 1..k : QueryKept(q)'
      BY <1>5, <3>1, <3>2, <3>4, <3>5
    <3> QED BY <1>2, <1>5, <3>1, <3>6, <3>7, TypedParts
  <2>8. CASE sqlQueries[k].length + length + 2 < MaxSql
    <3> DEFINE lines == Append(sqlQueries[k].sql, n + 1)
               longer == sqlQueries[k].length + length
                           + (IF sqlQueries[k].length = 0 THEN 0 ELSE 1)
    <3>1. sqlQueries' = [sqlQueries EXCEPT ![k] = WithLine(@, n + 1, length)]
      BY <1>2, <1>7, <2>8 DEF BodyLine
    <3>3. /\ lines \in Seq(Nat) /\ Len(lines) = Len(sqlQueries[k].sql) + 1
          /\ ToSet(lines) = ToSet(sqlQueries[k].sql) \cup {n + 1}
          /\ InOrder(sqlQueries[k].sql) => InOrder(lines)
      BY <1>4, <2>1, <2>4, LineInOrder
    <3>2. longer \in Nat /\ longer >= sqlQueries[k].length /\ longer < MaxSql
      <4>1. PICK space \in {0, 1} : longer = sqlQueries[k].length + length + space
        <5>1. CASE sqlQueries[k].length = 0
          BY <5>1
        <5>2. CASE sqlQueries[k].length # 0
          BY <5>2
        <5> QED BY <5>1, <5>2
      <4> HIDE DEF longer
      <4>2. PICK old \in Nat : old = sqlQueries[k].length
        BY <2>5
      <4>3. length \in Nat /\ MaxSql \in Nat /\ old + length + 2 < MaxSql
        BY <1>3, <2>8, <4>2
      <4> QED BY <4>1, <4>2, <4>3
    <3> HIDE DEF lines, longer
    <3>4. PICK new \in SqlQuery : /\ new.oneLine = sqlQueries[k].oneLine /\ new.sql = lines
                                  /\ new.length = longer
                                  /\ sqlQueries' = [sqlQueries EXCEPT ![k] = new]
      <4> DEFINE query == WithLine(sqlQueries[k], n + 1, length)
      <4>1. /\ query \in SqlQuery /\ query.oneLine = sqlQueries[k].oneLine
            /\ query.sql = lines /\ query.length = longer
        BY <2>4, <3>2, <3>3 DEF SqlQuery, WithLine, lines, longer
      <4> HIDE DEF query
      <4>2. sqlQueries' = [sqlQueries EXCEPT ![k] = query]
        BY <3>1, <2>1, <1>2, TypedParts DEF query
      <4> QED BY <4>1, <4>2
    <3>5. /\ sqlQueries' \in Seq(SqlQuery) /\ Len(sqlQueries') = k
          /\ sqlQueries'[k] = new
          /\ \A q \in 1..k : q # k => sqlQueries'[q] = sqlQueries[q]
      BY <1>2, <2>1, <3>4, TypedParts, ReplacedAt
    <3>6. /\ sqlQueries'[k].oneLine = sqlQueries[k].oneLine /\ sqlQueries'[k].sql = lines
          /\ ToSet(sqlQueries'[k].sql) = ToSet(sqlQueries[k].sql) \cup {n + 1}
          /\ InOrder(sqlQueries[k].sql) => InOrder(sqlQueries'[k].sql)
          /\ sqlQueries'[k].length < MaxSql
          /\ sqlQueries'[k].length = longer
      BY <3>2, <3>3, <3>4, <3>5
    <3>7. \A q \in 1..k : q # k =>
            /\ QueryStray(q)' /\ QueryKept(q)'
            /\ ToSet(sqlQueries'[q].sql) \subseteq 1..Len(sqlText')
            /\ sqlQueries'[q].length < MaxSql
      <4> SUFFICES ASSUME NEW q \in 1..k, q # k
                   PROVE  /\ QueryStray(q)' /\ QueryKept(q)'
                          /\ ToSet(sqlQueries'[q].sql) \subseteq 1..Len(sqlText')
                          /\ sqlQueries'[q].length < MaxSql
        OBVIOUS
      <4>1. sqlBlock # <<"query", q>>
        BY <1>2 DEF SqlInv, OpenFits
      <4> QED BY <1>5, <3>5, <4>1
    <3>8. ToSet(sqlQueries'[k].sql) \subseteq 1..Len(sqlText')
      <4>1. ToSet(sqlQueries[k].sql) \subseteq 1..n
        BY <1>4, <2>1
      <4>2. 1..n \subseteq 1..(n + 1) /\ n + 1 \in 1..(n + 1)
        OBVIOUS
      <4>3. Len(sqlText') = n + 1
        BY <1>3
      <4> QED BY <3>6, <4>1, <4>2, <4>3
    <3>9. QueryKept(k)'
      <4>1. CASE sqlQueries[k].oneLine
        BY <3>6, <4>1 DEF QueryKept
      <4>2. CASE ~sqlQueries[k].oneLine
        <5>1. \A i \in LinesOf(<<"query", k>>)' \ ToSet(sqlQueries'[k].sql) :
                i \in LinesOf(<<"query", k>>) \ ToSet(sqlQueries[k].sql)
          BY <2>6, <3>6, <4>2
        <5>2. \A i \in LinesOf(<<"query", k>>)' \ ToSet(sqlQueries'[k].sql) :
                sqlQueries'[k].length + sqlLengths'[i] + 2 >= MaxSql
          <6> SUFFICES ASSUME NEW i \in LinesOf(<<"query", k>>)' \ ToSet(sqlQueries'[k].sql)
                       PROVE  longer + sqlLengths'[i] + 2 >= MaxSql
            BY <3>6
          <6>1. sqlQueries[k].length + sqlLengths'[i] + 2 >= MaxSql
            BY <2>6, <4>2, <5>1
          <6>2. sqlLengths'[i] \in Nat
            BY <1>3, <2>6, <4>2, <5>1
          <6> QED BY <1>3, <2>5, <3>2, <6>1, <6>2
        <5>3. ToSet(sqlQueries'[k].sql) \subseteq LinesOf(<<"query", k>>)'
          BY <2>6, <3>6, <4>2
        <5> QED BY <2>6, <3>6, <4>2, <5>2, <5>3 DEF QueryKept
      <4> QED BY <4>1, <4>2
    <3>10. sqlQueries[k].oneLine =>
             \A i \in ToSet(sqlQueries'[k].sql) : sqlText'[i] = sqlBlock /\ sqlBlock # NoSqlBlock
      <4> SUFFICES ASSUME NEW i \in ToSet(sqlQueries[k].sql) \cup {n + 1},
                          sqlQueries[k].oneLine
                   PROVE  sqlText'[i] = sqlBlock
        BY <1>1, <2>3, <3>6
      <4>1. CASE i = n + 1
        BY <1>3, <4>1
      <4>2. CASE i \in ToSet(sqlQueries[k].sql)
        <5>1. i \in 1..n /\ sqlText[i] = sqlBlock
          BY <1>4, <2>1, <2>3, <4>2 DEF TakenNow
        <5> QED BY <1>3, <5>1
      <4> QED BY <4>1, <4>2
    <3>11. QueryStray(k)'
      BY <3>6, <3>10 DEF QueryStray
    <3>12. \A q \in 1..k :
             /\ QueryStray(q)' /\ QueryKept(q)'
             /\ ToSet(sqlQueries'[q].sql) \subseteq 1..Len(sqlText')
             /\ sqlQueries'[q].length < MaxSql
      BY <3>6, <3>7, <3>8, <3>9, <3>11
    <3>13. \A q \in 1..k : sqlQueries'[q].oneLine = sqlQueries[q].oneLine
      BY <3>5, <3>6
    <3>14. sqlQueries[k].oneLine =>
             \A i \in ToSet(sqlQueries'[k].sql) : sqlText'[i] = sqlBlock' /\ sqlBlock' # NoSqlBlock
      BY <1>1, <3>10
    <3>15. sqlQueries[Len(sqlQueries)].oneLine => TakenNow(sqlQueries[Len(sqlQueries)].sql)'
      BY <1>2, <3>5, <3>14 DEF TakenNow
    <3> QED BY <1>2, <3>5, <3>12, <3>13, <3>15
  <2> QED BY <2>5, <2>7, <2>8
<1> QED BY <1>6, <1>7

LEMMA BodyLineStep ==
  ASSUME SqlInv, NEW length \in LineLengths, BodyLine(length)
  PROVE  SqlInv'
<1>1. /\ Reads /\ sqlBlock' = sqlBlock /\ sqlOpen' = sqlOpen /\ sqlIndexCount' = sqlIndexCount
  BY SqlAssumption DEF BodyLine, Reads
<1>2. /\ Len(sqlTables') = Len(sqlTables) /\ Len(sqlQueries') = Len(sqlQueries)
      /\ Len(sqlTables) \in Nat /\ Len(sqlQueries) \in Nat
  BY BodyTables, BodyQueries, TypedParts
<1>3. SqlTyped'
  BY <1>1, <1>2, TypedParts, TextGrows, BodyTables, BodyQueries DEF SqlTyped
<1>4. OpenFits'
  BY <1>1, <1>2, BodyTables, BodyQueries DEF SqlInv, OpenFits
<1>5. TextFits'
  <2>1. \A i \in 1..Len(sqlText') :
          /\ sqlText'[i][1] = "table" => sqlText'[i][2] <= Len(sqlTables')
          /\ sqlText'[i][1] = "query" => sqlText'[i][2] <= Len(sqlQueries')
    <3>1. /\ Len(sqlTables') \in Nat /\ Len(sqlTables') >= Len(sqlTables)
          /\ Len(sqlQueries') \in Nat /\ Len(sqlQueries') >= Len(sqlQueries)
      BY <1>2
    <3> QED BY <1>1, <3>1, TextStaysFit
  <2> QED BY <1>2, <2>1, BodyTables, BodyQueries DEF TextFits
<1>6. OpenStrays'
  <2>1. /\ "table" \in sqlOpen => Len(sqlTables) \in 1..Len(sqlTables)
        /\ "query" \in sqlOpen => Len(sqlQueries) \in 1..Len(sqlQueries)
    BY <1>2 DEF SqlInv, OpenFits
  <2> QED BY <1>1, <1>2, <2>1, BodyTables, BodyQueries DEF OpenStrays
<1> QED BY <1>2, <1>3, <1>4, <1>5, <1>6, BodyTables, BodyQueries DEF SqlInv

LEMMA SqlStep == SqlInv /\ [SqlNext]_sqlVars => SqlInv'
<1> SUFFICES ASSUME SqlInv, [SqlNext]_sqlVars PROVE SqlInv'
  OBVIOUS
<1>1. CASE UNCHANGED sqlVars
  <2>1. /\ sqlTables' = sqlTables /\ sqlQueries' = sqlQueries /\ sqlText' = sqlText
        /\ sqlBlock' = sqlBlock /\ sqlOpen' = sqlOpen /\ sqlPhase' = sqlPhase
        /\ sqlIndexCount' = sqlIndexCount /\ sqlLengths' = sqlLengths
    BY <1>1 DEF sqlVars
  <2>2. SqlTyped' /\ OpenFits'
    BY <2>1 DEF SqlInv, SqlTyped, OpenFits
  <2>3. TextFits' /\ OpenStrays'
    BY <2>1 DEF SqlInv, TextFits, OpenStrays, TakenNow
  <2>4. \A b \in {"table", "query"} \X Nat : LinesOf(b)' = LinesOf(b)
    BY <2>1 DEF LinesOf
  <2>5. \A t \in 1..Len(sqlTables') : TableStray(t)' /\ (sqlPhase' = "spec" => TableKept(t)')
    <3> SUFFICES ASSUME NEW t \in 1..Len(sqlTables)
                 PROVE  TableStray(t)' /\ (sqlPhase = "spec" => TableKept(t)')
      BY <2>1
    <3>1. t \in Nat
      BY TypedParts
    <3>2. LinesOf(<<"table", t>>)' = LinesOf(<<"table", t>>)
      BY <2>4, <3>1
    <3>3. TableStray(t)'
      BY <2>1 DEF SqlInv, TableStray
    <3>4. sqlPhase = "spec" => TableKept(t)'
      BY <2>1, <3>2 DEF SqlInv, TableKept
    <3> QED BY <3>3, <3>4
  <2>6. \A q \in 1..Len(sqlQueries') : QueryStray(q)' /\ (sqlPhase' = "spec" => QueryKept(q)')
    <3> SUFFICES ASSUME NEW q \in 1..Len(sqlQueries)
                 PROVE  QueryStray(q)' /\ (sqlPhase = "spec" => QueryKept(q)')
      BY <2>1
    <3>1. q \in Nat
      BY TypedParts
    <3>2. LinesOf(<<"query", q>>)' = LinesOf(<<"query", q>>)
      BY <2>4, <3>1
    <3>3. QueryStray(q)'
      BY <2>1 DEF SqlInv, QueryStray
    <3>4. sqlPhase = "spec" => QueryKept(q)'
      BY <2>1, <3>2 DEF SqlInv, QueryKept
    <3> QED BY <3>3, <3>4
  <2> QED BY <2>2, <2>3, <2>5, <2>6 DEF SqlInv
<1>2. ASSUME NEW oneLine \in BOOLEAN, TableLine(oneLine) PROVE SqlInv'
  BY <1>2, TableLineStep
<1>3. ASSUME NEW oneLine \in BOOLEAN, QueryLine(oneLine) PROVE SqlInv'
  BY <1>3, QueryLineStep
<1>4. ASSUME NEW length \in LineLengths, BodyLine(length) PROVE SqlInv'
  BY <1>4, BodyLineStep
<1> QED BY <1>1, <1>2, <1>3, <1>4, IndexLineStep, SqlBraceLineStep DEF SqlNext

\* Of every .sql file: whose block is open and what each table and query has taken
\* (sqlgen.c:139-288).
THEOREM SqlInvariant == SqlSpec => []SqlInv
BY SqlInitInv, SqlStep, PTL DEF SqlSpec

\* SqlLinesStayInTheirBlock of every .sql file and all limits: what becomes of the lines
\* of tables and queries, and of those written on one line (sqlgen.c:139-288).
THEOREM LinesStayInTheirBlock == SqlSpec => []SqlLinesStayInTheirBlock
<1>1. SqlInv => SqlLinesStayInTheirBlock
  <2> SUFFICES ASSUME SqlInv PROVE SqlLinesStayInTheirBlock
    OBVIOUS
  <2>1. /\ DOMAIN sqlTables = 1..Len(sqlTables) /\ DOMAIN sqlQueries = 1..Len(sqlQueries)
        /\ sqlPhase \in {"spec", "wild"}
    BY DEF SqlInv, SqlTyped
  <2>2. StraysAreOfOneBlock
    BY <2>1 DEF SqlInv, StraysAreOfOneBlock, TableStray, QueryStray
  <2>3. sqlPhase # "wild" =>
          \A t \in 1..Len(sqlTables) : TableKept(t)
    BY <2>1 DEF SqlInv
  <2>4. sqlPhase # "wild" =>
          \A q \in 1..Len(sqlQueries) : QueryKept(q)
    BY <2>1 DEF SqlInv
  <2>5. BlocksKeepTheirLines
    BY <2>1, <2>3, <2>4 DEF BlocksKeepTheirLines, TableKept, QueryKept
  <2>6. OnlyStraysCutTheSql
    <3> SUFFICES ASSUME sqlPhase # "wild", NEW q \in 1..Len(sqlQueries),
                        NEW t \in 1..Len(sqlTables),
                        ~sqlQueries[q].oneLine, ~sqlTables[t].oneLine,
                        NEW i \in ToSet(sqlQueries[q].sql) \cap ToSet(sqlTables[t].columns)
                 PROVE  FALSE
      BY <2>1 DEF OnlyStraysCutTheSql
    <3>1. i \in LinesOf(<<"query", q>>) /\ i \in LinesOf(<<"table", t>>)
      BY <2>3, <2>4 DEF TableKept, QueryKept
    <3> QED BY <3>1 DEF LinesOf
  <2> QED BY <2>2, <2>5, <2>6 DEF SqlLinesStayInTheirBlock
<1> QED BY <1>1, SqlInvariant, PTL

\* The arrays that are guarded keep their limits (sqlgen.c:139-288).
THEOREM SqlTypeSafe == SqlSpec => []SqlTypeOK
<1>1. SqlInv => SqlTypeOK
  <2> SUFFICES ASSUME SqlInv PROVE SqlTypeOK
    OBVIOUS
  <2>1. \A q \in DOMAIN sqlQueries : sqlQueries[q].length \in 0..(MaxSql - 1)
    <3> SUFFICES ASSUME NEW q \in 1..Len(sqlQueries)
                 PROVE  sqlQueries[q].length \in 0..(MaxSql - 1)
      BY TypedParts
    <3>1. sqlQueries[q].length < MaxSql
      BY DEF SqlInv, TextFits
    <3>2. sqlQueries[q] \in SqlQuery
      BY TypedParts
    <3>3. sqlQueries[q].length \in Nat
      BY <3>2 DEF SqlQuery
    <3> QED BY <3>1, <3>3, TypedParts
  <2> QED BY <2>1 DEF SqlInv, SqlTyped, SqlTypeOK
<1> QED BY <1>1, SqlInvariant, PTL

-----------------------------------------------------------------------------
(* Platforms. *)

ImplBlocks == {"none", "platform", "simd"} \X Nat
TargetNames == Platforms \cup {"target", "fallback"}
LineKinds == {"platform", "platformOnOneLine", "simd", "simdLine", "target", "close"}
ImplLine == [in : ImplBlocks, kind : LineKinds, value : Seq(Platforms \cup STRING)]

ImplTyped ==
  /\ dispatches \in Seq(Seq(TargetNames)) /\ Len(dispatches) <= MaxDispatches
  /\ \A d \in 1..Len(dispatches) : Len(dispatches[d]) <= MaxPlatforms
  /\ simdTargets \in Seq(STRING) /\ simdListed \in Seq(STRING)
  /\ Len(simdTargets) <= MaxSimdTargets
  /\ implOpen \in SUBSET {"platform", "simd"}
  /\ implText \in Seq(ImplLine) /\ implBlock \in ImplBlocks
  /\ implPhase \in {"spec", "wild", "built"}
  /\ implPhase = "built" => build \in [cosmo : BOOLEAN, host : Hosts]

\* The author is in the last platform, which is open, or in the last SIMD block.
ImplBlockFits ==
  /\ implBlock[1] = "none" => implBlock = NoImplBlock
  /\ implBlock[1] = "platform" => /\ implBlock = <<"platform", Len(dispatches)>>
                                  /\ "platform" \in implOpen
  /\ "platform" \in implOpen => Len(dispatches) > 0
  /\ \A i \in 1..Len(implText) :
       implText[i].in[1] = "platform" => implText[i].in[2] <= Len(dispatches)

\* A platform has the targets of its block; one that is open although its author has left
\* it has none there.
TargetsFit ==
  /\ \A d \in 1..Len(dispatches) :
       TargetsOf(d) # {} \/ implBlock = <<"platform", d>> =>
         ToSet(dispatches[d]) = TargetsOf(d)
  /\ "platform" \in implOpen /\ implBlock[1] # "platform" => TargetsOf(Len(dispatches)) = {}

OpensList(i) == i \in 1..Len(implText) /\ implText[i].kind = "simd"

\* OpensList i is the last.
LastOpening(i) == OpensList(i) /\ \A j \in 1..Len(implText) : OpensList(j) => j <= i

\* A platform on one line is open where line i begins.
OpenAt(i) ==
  \E p \in 1..Len(implText) :
    /\ p < i /\ implText[p].kind = "platformOnOneLine"
    /\ \A j \in p..(i - 1) : implText[j].kind # "close"

\* Who is open outside the platforms' blocks; and what SIMD has come to.
SimdFits ==
  /\ implBlock[1] = "none" /\ implPhase = "spec" =>
       ("platform" \in implOpen <=> OpenAt(Len(implText) + 1))
  /\ implBlock[1] = "simd" =>
       /\ LastOpening(implBlock[2])
       /\ "platform" \in implOpen <=> OpenAt(implBlock[2])
  /\ simdTargets = IF \E i \in 1..Len(implText) : LastOpening(i) /\ OpenAt(i) THEN <<>>
                   ELSE Truncated(MaxSimdTargets, simdListed)
  /\ (\A i \in 1..Len(implText) : ~OpensList(i)) => simdListed = <<>>

ImplInv ==
  /\ ImplTyped /\ ImplBlockFits /\ SimdFits
  /\ implPhase # "wild" => TargetsFit

-----------------------------------------------------------------------------
(* The head of a sequence. *)

LEMMA Cut ==
  ASSUME NEW S, NEW n \in Nat, NEW s \in Seq(S)
  PROVE  /\ Truncated(n, s) \in Seq(S)
         /\ Len(Truncated(n, s)) = (IF Len(s) < n THEN Len(s) ELSE n)
         /\ \A i \in 1..Len(Truncated(n, s)) : Truncated(n, s)[i] = s[i]
<1>1. PICK m \in Nat : m = (IF Len(s) < n THEN Len(s) ELSE n) /\ m <= Len(s) /\ m <= n
  OBVIOUS
<1>2. Truncated(n, s) = SubSeq(s, 1, m)
  BY <1>1 DEF Truncated
<1>3. SubSeq(s, 1, m) \in Seq(S) /\ Len(SubSeq(s, 1, m)) = m
      /\ \A i \in 1..m : SubSeq(s, 1, m)[i] = s[i]
  BY <1>1
<1> QED BY <1>1, <1>2, <1>3

LEMMA SameSequence ==
  ASSUME NEW S, NEW s \in Seq(S), NEW t \in Seq(S), Len(s) = Len(t),
         \A i \in 1..Len(s) : s[i] = t[i]
  PROVE  s = t
OBVIOUS

\* What is cut already may be cut again after more has come.
LEMMA CutTwice ==
  ASSUME NEW S, NEW n \in Nat, NEW s \in Seq(S), NEW t \in Seq(S)
  PROVE  Truncated(n, Truncated(n, s) \o t) = Truncated(n, s \o t)
<1> DEFINE c == Truncated(n, s)
           a == c \o t
           b == s \o t
<1>1. /\ c \in Seq(S) /\ Len(c) = (IF Len(s) < n THEN Len(s) ELSE n)
      /\ \A i \in 1..Len(c) : c[i] = s[i]
  BY Cut
<1>2. Len(s) \in Nat /\ Len(t) \in Nat /\ Len(c) \in Nat
  BY <1>1
<1> HIDE DEF c
<1>3. /\ a \in Seq(S) /\ Len(a) = Len(c) + Len(t)
      /\ \A i \in 1..Len(a) : a[i] = IF i <= Len(c) THEN c[i] ELSE t[i - Len(c)]
  BY <1>1
<1>4. /\ b \in Seq(S) /\ Len(b) = Len(s) + Len(t)
      /\ \A i \in 1..Len(b) : b[i] = IF i <= Len(s) THEN s[i] ELSE t[i - Len(s)]
  OBVIOUS
<1> HIDE DEF a, b
<1>5. /\ Truncated(n, a) \in Seq(S)
      /\ Len(Truncated(n, a)) = (IF Len(a) < n THEN Len(a) ELSE n)
      /\ \A i \in 1..Len(Truncated(n, a)) : Truncated(n, a)[i] = a[i]
  BY <1>3, Cut
<1>6. /\ Truncated(n, b) \in Seq(S)
      /\ Len(Truncated(n, b)) = (IF Len(b) < n THEN Len(b) ELSE n)
      /\ \A i \in 1..Len(Truncated(n, b)) : Truncated(n, b)[i] = b[i]
  BY <1>4, Cut
<1>7. Len(Truncated(n, a)) = Len(Truncated(n, b))
  BY <1>1, <1>2, <1>3, <1>4, <1>5, <1>6
<1>8. ASSUME NEW i \in 1..Len(Truncated(n, a)) PROVE Truncated(n, a)[i] = Truncated(n, b)[i]
  <2>1. /\ i \in Nat /\ i >= 1 /\ i <= n /\ i <= Len(a) /\ i <= Len(b)
    BY <1>2, <1>3, <1>4, <1>5, <1>6, <1>7
  <2>2. a[i] = b[i]
    <3>1. CASE Len(s) < n
      <4>1. Len(c) = Len(s)
        BY <1>1, <3>1
      <4>2. a[i] = IF i <= Len(s) THEN c[i] ELSE t[i - Len(s)]
        BY <1>3, <2>1, <4>1
      <4>3. b[i] = IF i <= Len(s) THEN s[i] ELSE t[i - Len(s)]
        BY <1>4, <2>1
      <4>4. i <= Len(s) => c[i] = s[i]
        BY <1>1, <2>1, <4>1
      <4> QED BY <4>2, <4>3, <4>4
    <3>2. CASE ~(Len(s) < n)
      <4>1. Len(c) = n /\ i <= Len(c) /\ i <= Len(s)
        BY <1>1, <1>2, <2>1, <3>2
      <4>2. a[i] = c[i] /\ b[i] = s[i]
        BY <1>3, <1>4, <2>1, <4>1
      <4>3. c[i] = s[i]
        BY <1>1, <2>1, <4>1
      <4> QED BY <4>2, <4>3
    <3> QED BY <3>1, <3>2
  <2> QED BY <1>5, <1>6, <1>7, <2>2
<1>9. Truncated(n, a) = Truncated(n, b)
  BY <1>5, <1>6, <1>7, <1>8, SameSequence
<1> QED BY <1>9 DEF a, b, c

LEMMA CutOfNothing == ASSUME NEW n \in Nat PROVE Truncated(n, <<>>) = <<>>
<1>0. <<>> \in Seq(STRING) /\ Len(<<>>) = 0
  OBVIOUS
<1>1. PICK s \in Seq(STRING) : s = <<>> /\ Len(s) = 0
  BY <1>0
<1>2. /\ Truncated(n, s) \in Seq(STRING)
      /\ Len(Truncated(n, s)) = (IF Len(s) < n THEN Len(s) ELSE n)
  BY Cut
<1>3. Len(Truncated(n, s)) = 0
  BY <1>1, <1>2
<1> QED BY <1>1, <1>2, <1>3

-----------------------------------------------------------------------------

LEMMA ImplInitInv == ImplInit => ImplInv
<1> SUFFICES ASSUME ImplInit PROVE ImplInv
  OBVIOUS
<1>1. /\ dispatches = <<>> /\ simdTargets = <<>> /\ implText = <<>> /\ simdListed = <<>>
      /\ implOpen = {} /\ implBlock = <<"none", 0>> /\ implPhase = "spec"
  BY DEF ImplInit, NoImplBlock
<1>2. ImplTyped
  BY <1>1, PlatformsAssumption DEF ImplTyped, ImplBlocks
<1>3. ImplBlockFits /\ TargetsFit
  BY <1>1 DEF ImplBlockFits, TargetsFit, NoImplBlock
<1>4. SimdFits
  BY <1>1, PlatformsAssumption, CutOfNothing DEF SimdFits, OpenAt
<1> QED BY <1>2, <1>3, <1>4 DEF ImplInv

\* The line that is read.
LEMMA ImplTextGrows ==
  ASSUME ImplInv, NEW kind \in LineKinds, NEW value \in Seq(Platforms \cup STRING),
         ReadsImpl(kind, value)
  PROVE  /\ implPhase = "spec" /\ Len(implText) \in Nat /\ Len(implText') = Len(implText) + 1
         /\ implText' \in Seq(ImplLine)
         /\ DOMAIN implText = 1..Len(implText) /\ DOMAIN implText' = 1..(Len(implText) + 1)
         /\ \A i \in 1..Len(implText) : implText'[i] = implText[i]
         /\ implText'[Len(implText) + 1].in = implBlock
         /\ implText'[Len(implText) + 1].kind = kind
         /\ implText'[Len(implText) + 1].value = value
<1> DEFINE line == [in |-> implBlock, kind |-> kind, value |-> value]
<1>1. line \in ImplLine /\ implText' = Append(implText, line) /\ implText \in Seq(ImplLine)
      /\ implPhase = "spec" /\ line.in = implBlock /\ line.kind = kind /\ line.value = value
  BY DEF ImplInv, ImplTyped, ImplLine, ReadsImpl
<1> HIDE DEF line
<1> QED BY <1>1, Appended

LEMMA TargetsGrow ==
  ASSUME ImplInv, NEW kind \in LineKinds, NEW value \in Seq(Platforms \cup STRING),
         ReadsImpl(kind, value), NEW d \in Nat
  PROVE  TargetsOf(d)' = IF implBlock = <<"platform", d>> /\ kind = "target"
                         THEN TargetsOf(d) \cup {value[1]} ELSE TargetsOf(d)
<1>1. PICK n \in Nat : n = Len(implText)
  BY ImplTextGrows
<1>2. /\ DOMAIN implText = 1..n /\ DOMAIN implText' = 1..(n + 1)
      /\ \A i \in 1..n : implText'[i] = implText[i]
      /\ implText'[n + 1].in = implBlock
      /\ implText'[n + 1].kind = kind
      /\ implText'[n + 1].value = value
  BY <1>1, ImplTextGrows
<1> DEFINE Old == {j \in 1..n : implText[j].in = <<"platform", d>> /\ implText[j].kind = "target"}
           New == {j \in 1..(n + 1) : implText'[j].in = <<"platform", d>>
                                        /\ implText'[j].kind = "target"}
<1>3. TargetsOf(d) = {implText[i].value[1] : i \in Old}
  BY <1>2 DEF TargetsOf
<1>4. TargetsOf(d)' = {implText'[i].value[1] : i \in New}
  BY <1>2 DEF TargetsOf
<1>5. CASE implBlock = <<"platform", d>> /\ kind = "target"
  <2>1. New = Old \cup {n + 1}
    BY <1>2, <1>5
  <2>2. \A i \in Old : implText'[i].value[1] = implText[i].value[1]
    BY <1>2
  <2> QED BY <1>2, <1>3, <1>4, <1>5, <2>1, <2>2
<1>6. CASE ~(implBlock = <<"platform", d>> /\ kind = "target")
  <2>1. New = Old
    <3>1. n + 1 \notin New
      BY <1>2, <1>6
    <3>2. \A j \in 1..n : j \in New <=> j \in Old
      BY <1>2
    <3>3. \A j \in 1..(n + 1) : j \in 1..n \/ j = n + 1
      OBVIOUS
    <3>4. New \subseteq 1..(n + 1) /\ Old \subseteq 1..n
      OBVIOUS
    <3> HIDE DEF New, Old
    <3> QED BY <3>1, <3>2, <3>3, <3>4
  <2>2. \A i \in Old : implText'[i].value[1] = implText[i].value[1]
    BY <1>2
  <2> QED BY <1>3, <1>4, <1>6, <2>1, <2>2
<1> QED BY <1>5, <1>6

\* What a line makes of openings and of the platforms that are open.
LEMMA OpeningsGrow ==
  ASSUME ImplInv, NEW kind \in LineKinds, NEW value \in Seq(Platforms \cup STRING),
         ReadsImpl(kind, value), NEW n \in Nat, n = Len(implText)
  PROVE  /\ \A i \in 1..n : OpensList(i)' <=> OpensList(i)
         /\ \A i \in 1..(n + 1) : OpenAt(i)' <=> OpenAt(i)
         /\ OpensList(n + 1)' <=> kind = "simd"
         /\ OpenAt(n + 2)' <=> (OpenAt(n + 1) /\ kind # "close") \/ kind = "platformOnOneLine"
<1>1. n = Len(implText)
  OBVIOUS
<1>2. /\ Len(implText') = n + 1
      /\ \A i \in 1..n : implText'[i] = implText[i]
      /\ implText'[n + 1].kind = kind
  BY <1>1, ImplTextGrows
<1>3. \A i \in 1..n : OpensList(i)' <=> OpensList(i)
  BY <1>1, <1>2 DEF OpensList
<1>4. ASSUME NEW i \in 1..(n + 1) PROVE OpenAt(i)' <=> OpenAt(i)
  <2>1. ASSUME NEW p \in 1..n, p < i
        PROVE  (\A j \in p..(i - 1) : implText'[j].kind # "close")
                 <=> (\A j \in p..(i - 1) : implText[j].kind # "close")
    <3>1. \A j \in p..(i - 1) : implText'[j] = implText[j]
      BY <1>2
    <3> QED BY <3>1
  <2>2. OpenAt(i) <=> \E p \in 1..n : /\ p < i /\ implText[p].kind = "platformOnOneLine"
                                      /\ \A j \in p..(i - 1) : implText[j].kind # "close"
    BY <1>1 DEF OpenAt
  <2>3. OpenAt(i)' <=> \E p \in 1..n : /\ p < i /\ implText'[p].kind = "platformOnOneLine"
                                       /\ \A j \in p..(i - 1) : implText'[j].kind # "close"
    <3>1. \A p \in 1..(n + 1) : p < i => p \in 1..n
      OBVIOUS
    <3>2. OpenAt(i)' <=> \E p \in 1..(n + 1) : /\ p < i /\ implText'[p].kind = "platformOnOneLine"
                                               /\ \A j \in p..(i - 1) : implText'[j].kind # "close"
      BY <1>2 DEF OpenAt
    <3> QED BY <3>1, <3>2
  <2> QED BY <1>2, <2>1, <2>2, <2>3
<1>5. OpensList(n + 1)' <=> kind = "simd"
  <2>1. OpensList(n + 1)' <=> n + 1 \in 1..(n + 1) /\ implText'[n + 1].kind = "simd"
    BY <1>1, <1>2 DEF OpensList
  <2> QED BY <1>2, <2>1
<1>6. OpenAt(n + 2)' <=> (OpenAt(n + 1) /\ kind # "close") \/ kind = "platformOnOneLine"
  <2>1. OpenAt(n + 2)' <=>
          \E p \in 1..(n + 1) : /\ p < n + 2 /\ implText'[p].kind = "platformOnOneLine"
                                /\ \A j \in p..(n + 2 - 1) : implText'[j].kind # "close"
    BY <1>2 DEF OpenAt
  <2>2. OpenAt(n + 1) <=>
          \E p \in 1..n : /\ p < n + 1 /\ implText[p].kind = "platformOnOneLine"
                          /\ \A j \in p..(n + 1 - 1) : implText[j].kind # "close"
    BY <1>1 DEF OpenAt
  <2>3. ASSUME OpenAt(n + 2)', kind # "platformOnOneLine" PROVE OpenAt(n + 1) /\ kind # "close"
    <3>1. PICK p \in 1..(n + 1) : /\ implText'[p].kind = "platformOnOneLine"
                                  /\ \A j \in p..(n + 2 - 1) : implText'[j].kind # "close"
      BY <2>1, <2>3
    <3>2. p \in 1..n
      BY <1>2, <2>3, <3>1
    <3>3. implText'[n + 1].kind # "close" /\ implText[p].kind = "platformOnOneLine"
      BY <1>2, <3>1, <3>2
    <3>4. \A j \in p..(n + 1 - 1) : implText[j].kind # "close"
      <4> TAKE j \in p..(n + 1 - 1)
      <4>1. j \in 1..n /\ j \in p..(n + 2 - 1)
        BY <3>2
      <4> QED BY <1>2, <3>1, <4>1
    <3> QED BY <1>2, <2>2, <3>2, <3>3, <3>4
  <2>4. ASSUME OpenAt(n + 1), kind # "close" PROVE OpenAt(n + 2)'
    <3>1. PICK p \in 1..n : /\ implText[p].kind = "platformOnOneLine"
                            /\ \A j \in p..(n + 1 - 1) : implText[j].kind # "close"
      BY <2>2, <2>4
    <3>2. \A j \in p..(n + 2 - 1) : implText'[j].kind # "close"
      <4> TAKE j \in p..(n + 2 - 1)
      <4>1. CASE j = n + 1
        BY <1>2, <2>4, <4>1
      <4>2. CASE j # n + 1
        <5>1. j \in 1..n /\ j \in p..(n + 1 - 1)
          BY <4>2
        <5> QED BY <1>2, <3>1, <5>1
      <4> QED BY <4>1, <4>2
    <3>3. p \in 1..(n + 1) /\ p < n + 2 /\ implText'[p].kind = "platformOnOneLine"
      BY <1>2, <3>1
    <3> QED BY <2>1, <3>2, <3>3
  <2>5. ASSUME kind = "platformOnOneLine" PROVE OpenAt(n + 2)'
    <3>1. \A j \in (n + 1)..(n + 2 - 1) : implText'[j].kind # "close"
      <4>1. \A j \in (n + 1)..(n + 2 - 1) : j = n + 1
        OBVIOUS
      <4> QED BY <1>2, <2>5, <4>1
    <3>2. n + 1 \in 1..(n + 1) /\ n + 1 < n + 2
      OBVIOUS
    <3> QED BY <1>2, <2>1, <2>5, <3>1, <3>2
  <2> QED BY <2>3, <2>4, <2>5
<1> QED BY <1>3, <1>4, <1>5, <1>6

-----------------------------------------------------------------------------
(* The steps. *)

LEMMA ImplTypes ==
  ASSUME ImplInv
  PROVE  /\ dispatches \in Seq(Seq(TargetNames)) /\ Len(dispatches) \in Nat
         /\ Len(dispatches) <= MaxDispatches /\ Len(simdTargets) <= MaxSimdTargets
         /\ \A d \in 1..Len(dispatches) : Len(dispatches[d]) <= MaxPlatforms
         /\ simdTargets \in Seq(STRING) /\ simdListed \in Seq(STRING)
         /\ implOpen \in SUBSET {"platform", "simd"} /\ implBlock \in ImplBlocks
         /\ implPhase \in {"spec", "wild", "built"}
         /\ MaxDispatches \in Nat /\ MaxPlatforms \in Nat /\ MaxSimdTargets \in Nat
BY PlatformsAssumption DEF ImplInv, ImplTyped

\* A line of an array's block, and the blocks of the text.
LEMMA BlocksOfTextFit ==
  ASSUME ImplInv, NEW kind \in LineKinds, NEW value \in Seq(Platforms \cup STRING),
         ReadsImpl(kind, value), Len(dispatches') \in Nat, Len(dispatches') >= Len(dispatches)
  PROVE  \A i \in 1..Len(implText') :
           implText'[i].in[1] = "platform" => implText'[i].in[2] <= Len(dispatches')
<1>1. PICK n \in Nat : n = Len(implText)
  BY ImplTextGrows
<1>2. /\ Len(implText') = n + 1 /\ implText' \in Seq(ImplLine)
      /\ \A i \in 1..n : implText'[i] = implText[i]
      /\ implText'[n + 1].in = implBlock
  BY <1>1, ImplTextGrows
<1> SUFFICES ASSUME NEW i \in 1..(n + 1), implText'[i].in[1] = "platform"
             PROVE  implText'[i].in[2] <= Len(dispatches')
  BY <1>2
<1>3. implText'[i].in[2] \in Nat
  <2>1. implText'[i] \in ImplLine
    BY <1>2
  <2>2. implText'[i].in \in ImplBlocks
    BY <2>1 DEF ImplLine
  <2> QED BY <2>2 DEF ImplBlocks
<1>4. CASE i \in 1..n
  <2>1. implText[i].in[2] <= Len(dispatches)
    BY <1>1, <1>2, <1>4 DEF ImplInv, ImplBlockFits
  <2> QED BY <1>2, <1>3, <1>4, <2>1, ImplTypes
<1>5. CASE i = n + 1
  <2>1. implText'[i].in = <<"platform", Len(dispatches)>>
    BY <1>2, <1>5 DEF ImplInv, ImplBlockFits
  <2> QED BY <2>1, ImplTypes
<1> QED BY <1>4, <1>5

\* A line that is no target leaves the targets of the platforms that stay.
LEMMA TargetsStay ==
  ASSUME ImplInv, NEW kind \in LineKinds, NEW value \in Seq(Platforms \cup STRING),
         ReadsImpl(kind, value), kind # "target",
         NEW d \in 1..Len(dispatches), dispatches'[d] = dispatches[d],
         implBlock' # <<"platform", d>>
  PROVE  /\ TargetsOf(d)' = TargetsOf(d)
         /\ TargetsOf(d)' # {} \/ implBlock' = <<"platform", d>> =>
              ToSet(dispatches'[d]) = TargetsOf(d)'
<1>1. d \in Nat /\ implPhase = "spec"
  BY ImplTypes, ImplTextGrows
<1>2. TargetsOf(d)' = TargetsOf(d)
  BY <1>1, TargetsGrow
<1> QED BY <1>1, <1>2 DEF ImplInv, TargetsFit

\* What SIMD has come to is not touched.
LEMMA SimdStays ==
  ASSUME ImplInv, NEW kind \in LineKinds, NEW value \in Seq(Platforms \cup STRING),
         ReadsImpl(kind, value), kind # "simd", simdTargets' = simdTargets,
         simdListed' = simdListed, implBlock'[1] # "simd",
         implBlock'[1] = "none" /\ implPhase' = "spec" =>
           ("platform" \in implOpen' <=> OpenAt(Len(implText) + 1)')
  PROVE  SimdFits'
<1>1. PICK n \in Nat : n = Len(implText)
  BY ImplTextGrows
<1>2. Len(implText') = n + 1
  BY <1>1, ImplTextGrows
<1>3. /\ \A i \in 1..n : /\ OpensList(i)' <=> OpensList(i)
                         /\ OpenAt(i)' <=> OpenAt(i)
      /\ ~OpensList(n + 1)'
  BY <1>1, OpeningsGrow
<1>4. \A i \in 1..(n + 1) : LastOpening(i)' <=> i \in 1..n /\ LastOpening(i)
  BY <1>1, <1>2, <1>3 DEF LastOpening
<1>5. (\E i \in 1..Len(implText') : LastOpening(i)' /\ OpenAt(i)')
        <=> (\E i \in 1..n : LastOpening(i) /\ OpenAt(i))
  BY <1>2, <1>3, <1>4
<1>6. simdTargets' = IF \E i \in 1..Len(implText') : LastOpening(i)' /\ OpenAt(i)' THEN <<>>
                     ELSE Truncated(MaxSimdTargets, simdListed')
  BY <1>1, <1>5 DEF ImplInv, SimdFits
<1>7. (\A i \in 1..Len(implText') : ~OpensList(i)') => simdListed' = <<>>
  BY <1>1, <1>2, <1>3 DEF ImplInv, SimdFits
<1> QED BY <1>6, <1>7 DEF SimdFits

LEMMA EmptyValue == <<>> \in Seq(Platforms \cup STRING)
OBVIOUS

LEMMA PlatformLineStep ==
  ASSUME ImplInv, NEW oneLine \in BOOLEAN, PlatformLine(oneLine)
  PROVE  ImplInv'
<1>1. PICK n \in Nat, k \in Nat : n = Len(implText) /\ k = Len(dispatches)
  BY ImplTypes DEF ImplInv, ImplTyped
<1>2. PICK kind \in LineKinds, value \in Seq(Platforms \cup STRING) :
        /\ ReadsImpl(kind, value)
        /\ kind = IF oneLine THEN "platformOnOneLine" ELSE "platform"
  <2> DEFINE kind == IF oneLine THEN "platformOnOneLine" ELSE "platform"
  <2>1. ReadsImpl(kind, <<>>)
    BY Zenon DEF PlatformLine
  <2>2. kind \in LineKinds
    BY DEF LineKinds
  <2> QED BY <2>1, <2>2, EmptyValue, Zenon
<1>3. kind # "simd" /\ kind # "target" /\ kind # "close"
  BY <1>2
<1>4. /\ implBlock = NoImplBlock /\ implBlock = <<"none", 0>> /\ simdTargets' = simdTargets
      /\ simdListed' = simdListed /\ build' = build
  BY DEF PlatformLine, ReadsImpl, NoImplBlock
<1>5. /\ implPhase = "spec" /\ Len(implText') = n + 1 /\ implText' \in Seq(ImplLine)
      /\ n + 1 + 1 = n + 2
  BY <1>1, <1>2, <1>3, ImplTextGrows
<1>6. "platform" \in implOpen <=> OpenAt(n + 1)
  BY <1>1, <1>4, <1>5 DEF ImplInv, SimdFits
<1>7. OpenAt(n + 2)' <=> (OpenAt(n + 1) /\ kind # "close") \/ kind = "platformOnOneLine"
  BY <1>1, <1>2, <1>3, OpeningsGrow
<1>8. CASE k >= MaxDispatches
  <2>1. /\ dispatches' = dispatches /\ implOpen' = implOpen /\ implBlock' = implBlock
        /\ implPhase' = "wild"
    BY <1>1, <1>8 DEF PlatformLine
  <2>2. ImplTyped'
    BY <1>4, <1>5, <2>1 DEF ImplInv, ImplTyped
  <2>3. ImplBlockFits'
    <3>1. Len(dispatches') \in Nat /\ Len(dispatches') >= Len(dispatches)
      BY <2>1, ImplTypes
    <3>2. \A i \in 1..Len(implText') :
            implText'[i].in[1] = "platform" => implText'[i].in[2] <= Len(dispatches')
      BY <1>2, <3>1, BlocksOfTextFit
    <3> QED BY <2>1, <3>2 DEF ImplInv, ImplBlockFits
  <2>4. SimdFits'
    <3>1. implBlock'[1] # "simd" /\ implPhase' # "spec"
      BY <1>4, <2>1
    <3> QED BY <1>2, <1>3, <1>4, <3>1, SimdStays
  <2> QED BY <2>1, <2>2, <2>3, <2>4 DEF ImplInv
<1>9. CASE ~(k >= MaxDispatches)
  <2>1. /\ dispatches' = Append(dispatches, <<>>)
        /\ implOpen' = implOpen \cup {"platform"}
        /\ implBlock' = IF oneLine THEN NoImplBlock ELSE <<"platform", k + 1>>
        /\ implPhase' = "spec"
    BY <1>1, <1>5, <1>9 DEF PlatformLine, ImplBlockAfter
  <2>2. <<>> \in Seq(TargetNames)
    OBVIOUS
  <2>3. /\ dispatches' \in Seq(Seq(TargetNames)) /\ Len(dispatches') = k + 1
        /\ \A d \in 1..k : dispatches'[d] = dispatches[d]
        /\ dispatches'[k + 1] = <<>> /\ k + 1 <= MaxDispatches
    BY <1>1, <1>9, <2>1, <2>2, Appended, ImplTypes
  <2>4. implBlock' \in ImplBlocks
    BY <1>1, <2>1 DEF ImplBlocks, NoImplBlock
  <2>5. \A d \in 1..Len(dispatches') : Len(dispatches'[d]) <= MaxPlatforms
    <3> SUFFICES ASSUME NEW d \in 1..(k + 1) PROVE Len(dispatches'[d]) <= MaxPlatforms
      BY <2>3
    <3>1. CASE d \in 1..k
      BY <1>1, <2>3, <3>1, ImplTypes
    <3>2. CASE d = k + 1
      BY <2>3, <3>2, ImplTypes
    <3> QED BY <3>1, <3>2
  <2>6. ImplTyped'
    BY <1>4, <1>5, <2>1, <2>3, <2>4, <2>5 DEF ImplInv, ImplTyped
  <2>7. ImplBlockFits'
    <3>1. \A i \in 1..Len(implText') :
            implText'[i].in[1] = "platform" => implText'[i].in[2] <= Len(dispatches')
      <4>1. Len(dispatches') \in Nat /\ Len(dispatches') >= Len(dispatches)
        BY <1>1, <2>3
      <4> QED BY <1>2, <4>1, BlocksOfTextFit
    <3>2. implBlock'[1] = "none" => implBlock' = NoImplBlock
      BY <2>1 DEF NoImplBlock
    <3>3. implBlock'[1] = "platform" => /\ implBlock' = <<"platform", Len(dispatches')>>
                                        /\ "platform" \in implOpen'
      BY <2>1, <2>3 DEF NoImplBlock
    <3>4. Len(dispatches') > 0
      BY <2>3
    <3> QED BY <3>1, <3>2, <3>3, <3>4 DEF ImplBlockFits
  <2>8. ASSUME NEW d \in 1..k
        PROVE  TargetsOf(d)' # {} \/ implBlock' = <<"platform", d>> =>
                 ToSet(dispatches'[d]) = TargetsOf(d)'
    <3>1. implBlock' # <<"platform", d>> /\ d \in 1..Len(dispatches)
      BY <1>1, <2>1 DEF NoImplBlock
    <3> QED BY <1>2, <1>3, <2>3, <3>1, TargetsStay
  <2>9. TargetsOf(k + 1)' = {}
    <3>1. TargetsOf(k + 1) = {}
      <4>1. DOMAIN implText = 1..n
        BY <1>1 DEF ImplInv, ImplTyped
      <4>2. \A i \in 1..n : implText[i].in # <<"platform", k + 1>>
        <5> SUFFICES ASSUME NEW i \in 1..n, implText[i].in = <<"platform", k + 1>> PROVE FALSE
          OBVIOUS
        <5>1. implText[i].in[1] = "platform" /\ implText[i].in[2] = k + 1
          OBVIOUS
        <5> QED BY <1>1, <5>1 DEF ImplInv, ImplBlockFits
      <4> QED BY <4>1, <4>2 DEF TargetsOf
    <3> QED BY <1>2, <1>3, <3>1, TargetsGrow
  <2>10. TargetsFit'
    <3>1. ToSet(dispatches'[k + 1]) = {}
      BY <2>3 DEF ToSet
    <3>2. \A d \in 1..(k + 1) : d \in 1..k \/ d = k + 1
      OBVIOUS
    <3> QED BY <2>3, <2>8, <2>9, <3>1, <3>2 DEF TargetsFit
  <2>11. SimdFits'
    <3>1. implBlock'[1] # "simd"
      BY <2>1 DEF NoImplBlock
    <3>2. implBlock'[1] = "none" => OpenAt(n + 2)'
      BY <1>2, <1>7, <2>1
    <3>3. Len(implText') + 1 = n + 2
      BY <1>5
    <3>4. implBlock'[1] = "none" => ("platform" \in implOpen' <=> OpenAt(Len(implText) + 1)')
      BY <2>1, <3>2, <3>3
    <3> QED BY <1>2, <1>3, <1>4, <3>1, <3>4, SimdStays
  <2> QED BY <2>6, <2>7, <2>10, <2>11 DEF ImplInv
<1> QED BY <1>8, <1>9

LEMMA ImplBraceLineStep == ImplInv /\ ImplBraceLine => ImplInv'
<1> SUFFICES ASSUME ImplInv, ImplBraceLine PROVE ImplInv'
  OBVIOUS
<1>1. PICK n \in Nat : n = Len(implText)
  BY DEF ImplInv, ImplTyped
<1>2. PICK kind \in LineKinds, value \in Seq(Platforms \cup STRING) :
        ReadsImpl(kind, value) /\ kind = "close"
  <2>1. ReadsImpl("close", <<>>)
    BY Zenon DEF ImplBraceLine
  <2>2. "close" \in LineKinds
    BY DEF LineKinds
  <2> QED BY <2>1, <2>2, EmptyValue, Zenon
<1>8. /\ implOpen' = {} /\ implBlock' = <<"none", 0>> /\ implBlock' = NoImplBlock
      /\ UNCHANGED <<dispatches, simdTargets, simdListed, implPhase, build>>
  BY DEF ImplBraceLine, ReadsImpl, NoImplBlock
<1>3. implPhase = "spec" /\ Len(implText') = n + 1 /\ implText' \in Seq(ImplLine)
  BY <1>1, <1>2, <1>8, ImplTextGrows
<1>4. ImplTyped'
  BY <1>2, <1>8, <1>3 DEF ImplInv, ImplTyped, ImplBlocks
<1>5. ImplBlockFits'
  <2>1. Len(dispatches') \in Nat /\ Len(dispatches') >= Len(dispatches)
    BY <1>8, ImplTypes
  <2>2. \A i \in 1..Len(implText') :
          implText'[i].in[1] = "platform" => implText'[i].in[2] <= Len(dispatches')
    BY <1>2, <2>1, BlocksOfTextFit
  <2> QED BY <1>8, <2>2 DEF ImplBlockFits
<1>6. TargetsFit'
  <2> SUFFICES ASSUME NEW d \in 1..Len(dispatches)
               PROVE  TargetsOf(d)' # {} \/ implBlock' = <<"platform", d>> =>
                        ToSet(dispatches'[d]) = TargetsOf(d)'
    BY <1>2, <1>8 DEF TargetsFit
  <2>1. implBlock' # <<"platform", d>> /\ dispatches'[d] = dispatches[d] /\ kind # "target"
    BY <1>2, <1>8
  <2> QED BY <1>2, <2>1, TargetsStay
<1>7. SimdFits'
  <2>1. OpenAt(n + 2)' <=> FALSE
    BY <1>1, <1>2, <1>8, OpeningsGrow
  <2>2. Len(implText') + 1 = n + 2
    BY <1>3
  <2>3. kind # "simd" /\ implBlock'[1] # "simd"
    BY <1>2, <1>8
  <2>4. "platform" \in implOpen' <=> OpenAt(Len(implText) + 1)'
    BY <1>8, <2>1, <2>2
  <2> QED BY <1>2, <1>8, <2>3, <2>4, SimdStays
<1> QED BY <1>4, <1>5, <1>6, <1>7 DEF ImplInv

LEMMA SimdLineStep ==
  ASSUME ImplInv, NEW oneLine \in BOOLEAN, SimdLine(oneLine)
  PROVE  ImplInv'
<1>1. PICK n \in Nat : n = Len(implText)
  BY DEF ImplInv, ImplTyped
<1>2. PICK kind \in LineKinds, value \in Seq(Platforms \cup STRING) :
        ReadsImpl(kind, value) /\ kind = "simd"
  <2>1. ReadsImpl("simd", <<>>)
    BY Zenon DEF SimdLine
  <2>2. "simd" \in LineKinds
    BY DEF LineKinds
  <2> QED BY <2>1, <2>2, EmptyValue, Zenon
<1>3. /\ implBlock = <<"none", 0>> /\ simdTargets' = <<>> /\ simdListed' = <<>>
      /\ implOpen' = implOpen \cup {"simd"}
      /\ implBlock' = IF oneLine THEN <<"none", 0>> ELSE <<"simd", n + 1>>
      /\ UNCHANGED <<dispatches, implPhase, build>>
  BY <1>1 DEF SimdLine, ReadsImpl, NoImplBlock, ImplBlockAfter
<1>4. implPhase = "spec" /\ Len(implText') = n + 1 /\ implText' \in Seq(ImplLine)
  BY <1>1, <1>2, ImplTextGrows
<1>5. ImplTyped'
  <2>1. implBlock' \in ImplBlocks
    BY <1>3 DEF ImplBlocks
  <2>2. simdTargets' \in Seq(STRING) /\ simdListed' \in Seq(STRING)
        /\ Len(simdTargets') <= MaxSimdTargets
    BY <1>3, ImplTypes
  <2> QED BY <1>3, <1>4, <2>1, <2>2 DEF ImplInv, ImplTyped
<1>6. ImplBlockFits'
  <2>1. Len(dispatches') \in Nat /\ Len(dispatches') >= Len(dispatches)
    BY <1>3, ImplTypes
  <2>2. \A i \in 1..Len(implText') :
          implText'[i].in[1] = "platform" => implText'[i].in[2] <= Len(dispatches')
    BY <1>2, <2>1, BlocksOfTextFit
  <2> QED BY <1>3, <2>2 DEF ImplInv, ImplBlockFits, NoImplBlock
<1>7. TargetsFit'
  <2>1. \A d \in 1..Len(dispatches) :
          /\ TargetsOf(d)' = TargetsOf(d)
          /\ TargetsOf(d)' # {} \/ implBlock' = <<"platform", d>> =>
               ToSet(dispatches'[d]) = TargetsOf(d)'
    <3> SUFFICES ASSUME NEW d \in 1..Len(dispatches)
                 PROVE  /\ TargetsOf(d)' = TargetsOf(d)
                        /\ TargetsOf(d)' # {} \/ implBlock' = <<"platform", d>> =>
                             ToSet(dispatches'[d]) = TargetsOf(d)'
      OBVIOUS
    <3>1. implBlock' # <<"platform", d>> /\ dispatches'[d] = dispatches[d] /\ kind # "target"
      BY <1>2, <1>3
    <3> QED BY <1>2, <3>1, TargetsStay
  <2>2. "platform" \in implOpen => /\ Len(dispatches) \in 1..Len(dispatches)
                                   /\ TargetsOf(Len(dispatches)) = {}
    BY <1>3, <1>4, ImplTypes DEF ImplInv, TargetsFit, ImplBlockFits
  <2>3. "platform" \in implOpen' => TargetsOf(Len(dispatches))' = {}
    <3>1. PICK k \in Nat : k = Len(dispatches) /\ k = Len(dispatches')
      BY <1>3, ImplTypes
    <3>2. "platform" \in implOpen => TargetsOf(k)' = {}
      BY <2>1, <2>2, <3>1
    <3> QED BY <1>3, <3>1, <3>2
  <2> QED BY <1>3, <2>1, <2>3 DEF TargetsFit
<1>8. SimdFits'
  <2>1. /\ \A i \in 1..n : OpensList(i)' <=> OpensList(i)
        /\ OpenAt(n + 1)' <=> OpenAt(n + 1)
        /\ OpensList(n + 1)'
        /\ OpenAt(n + 2)' <=> OpenAt(n + 1)
    BY <1>1, <1>2, OpeningsGrow
  <2>2. "platform" \in implOpen' <=> OpenAt(n + 1)
    BY <1>1, <1>3, <1>4 DEF ImplInv, SimdFits
  <2>3. LastOpening(n + 1)'
    BY <1>4, <2>1 DEF LastOpening
  <2>4. implBlock'[1] = "simd" => implBlock'[2] = n + 1
    BY <1>3
  <2>5. Len(implText') + 1 = n + 2
    BY <1>4
  <2>6. simdTargets' = Truncated(MaxSimdTargets, simdListed')
    BY <1>3, ImplTypes, CutOfNothing
  <2>7. implBlock'[1] = "none" /\ implPhase' = "spec" =>
          ("platform" \in implOpen' <=> OpenAt(Len(implText) + 1)')
    BY <2>1, <2>2, <2>5
  <2>8. implBlock'[1] = "simd" =>
          /\ LastOpening(implBlock[2])'
          /\ "platform" \in implOpen' <=> OpenAt(implBlock[2])'
    BY <2>1, <2>2, <2>3, <2>4
  <2> QED BY <1>3, <2>6, <2>7, <2>8 DEF SimdFits
<1> QED BY <1>5, <1>6, <1>7, <1>8 DEF ImplInv

\* What a target that is taken does to the platforms.
LEMMA TargetTaken ==
  ASSUME ImplInv, "platform" \in implOpen, NEW name \in TargetNames, AddTarget(name),
         implPhase = "spec"
  PROVE  /\ dispatches' \in Seq(Seq(TargetNames)) /\ Len(dispatches') = Len(dispatches)
         /\ \A d \in 1..Len(dispatches) : Len(dispatches'[d]) <= MaxPlatforms
         /\ \A d \in 1..Len(dispatches) :
              d # Len(dispatches) => dispatches'[d] = dispatches[d]
         /\ implPhase' \in {"spec", "wild"}
         /\ implPhase' = "spec" => ToSet(dispatches'[Len(dispatches)])
                                     = ToSet(dispatches[Len(dispatches)]) \cup {name}
<1>1. PICK k \in Nat : k = Len(dispatches) /\ k > 0
  BY ImplTypes DEF ImplInv, ImplBlockFits
<1>2. k \in 1..k /\ dispatches[k] \in Seq(TargetNames) /\ Len(dispatches[k]) \in Nat
  BY <1>1, ImplTypes
<1>3. CASE Len(dispatches[k]) >= MaxPlatforms
  BY <1>1, <1>3, ImplTypes DEF AddTarget
<1>4. CASE ~(Len(dispatches[k]) >= MaxPlatforms)
  <2>1. /\ dispatches' = [dispatches EXCEPT ![k] = Append(@, name)] /\ implPhase' = "spec"
    BY <1>1, <1>4 DEF AddTarget
  <2>2. PICK new \in Seq(TargetNames) : new = Append(dispatches[k], name)
    <3>1. Append(dispatches[k], name) \in Seq(TargetNames)
      BY <1>2, Appended
    <3> QED BY <3>1, Zenon
  <2>3. /\ Len(new) = Len(dispatches[k]) + 1 /\ DOMAIN new = 1..(Len(dispatches[k]) + 1)
        /\ DOMAIN dispatches[k] = 1..Len(dispatches[k])
        /\ \A i \in 1..Len(dispatches[k]) : new[i] = dispatches[k][i]
        /\ new[Len(dispatches[k]) + 1] = name
    BY <1>2, <2>2, Appended
  <2>4. dispatches' = [dispatches EXCEPT ![k] = new]
    BY <1>1, <1>2, <2>1, <2>2, ImplTypes
  <2>5. /\ dispatches' \in Seq(Seq(TargetNames)) /\ Len(dispatches') = k
        /\ dispatches'[k] = new
        /\ \A d \in 1..k : d # k => dispatches'[d] = dispatches[d]
    BY <1>1, <1>2, <2>2, <2>4, ReplacedAt, ImplTypes
  <2>6. ToSet(new) = ToSet(dispatches[k]) \cup {name}
    <3>1. \A i \in 1..(Len(dispatches[k]) + 1) :
            i \in 1..Len(dispatches[k]) \/ i = Len(dispatches[k]) + 1
      BY <1>2
    <3>2. \A x \in ToSet(new) : x \in ToSet(dispatches[k]) \cup {name}
      BY <2>3, <3>1 DEF ToSet
    <3>3. \A x \in ToSet(dispatches[k]) : x \in ToSet(new)
      <4>1. 1..Len(dispatches[k]) \subseteq 1..(Len(dispatches[k]) + 1)
        BY <1>2
      <4> QED BY <2>3, <4>1 DEF ToSet
    <3>4. name \in ToSet(new)
      <4>1. Len(dispatches[k]) + 1 \in 1..(Len(dispatches[k]) + 1)
        BY <1>2
      <4> QED BY <2>3, <4>1 DEF ToSet
    <3> QED BY <3>2, <3>3, <3>4
  <2>7. \A d \in 1..k : Len(dispatches'[d]) <= MaxPlatforms
    <3> SUFFICES ASSUME NEW d \in 1..k PROVE Len(dispatches'[d]) <= MaxPlatforms
      OBVIOUS
    <3>1. CASE d = k
      BY <1>2, <1>4, <2>3, <2>5, <3>1, ImplTypes
    <3>2. CASE d # k
      BY <1>1, <2>5, <3>2, ImplTypes
    <3> QED BY <3>1, <3>2
  <2> QED BY <1>1, <2>1, <2>5, <2>6, <2>7
<1> QED BY <1>1, <1>2, <1>3, <1>4, ImplTypes

LEMMA TargetLineStep ==
  ASSUME ImplInv, NEW name \in Platforms, TargetLine(name)
  PROVE  ImplInv'
<1>1. PICK n \in Nat, k \in Nat : n = Len(implText) /\ k = Len(dispatches)
  BY ImplTypes DEF ImplInv, ImplTyped
<1>2. PICK kind \in LineKinds, value \in Seq(Platforms \cup STRING) :
        ReadsImpl(kind, value) /\ kind = "target" /\ value[1] = name
  <2>1. ReadsImpl("target", <<name>>)
    BY Zenon DEF TargetLine
  <2>2. "target" \in LineKinds
    BY DEF LineKinds
  <2>3. <<name>> \in Seq(Platforms \cup STRING) /\ <<name>>[1] = name
    OBVIOUS
  <2> QED BY <2>1, <2>2, <2>3, Zenon
<1>3. /\ AddTarget(name) /\ name \in TargetNames /\ implBlock[1] = "platform"
      /\ UNCHANGED <<simdTargets, simdListed, implOpen, implBlock, build>>
  BY DEF TargetLine, ReadsImpl, TargetNames
<1>4. implPhase = "spec" /\ Len(implText') = n + 1 /\ implText' \in Seq(ImplLine)
  BY <1>1, <1>2, ImplTextGrows
<1>5. implBlock = <<"platform", k>> /\ "platform" \in implOpen /\ k \in 1..k
  BY <1>1, <1>3 DEF ImplInv, ImplBlockFits
<1>6. /\ dispatches' \in Seq(Seq(TargetNames)) /\ Len(dispatches') = k
      /\ \A d \in 1..k : Len(dispatches'[d]) <= MaxPlatforms
      /\ \A d \in 1..k : d # k => dispatches'[d] = dispatches[d]
      /\ implPhase' \in {"spec", "wild"}
      /\ implPhase' = "spec" => ToSet(dispatches'[k]) = ToSet(dispatches[k]) \cup {name}
  BY <1>1, <1>3, <1>4, <1>5, TargetTaken
<1>7. ImplTyped'
  BY <1>1, <1>3, <1>4, <1>6 DEF ImplInv, ImplTyped
<1>8. ImplBlockFits'
  <2>1. Len(dispatches') \in Nat /\ Len(dispatches') >= Len(dispatches)
    BY <1>1, <1>6
  <2>2. \A i \in 1..Len(implText') :
          implText'[i].in[1] = "platform" => implText'[i].in[2] <= Len(dispatches')
    BY <1>2, <2>1, BlocksOfTextFit
  <2> QED BY <1>1, <1>3, <1>5, <1>6, <2>2 DEF ImplInv, ImplBlockFits
<1>9. implPhase' # "wild" => TargetsFit'
  <2> SUFFICES ASSUME implPhase' # "wild", NEW d \in 1..k
               PROVE  TargetsOf(d)' # {} \/ implBlock' = <<"platform", d>> =>
                        ToSet(dispatches'[d]) = TargetsOf(d)'
    BY <1>3, <1>6 DEF TargetsFit
  <2>1. CASE d = k
    <3>1. TargetsOf(d)' = TargetsOf(d) \cup {name}
      BY <1>2, <1>5, <2>1, TargetsGrow
    <3>2. ToSet(dispatches[d]) = TargetsOf(d)
      BY <1>1, <1>4, <1>5, <2>1 DEF ImplInv, TargetsFit
    <3> QED BY <1>6, <2>1, <3>1, <3>2
  <2>2. CASE d # k
    <3>1. implBlock # <<"platform", d>>
      BY <1>5, <2>2
    <3>2. TargetsOf(d)' = TargetsOf(d)
      BY <1>2, <3>1, TargetsGrow
    <3>3. TargetsOf(d) # {} => ToSet(dispatches[d]) = TargetsOf(d)
      BY <1>1, <1>4 DEF ImplInv, TargetsFit
    <3> QED BY <1>3, <1>6, <2>2, <3>1, <3>2, <3>3
  <2> QED BY <2>1, <2>2
<1>10. SimdFits'
  <2>1. kind # "simd" /\ implBlock'[1] # "simd" /\ implBlock'[1] # "none"
    BY <1>2, <1>3
  <2> QED BY <1>2, <1>3, <2>1, SimdStays
<1> QED BY <1>7, <1>8, <1>9, <1>10 DEF ImplInv

\* A line of the SIMD block: its block stays the last, and what is kept is cut once more.
LEMMA SimdGrows ==
  ASSUME ImplInv, NEW kind \in LineKinds, NEW value \in Seq(Platforms \cup STRING),
         ReadsImpl(kind, value), kind = "simdLine", implBlock[1] = "simd",
         implBlock' = implBlock, implOpen' = implOpen,
         NEW listed \in Seq(STRING), simdListed' = simdListed \o listed,
         simdTargets' = IF "platform" \in implOpen THEN simdTargets
                        ELSE Truncated(MaxSimdTargets, simdTargets \o listed)
  PROVE  SimdFits'
<1>1. PICK n \in Nat : n = Len(implText)
  BY ImplTextGrows
<1>2. Len(implText') = n + 1
  BY <1>1, ImplTextGrows
<1>3. /\ \A i \in 1..n : /\ OpensList(i)' <=> OpensList(i)
                         /\ OpenAt(i)' <=> OpenAt(i)
      /\ ~OpensList(n + 1)'
  BY <1>1, OpeningsGrow
<1>4. \A i \in 1..(n + 1) : LastOpening(i)' <=> i \in 1..n /\ LastOpening(i)
  BY <1>1, <1>2, <1>3 DEF LastOpening
<1>5. PICK i \in 1..n : /\ i = implBlock[2] /\ LastOpening(i)
                        /\ "platform" \in implOpen <=> OpenAt(i)
  BY <1>1 DEF ImplInv, SimdFits, LastOpening, OpensList
<1>6. \A j \in 1..n : LastOpening(j) => j = i
  BY <1>1, <1>5 DEF LastOpening
<1>7. i \in 1..(n + 1)
  OBVIOUS
<1>8. LastOpening(i)' /\ ("platform" \in implOpen' <=> OpenAt(i)') /\ OpensList(i)'
  BY <1>3, <1>4, <1>5, <1>7 DEF LastOpening
<1>9. (\E j \in 1..n : LastOpening(j) /\ OpenAt(j)) <=> OpenAt(i)
  BY <1>5, <1>6
<1>10. (\E j \in 1..(n + 1) : LastOpening(j)' /\ OpenAt(j)') <=> OpenAt(i)
  BY <1>3, <1>4, <1>5, <1>6, <1>7
<1>11. simdTargets = IF OpenAt(i) THEN <<>> ELSE Truncated(MaxSimdTargets, simdListed)
  BY <1>1, <1>9 DEF ImplInv, SimdFits
<1>12. simdTargets' = IF OpenAt(i) THEN <<>> ELSE Truncated(MaxSimdTargets, simdListed')
  <2>1. CASE OpenAt(i)
    BY <1>5, <1>11, <2>1
  <2>2. CASE ~OpenAt(i)
    <3>1. simdListed \in Seq(STRING) /\ MaxSimdTargets \in Nat
      BY ImplTypes
    <3>2. simdTargets'
            = Truncated(MaxSimdTargets, Truncated(MaxSimdTargets, simdListed) \o listed)
      BY <1>5, <1>11, <2>2
    <3> QED BY <2>2, <3>1, <3>2, CutTwice
  <2> QED BY <2>1, <2>2
<1>13. simdTargets' = IF \E j \in 1..Len(implText') : LastOpening(j)' /\ OpenAt(j)' THEN <<>>
                      ELSE Truncated(MaxSimdTargets, simdListed')
  BY <1>2, <1>10, <1>12
<1>14. ~\A j \in 1..Len(implText') : ~OpensList(j)'
  BY <1>2, <1>7, <1>8
<1>15. implBlock'[2] = i /\ implBlock'[1] = "simd"
  BY <1>5
<1>16. LastOpening(implBlock[2])' /\ ("platform" \in implOpen' <=> OpenAt(implBlock[2])')
  BY <1>8, <1>15
<1> QED BY <1>13, <1>14, <1>15, <1>16 DEF SimdFits

LEMMA SimdBodyLineStep ==
  ASSUME ImplInv, NEW key \in {"target", "fallback"}, NEW list \in SimdLists,
         SimdBodyLine(key, list)
  PROVE  ImplInv'
<1>1. PICK n \in Nat, k \in Nat : n = Len(implText) /\ k = Len(dispatches)
  BY ImplTypes DEF ImplInv, ImplTyped
<1>2. PICK listed \in Seq(STRING) : listed = IF key = "target" THEN list ELSE <<>>
  <2>1. list \in Seq(STRING) /\ <<>> \in Seq(STRING)
    BY PlatformsAssumption
  <2>2. CASE key = "target"
    BY <2>1, <2>2, Zenon
  <2>3. CASE key # "target"
    BY <2>1, <2>3, Zenon
  <2> QED BY <2>2, <2>3
<1>3. /\ ReadsImpl("simdLine", listed) /\ implBlock[1] = "simd"
      /\ simdListed' = simdListed \o listed
      /\ IF "platform" \in implOpen
         THEN AddTarget(key) /\ UNCHANGED simdTargets
         ELSE /\ simdTargets' = Truncated(MaxSimdTargets, simdTargets \o listed)
              /\ UNCHANGED <<dispatches, implPhase>>
      /\ UNCHANGED <<implOpen, implBlock, build>>
  BY <1>2 DEF SimdBodyLine, ReadsImpl
<1>4. PICK kind \in LineKinds, value \in Seq(Platforms \cup STRING) :
        ReadsImpl(kind, value) /\ kind = "simdLine"
  <2>1. "simdLine" \in LineKinds
    BY DEF LineKinds
  <2>2. listed \in Seq(Platforms \cup STRING)
    OBVIOUS
  <2> QED BY <1>3, <2>1, <2>2, Zenon
<1>5. implPhase = "spec" /\ Len(implText') = n + 1 /\ implText' \in Seq(ImplLine)
  BY <1>1, <1>4, ImplTextGrows
<1>6. /\ dispatches' \in Seq(Seq(TargetNames)) /\ Len(dispatches') = k
      /\ \A d \in 1..k : Len(dispatches'[d]) <= MaxPlatforms
      /\ \A d \in 1..k : d # k => dispatches'[d] = dispatches[d]
      /\ implPhase' \in {"spec", "wild"}
  <2>1. CASE "platform" \in implOpen
    <3>1. AddTarget(key) /\ key \in TargetNames
      BY <1>3, <2>1 DEF TargetNames
    <3> QED BY <1>1, <1>5, <2>1, <3>1, TargetTaken
  <2>2. CASE "platform" \notin implOpen
    BY <1>1, <1>3, <1>5, <2>2, ImplTypes
  <2> QED BY <2>1, <2>2
<1>7. /\ simdTargets' \in Seq(STRING) /\ Len(simdTargets') <= MaxSimdTargets
      /\ simdListed' \in Seq(STRING)
  <2>1. simdListed' \in Seq(STRING)
    BY <1>3, ImplTypes
  <2>2. CASE "platform" \in implOpen
    BY <1>3, <2>1, <2>2, ImplTypes
  <2>3. CASE "platform" \notin implOpen
    <3>1. PICK all \in Seq(STRING) : all = simdTargets \o listed
      <4>1. simdTargets \o listed \in Seq(STRING)
        BY ImplTypes
      <4> QED BY <4>1, Zenon
    <3>2. simdTargets' = Truncated(MaxSimdTargets, all) /\ MaxSimdTargets \in Nat
      BY <1>3, <2>3, <3>1, ImplTypes
    <3>3. /\ simdTargets' \in Seq(STRING) /\ Len(all) \in Nat
          /\ Len(simdTargets') = (IF Len(all) < MaxSimdTargets THEN Len(all)
                                  ELSE MaxSimdTargets)
      <4>1. Len(all) \in Nat
        OBVIOUS
      <4>2. /\ Truncated(MaxSimdTargets, all) \in Seq(STRING)
            /\ Len(Truncated(MaxSimdTargets, all))
                 = (IF Len(all) < MaxSimdTargets THEN Len(all) ELSE MaxSimdTargets)
        BY <3>2, Cut
      <4> QED BY <3>2, <4>1, <4>2
    <3> QED BY <2>1, <3>2, <3>3
  <2> QED BY <2>2, <2>3
<1>8. ImplTyped'
  BY <1>1, <1>3, <1>5, <1>6, <1>7 DEF ImplInv, ImplTyped
<1>9. ImplBlockFits'
  <2>1. Len(dispatches') \in Nat /\ Len(dispatches') >= Len(dispatches)
    BY <1>1, <1>6
  <2>2. \A i \in 1..Len(implText') :
          implText'[i].in[1] = "platform" => implText'[i].in[2] <= Len(dispatches')
    BY <1>4, <2>1, BlocksOfTextFit
  <2> QED BY <1>1, <1>3, <1>6, <2>2 DEF ImplInv, ImplBlockFits
<1>10. TargetsFit'
  <2>1. \A d \in 1..k : TargetsOf(d)' = TargetsOf(d)
    <3> SUFFICES ASSUME NEW d \in 1..k PROVE TargetsOf(d)' = TargetsOf(d)
      OBVIOUS
    <3>1. d \in Nat
      OBVIOUS
    <3> QED BY <1>4, <3>1, TargetsGrow
  <2>2. "platform" \in implOpen => k \in 1..k /\ TargetsOf(k) = {}
    BY <1>1, <1>3, <1>5 DEF ImplInv, TargetsFit, ImplBlockFits
  <2>3. "platform" \in implOpen' => TargetsOf(Len(dispatches))' = {}
    <3>1. "platform" \in implOpen => TargetsOf(k)' = {}
      BY <2>1, <2>2
    <3> QED BY <1>3, <1>6, <3>1
  <2>4. ASSUME NEW d \in 1..k, TargetsOf(d)' # {}
        PROVE  ToSet(dispatches'[d]) = TargetsOf(d)'
    <3>1. dispatches'[d] = dispatches[d]
      <4>1. CASE "platform" \in implOpen
        BY <1>6, <2>1, <2>2, <2>4, <4>1
      <4>2. CASE "platform" \notin implOpen
        BY <1>3, <4>2
      <4> QED BY <4>1, <4>2
    <3>2. ToSet(dispatches[d]) = TargetsOf(d)
      BY <1>1, <1>5, <2>1, <2>4 DEF ImplInv, TargetsFit
    <3> QED BY <2>1, <3>1, <3>2
  <2>5. \A d \in 1..k : implBlock' # <<"platform", d>>
    BY <1>3
  <2> QED BY <1>6, <2>3, <2>4, <2>5 DEF TargetsFit
<1>11. SimdFits'
  <2>1. simdTargets' = IF "platform" \in implOpen THEN simdTargets
                       ELSE Truncated(MaxSimdTargets, simdTargets \o listed)
    BY <1>3
  <2> QED BY <1>3, <1>4, <2>1, SimdGrows
<1> QED BY <1>8, <1>9, <1>10, <1>11 DEF ImplInv

\* What depends on the text and the arrays alone is as it was.
LEMMA ImplStays ==
  ASSUME ImplInv,
         UNCHANGED <<dispatches, simdTargets, simdListed, implOpen, implText, implBlock>>,
         \/ UNCHANGED <<implPhase, build>>
         \/ /\ implPhase = "spec" /\ implPhase' = "built"
            /\ build' \in [cosmo : BOOLEAN, host : Hosts]
  PROVE  ImplInv'
<1>1. ImplTyped'
  BY DEF ImplInv, ImplTyped
<1>2. ImplBlockFits'
  BY DEF ImplInv, ImplBlockFits
<1>3. /\ \A i : OpensList(i)' <=> OpensList(i)
      /\ \A i : OpenAt(i)' <=> OpenAt(i)
  BY DEF OpensList, OpenAt
<1>4. \A i : LastOpening(i)' <=> LastOpening(i)
  BY <1>3 DEF LastOpening
<1>5. SimdFits'
  BY <1>3, <1>4 DEF ImplInv, SimdFits
<1>6. \A d : TargetsOf(d)' = TargetsOf(d)
  BY DEF TargetsOf
<1>7. implPhase' # "wild" => TargetsFit'
  BY <1>6 DEF ImplInv, TargetsFit
<1> QED BY <1>1, <1>2, <1>5, <1>7 DEF ImplInv

LEMMA ImplStep == ImplInv /\ [ImplNext]_implVars => ImplInv'
<1> SUFFICES ASSUME ImplInv, [ImplNext]_implVars PROVE ImplInv'
  OBVIOUS
<1>1. CASE \E oneLine \in BOOLEAN : PlatformLine(oneLine)
  BY <1>1, PlatformLineStep
<1>2. CASE \E oneLine \in BOOLEAN : SimdLine(oneLine)
  BY <1>2, SimdLineStep
<1>3. CASE ImplBraceLine
  BY <1>3, ImplBraceLineStep
<1>4. CASE \E name \in Platforms : TargetLine(name)
  BY <1>4, TargetLineStep
<1>5. CASE \E key \in {"target", "fallback"}, list \in SimdLists : SimdBodyLine(key, list)
  BY <1>5, SimdBodyLineStep
<1>6. CASE \E b \in [cosmo : BOOLEAN, host : Hosts] : ImplBuild(b)
  BY <1>6, ImplStays DEF ImplBuild
<1>7. CASE UNCHANGED implVars
  <2>1. /\ UNCHANGED <<dispatches, simdTargets, simdListed, implOpen, implText, implBlock>>
        /\ UNCHANGED <<implPhase, build>>
    BY <1>7 DEF implVars
  <2> QED BY <2>1, ImplStays, Zenon
<1> QED BY <1>1, <1>2, <1>3, <1>4, <1>5, <1>6, <1>7 DEF ImplNext

\* Of every .impl file: whose block is open, what the platforms have, and what SIMD has
\* come to (implgen.c:102-190).
THEOREM ImplInvariant == ImplSpec => []ImplInv
BY ImplInitInv, ImplStep, PTL DEF ImplSpec

LEMMA HostsAreServed == ImplInv => HostsGetTheirImplementation
<1> SUFFICES ASSUME ImplInv, implPhase = "built",
                    NEW d \in DOMAIN dispatches, TargetsOf(d) # {}
             PROVE  /\ Called(d) \in TargetsOf(d) \cup {NotDefined}
                    /\ Called(d) = NotDefined => ~build.cosmo /\ build.host \notin TargetsOf(d)
                    /\ build.host \in TargetsOf(d) /\ Called(d) # build.host =>
                         build.cosmo /\ ~(/\ {"linux", "windows"} \subseteq TargetsOf(d)
                                          /\ build.host \in {"linux", "windows"})
  BY DEF HostsGetTheirImplementation
<1>1. d \in 1..Len(dispatches) /\ dispatches[d] \in Seq(TargetNames)
  BY ImplTypes
<1>2. ToSet(dispatches[d]) = TargetsOf(d)
  BY <1>1 DEF ImplInv, TargetsFit
<1>3. dispatches[d] # <<>> /\ Head(dispatches[d]) \in TargetsOf(d)
  BY <1>1, <1>2 DEF ToSet
<1>4. NotDefined \notin TargetsOf(d)
  <2>1. NotDefined \notin TargetNames
    BY PlatformsAssumption DEF TargetNames, NotDefined
  <2>2. TargetsOf(d) \subseteq TargetNames
    BY <1>1, <1>2 DEF ToSet
  <2> QED BY <2>1, <2>2
<1>5. build \in [cosmo : BOOLEAN, host : Hosts]
  BY DEF ImplInv, ImplTyped
<1>6. CASE build.cosmo = TRUE
  <2>1. CASE {"linux", "windows"} \subseteq TargetsOf(d)
    <3>1. Called(d) = IF build.host = "windows" THEN "windows" ELSE "linux"
      BY <1>2, <1>6, <2>1 DEF Called
    <3> QED BY <1>4, <1>6, <2>1, <3>1
  <2>2. CASE ~({"linux", "windows"} \subseteq TargetsOf(d))
    <3>1. Called(d) = Head(dispatches[d])
      BY <1>2, <1>3, <1>6, <2>2 DEF Called
    <3> QED BY <1>3, <1>4, <1>6, <2>2, <3>1
  <2> QED BY <2>1, <2>2
<1>7. CASE build.cosmo = FALSE
  <2>1. Called(d) = IF build.host \in TargetsOf(d) THEN build.host ELSE NotDefined
    BY <1>2, <1>7 DEF Called
  <2> QED BY <1>4, <1>7, <2>1
<1> QED BY <1>5, <1>6, <1>7

LEMMA SimdIsServed == ImplInv => SimdIsTheLastBlock
<1> SUFFICES ASSUME ImplInv PROVE SimdIsTheLastBlock
  OBVIOUS
<1> DEFINE openings == {i \in DOMAIN implText : implText[i].kind = "simd"}
           StaysOpen(p, i) == /\ implText[p].kind = "platformOnOneLine"
                              /\ \A j \in p..i : implText[j].kind # "close"
           taken == \E i \in openings, p \in DOMAIN implText :
                      (\A j \in openings : j <= i) /\ p < i /\ StaysOpen(p, i)
<1>1. PICK n \in Nat : n = Len(implText) /\ DOMAIN implText = 1..n
  BY DEF ImplInv, ImplTyped
<1>2. \A i \in 1..n : i \in openings <=> OpensList(i)
  BY <1>1 DEF OpensList
<1>3. \A i \in 1..n : LastOpening(i) <=> i \in openings /\ \A j \in openings : j <= i
  BY <1>1, <1>2 DEF LastOpening
<1>4. ASSUME NEW i \in openings
      PROVE  OpenAt(i) <=> \E p \in 1..n : p < i /\ StaysOpen(p, i)
  <2>1. i \in 1..n /\ implText[i].kind # "close"
    BY <1>1
  <2>2. ASSUME NEW p \in 1..n, p < i
        PROVE  (\A j \in p..(i - 1) : implText[j].kind # "close")
                 <=> (\A j \in p..i : implText[j].kind # "close")
    <3>1. \A j \in p..i : j \in p..(i - 1) \/ j = i
      BY <2>1
    <3>2. \A j \in p..(i - 1) : j \in p..i
      BY <2>1
    <3> QED BY <2>1, <3>1, <3>2
  <2> QED BY <1>1, <2>2 DEF OpenAt
<1>5. taken <=> \E i \in 1..n : LastOpening(i) /\ OpenAt(i)
  <2>1. openings \subseteq 1..n
    BY <1>1
  <2> HIDE DEF openings, StaysOpen
  <2> QED BY <1>1, <1>3, <1>4, <2>1
<1>6. simdTargets = IF taken THEN <<>> ELSE Truncated(MaxSimdTargets, simdListed)
  <2> HIDE DEF taken
  <2> QED BY <1>1, <1>5 DEF ImplInv, SimdFits
<1> QED BY <1>6 DEF SimdIsTheLastBlock

\* BuildsAreAsListed of every .impl file, compiler and host: what PREFIX_NAME_IMPL() calls,
\* and which instruction sets are probed (implgen.c:102-190, :248-276).
THEOREM BuildsGoByTheList == ImplSpec => []BuildsAreAsListed
<1>1. ImplInv => BuildsAreAsListed
  BY HostsAreServed, SimdIsServed DEF BuildsAreAsListed
<1> QED BY <1>1, ImplInvariant, PTL

\* The arrays of dispatches, of their targets and of the SIMD targets keep their limits,
\* for every file, until a write passes one (implgen.c:102-190).
THEOREM ImplTypeSafe == ImplSpec => []ImplTypeOK
<1>1. ImplInv => ImplTypeOK
  BY DEF ImplInv, ImplTyped, ImplTypeOK
<1> QED BY <1>1, ImplInvariant, PTL

-----------------------------------------------------------------------------
(* UiPanels. *)

UiLineKinds == {"window", "panel", "widget", "title", "layout", "label", "close"}
UiBlocks == Nat \X Nat \X Nat
UiLine == [in : UiBlocks, kind : UiLineKinds]
UiWritten == [in : UiBlocks, after : BOOLEAN]
UiWindow == [start : Nat, count : Nat, title : BOOLEAN]
UiPanel == [start : Nat, count : Nat, layout : BOOLEAN]
UiWidget == [label : BOOLEAN]

UiTyped ==
  /\ windows \in Seq(UiWindow) /\ panels \in Seq(UiPanel) /\ widgets \in Seq(UiWidget)
  /\ Len(windows) <= MaxWindows /\ Len(panels) <= MaxPanels /\ Len(widgets) <= MaxWidgets
  /\ uiOpen \in SUBSET {"window", "panel", "widget"}
  /\ uiText \in Seq(UiLine)
  /\ uiWidgets \in Seq(UiWritten)
  /\ Len(uiWidgets) = Len(widgets)
  /\ uiBlock \in UiBlocks /\ uiRefused \in BOOLEAN

\* The author's block is the last of its kind, and the parser has it open.
UiBlockFits ==
  /\ uiBlock[1] # 0 => uiBlock[1] = Len(windows) /\ "window" \in uiOpen
  /\ uiBlock[2] # 0 => uiBlock[2] = Len(panels) /\ "panel" \in uiOpen
  /\ uiBlock[1] # 0 /\ uiBlock[2] # 0 => uiBlock[2] \in RangeOf(windows[uiBlock[1]])
  /\ uiBlock[3] # 0 => uiBlock[3] = Len(widgets) /\ "widget" \in uiOpen

\* What is open although its author has left it, and the window a panel outside every window
\* goes to, were kept open by a block on one line.
UiStaysOpen ==
  /\ "window" \in uiOpen => Len(windows) > 0
  /\ "panel" \in uiOpen => Len(panels) > 0
  /\ "widget" \in uiOpen => Len(widgets) > 0
  /\ "window" \in uiOpen /\ uiBlock[1] = 0 => uiOnLine # {}
  /\ "panel" \in uiOpen /\ uiBlock[2] = 0 => uiOnLine # {}
  /\ "widget" \in uiOpen /\ uiBlock[3] = 0 => uiOnLine # {}
  /\ uiBlock[1] = 0 /\ uiBlock[2] # 0 =>
       \A w \in 1..Len(windows) : uiBlock[2] \in RangeOf(windows[w]) => uiOnLine # {}

\* Ranges follow one another, and that of what is open ends where its array does.
Follow(xs, n) ==
  /\ \A i \in 1..Len(xs) : xs[i].start >= 1 /\ xs[i].start + xs[i].count <= n + 1
  /\ \A i, j \in 1..Len(xs) : i < j => xs[i].start + xs[i].count <= xs[j].start

EndsAt(xs, n) == xs[Len(xs)].start + xs[Len(xs)].count = n + 1

RangesFit ==
  /\ Follow(windows, Len(panels)) /\ Follow(panels, Len(widgets))
  /\ "window" \in uiOpen => EndsAt(windows, Len(panels))
  /\ "panel" \in uiOpen => EndsAt(panels, Len(widgets))

\* A widget of a panel is in that panel's range and the panel in its window's; a loose one
\* is drawn only after a block on one line.
WidgetFits(g) ==
  LET b == uiWidgets[g].in
  IN /\ b[1] \in 0..Len(windows) /\ b[2] \in 0..Len(panels)
     /\ b[1] # 0 /\ b[2] # 0 => g \in RangeOf(panels[b[2]]) /\ b[2] \in RangeOf(windows[b[1]])
     /\ b[1] = 0 \/ b[2] = 0 =>
          \A p \in 1..Len(panels), w \in 1..Len(windows) :
            g \in RangeOf(panels[p]) /\ p \in RangeOf(windows[w]) => uiWidgets[g].after

WidgetsFit == \A g \in 1..Len(widgets) : WidgetFits(g)

\* Lines stand in what there is, and attributes in a block of their kind.
UiLineFits(l) ==
  /\ l.in[1] <= Len(windows) /\ l.in[2] <= Len(panels) /\ l.in[3] <= Len(widgets)
  /\ l.kind = "title" => l.in[1] # 0 /\ l.in[2] = 0 /\ l.in[3] = 0
  /\ l.kind = "layout" => l.in[2] # 0 /\ l.in[3] = 0
  /\ l.kind = "label" => l.in[3] # 0

UiLinesFit == \A i \in 1..Len(uiText) : UiLineFits(uiText[i])

\* A line of the kind stands in block x of the k-th sort.
SaidIn(kind, k, x) == \E i \in 1..Len(uiText) : uiText[i].kind = kind /\ uiText[i].in[k] = x

AttributesFit ==
  /\ \A w \in 1..Len(windows) : windows[w].title <=> SaidIn("title", 1, w)
  /\ \A p \in 1..Len(panels) : panels[p].layout <=> SaidIn("layout", 2, p)
  /\ \A g \in 1..Len(widgets) : widgets[g].label <=> SaidIn("label", 3, g)

UiInv ==
  /\ UiTyped /\ UiBlockFits /\ UiStaysOpen /\ RangesFit /\ WidgetsFit /\ UiLinesFit
  /\ AttributesFit

-----------------------------------------------------------------------------

LEMMA UiInitInv == UiInit => UiInv
<1> SUFFICES ASSUME UiInit PROVE UiInv
  OBVIOUS
<1>1. /\ windows = <<>> /\ panels = <<>> /\ widgets = <<>> /\ uiText = <<>> /\ uiWidgets = <<>>
      /\ uiOpen = {} /\ uiBlock = <<0, 0, 0>> /\ uiOnLine = {} /\ uiRefused = FALSE
  BY DEF UiInit, Outside
<1>2. UiTyped
  <2>1. Outside \in UiBlocks /\ uiBlock = Outside
    BY <1>1 DEF UiBlocks, Outside
  <2>2. /\ windows \in Seq(UiWindow) /\ panels \in Seq(UiPanel) /\ widgets \in Seq(UiWidget)
        /\ uiText \in Seq(UiLine) /\ uiWidgets \in Seq(UiWritten)
    BY <1>1
  <2>3. /\ Len(windows) <= MaxWindows /\ Len(panels) <= MaxPanels
        /\ Len(widgets) <= MaxWidgets
    BY <1>1, UiAssumption
  <2> QED BY <1>1, <2>1, <2>2, <2>3 DEF UiTyped
<1>3. UiBlockFits /\ UiStaysOpen
  BY <1>1 DEF UiBlockFits, UiStaysOpen, Outside
<1>4. RangesFit /\ WidgetsFit /\ UiLinesFit /\ AttributesFit
  BY <1>1 DEF RangesFit, Follow, WidgetsFit, UiLinesFit, AttributesFit
<1> QED BY <1>2, <1>3, <1>4 DEF UiInv

LEMMA UiTypes ==
  ASSUME UiInv
  PROVE  /\ windows \in Seq(UiWindow) /\ panels \in Seq(UiPanel) /\ widgets \in Seq(UiWidget)
         /\ Len(windows) \in Nat /\ Len(panels) \in Nat /\ Len(widgets) \in Nat
         /\ Len(windows) <= MaxWindows /\ Len(panels) <= MaxPanels /\ Len(widgets) <= MaxWidgets
         /\ uiOpen \in SUBSET {"window", "panel", "widget"}
         /\ uiText \in Seq(UiLine) /\ Len(uiText) \in Nat
         /\ uiWidgets \in Seq(UiWritten)
         /\ Len(uiWidgets) = Len(widgets)
         /\ uiBlock \in UiBlocks
         /\ uiBlock[1] \in Nat /\ uiBlock[2] \in Nat /\ uiBlock[3] \in Nat
         /\ MaxWindows \in Nat /\ MaxPanels \in Nat /\ MaxWidgets \in Nat
BY UiAssumption DEF UiInv, UiTyped, UiBlocks

\* The fields of what stands in the arrays.
LEMMA UiFields ==
  ASSUME UiInv
  PROVE  /\ \A w \in 1..Len(windows) : windows[w].start \in Nat /\ windows[w].count \in Nat
         /\ \A p \in 1..Len(panels) : panels[p].start \in Nat /\ panels[p].count \in Nat
         /\ \A g \in 1..Len(widgets) :
              /\ uiWidgets[g].in \in UiBlocks
              /\ uiWidgets[g].in[1] \in Nat /\ uiWidgets[g].in[2] \in Nat
              /\ uiWidgets[g].after \in BOOLEAN
<1>1. \A w \in 1..Len(windows) : windows[w] \in UiWindow
  BY UiTypes
<1>2. \A p \in 1..Len(panels) : panels[p] \in UiPanel
  BY UiTypes
<1>3. \A g \in 1..Len(widgets) : uiWidgets[g] \in UiWritten
  <2>1. /\ uiWidgets \in Seq(UiWritten)
        /\ Len(uiWidgets) = Len(widgets)
    BY UiTypes
  <2> QED BY <2>1
<1>4. \A g \in 1..Len(widgets) : uiWidgets[g].in \in UiBlocks /\ uiWidgets[g].after \in BOOLEAN
  BY <1>3 DEF UiWritten
<1>5. \A b \in UiBlocks : b[1] \in Nat /\ b[2] \in Nat
  BY DEF UiBlocks
<1> QED BY <1>1, <1>2, <1>4, <1>5 DEF UiWindow, UiPanel

-----------------------------------------------------------------------------
(* The line that is read. *)

LEMMA UiTextGrows ==
  ASSUME UiInv, NEW kind \in UiLineKinds, WritesUi(kind)
  PROVE  /\ ~uiRefused /\ Len(uiText') = Len(uiText) + 1 /\ uiText' \in Seq(UiLine)
         /\ \A i \in 1..Len(uiText) : uiText'[i] = uiText[i]
         /\ uiText'[Len(uiText) + 1].in = uiBlock
         /\ uiText'[Len(uiText) + 1].kind = kind
<1> DEFINE line == [in |-> uiBlock, kind |-> kind]
<1>1. line \in UiLine /\ uiText' = Append(uiText, line) /\ uiText \in Seq(UiLine)
      /\ ~uiRefused /\ line.in = uiBlock /\ line.kind = kind
  BY UiTypes DEF UiLine, WritesUi
<1> HIDE DEF line
<1> QED BY <1>1, Appended

LEMMA SaidGrows ==
  ASSUME UiInv, NEW kind \in UiLineKinds, WritesUi(kind)
  PROVE  \A x \in Nat :
           /\ SaidIn("title", 1, x)' <=> SaidIn("title", 1, x) \/ (kind = "title" /\ uiBlock[1] = x)
           /\ SaidIn("layout", 2, x)' <=> SaidIn("layout", 2, x) \/ (kind = "layout" /\ uiBlock[2] = x)
           /\ SaidIn("label", 3, x)' <=> SaidIn("label", 3, x) \/ (kind = "label" /\ uiBlock[3] = x)
<1>1. PICK n \in Nat : n = Len(uiText)
  BY UiTypes
<1>2. /\ Len(uiText') = n + 1
      /\ \A i \in 1..n : uiText'[i] = uiText[i]
      /\ uiText'[n + 1].in = uiBlock
      /\ uiText'[n + 1].kind = kind
  BY <1>1, UiTextGrows
<1>3. \A i \in 1..(n + 1) : i \in 1..n \/ i = n + 1
  OBVIOUS
<1>4. 1..n \subseteq 1..(n + 1) /\ n + 1 \in 1..(n + 1)
  OBVIOUS
<1> QED BY <1>1, <1>2, <1>3, <1>4 DEF SaidIn

\* Nothing is said of what there is not yet.
LEMMA NothingSaid ==
  ASSUME UiInv
  PROVE  \A x \in Nat : /\ x > Len(windows) => ~SaidIn("title", 1, x)
                        /\ x > Len(panels) => ~SaidIn("layout", 2, x)
                        /\ x > Len(widgets) => ~SaidIn("label", 3, x)
<1>1. ASSUME NEW i \in 1..Len(uiText)
      PROVE  /\ uiText[i].in[1] \in Nat /\ uiText[i].in[2] \in Nat /\ uiText[i].in[3] \in Nat
             /\ uiText[i].in[1] <= Len(windows) /\ uiText[i].in[2] <= Len(panels)
             /\ uiText[i].in[3] <= Len(widgets)
  <2>1. uiText[i] \in UiLine
    BY UiTypes
  <2>2. uiText[i].in \in UiBlocks
    BY <2>1 DEF UiLine
  <2> QED BY <2>2 DEF UiInv, UiLinesFit, UiLineFits, UiBlocks
<1>2. Len(windows) \in Nat /\ Len(panels) \in Nat /\ Len(widgets) \in Nat
  BY UiTypes
<1> QED BY <1>1, <1>2 DEF SaidIn

LEMMA UiLinesStayFit ==
  ASSUME UiInv, NEW kind \in UiLineKinds, WritesUi(kind),
         Len(windows') \in Nat, Len(windows') >= Len(windows),
         Len(panels') \in Nat, Len(panels') >= Len(panels),
         Len(widgets') \in Nat, Len(widgets') >= Len(widgets),
         kind = "title" => uiBlock[1] # 0 /\ uiBlock[2] = 0 /\ uiBlock[3] = 0,
         kind = "layout" => uiBlock[2] # 0 /\ uiBlock[3] = 0,
         kind = "label" => uiBlock[3] # 0
  PROVE  UiLinesFit'
<1>1. PICK n \in Nat : n = Len(uiText)
  BY UiTypes
<1>2. /\ Len(uiText') = n + 1 /\ uiText' \in Seq(UiLine)
      /\ \A i \in 1..n : uiText'[i] = uiText[i]
      /\ uiText'[n + 1].in = uiBlock
      /\ uiText'[n + 1].kind = kind
  BY <1>1, UiTextGrows
<1> SUFFICES ASSUME NEW i \in 1..(n + 1) PROVE UiLineFits(uiText[i])'
  BY <1>2 DEF UiLinesFit
<1>3. CASE i \in 1..n
  <2>1. UiLineFits(uiText[i])
    BY <1>1, <1>3 DEF UiInv, UiLinesFit
  <2>2. uiText'[i] = uiText[i]
    BY <1>2, <1>3
  <2>3. uiText[i] \in UiLine
    BY <1>1, <1>3, UiTypes
  <2>4. uiText[i].in[1] \in Nat /\ uiText[i].in[2] \in Nat /\ uiText[i].in[3] \in Nat
    BY <2>3 DEF UiLine, UiBlocks
  <2>5. Len(windows) \in Nat /\ Len(panels) \in Nat /\ Len(widgets) \in Nat
    BY UiTypes
  <2>6. PICK a \in Nat, b \in Nat, c \in Nat :
          a = uiText[i].in[1] /\ b = uiText[i].in[2] /\ c = uiText[i].in[3]
    BY <2>4
  <2>7. a <= Len(windows) /\ b <= Len(panels) /\ c <= Len(widgets)
    BY <2>1, <2>6 DEF UiLineFits
  <2>8. a <= Len(windows') /\ b <= Len(panels') /\ c <= Len(widgets')
    BY <2>5, <2>7
  <2> QED BY <2>1, <2>2, <2>6, <2>8 DEF UiLineFits
<1>4. CASE i = n + 1
  <2>1. /\ uiBlock[1] <= Len(windows) /\ uiBlock[2] <= Len(panels)
        /\ uiBlock[3] <= Len(widgets)
    BY UiTypes DEF UiInv, UiBlockFits
  <2>2. uiText'[i].in = uiBlock /\ uiText'[i].kind = kind
    BY <1>2, <1>4
  <2>3. /\ Len(windows) \in Nat /\ Len(panels) \in Nat /\ Len(widgets) \in Nat
        /\ uiBlock[1] \in Nat /\ uiBlock[2] \in Nat /\ uiBlock[3] \in Nat
    BY UiTypes
  <2>4. /\ uiBlock[1] <= Len(windows') /\ uiBlock[2] <= Len(panels')
        /\ uiBlock[3] <= Len(widgets')
    BY <2>1, <2>3
  <2> QED BY <2>2, <2>4 DEF UiLineFits
<1> QED BY <1>3, <1>4

\* A line changes the attribute of the block it stands in.
LEMMA AttributesStayFit ==
  ASSUME UiInv, NEW kind \in UiLineKinds, WritesUi(kind),
         Len(windows') \in Nat, Len(panels') \in Nat, Len(widgets') \in Nat,
         \A w \in 1..Len(windows') :
           windows'[w].title <=> \/ w \in 1..Len(windows) /\ windows[w].title
                                 \/ kind = "title" /\ uiBlock[1] = w,
         \A p \in 1..Len(panels') :
           panels'[p].layout <=> \/ p \in 1..Len(panels) /\ panels[p].layout
                                 \/ kind = "layout" /\ uiBlock[2] = p,
         \A g \in 1..Len(widgets') :
           widgets'[g].label <=> \/ g \in 1..Len(widgets) /\ widgets[g].label
                                 \/ kind = "label" /\ uiBlock[3] = g
  PROVE  AttributesFit'
<1>1. ASSUME NEW w \in 1..Len(windows') PROVE windows'[w].title <=> SaidIn("title", 1, w)'
  <2>0. w \in Nat
    OBVIOUS
  <2>1. SaidIn("title", 1, w)' <=> SaidIn("title", 1, w) \/ (kind = "title" /\ uiBlock[1] = w)
    BY <2>0, SaidGrows
  <2>2. w \notin 1..Len(windows) => ~SaidIn("title", 1, w)
    <3>1. Len(windows) \in Nat
      BY UiTypes
    <3> QED BY <2>0, <3>1, NothingSaid
  <2>3. w \in 1..Len(windows) => (windows[w].title <=> SaidIn("title", 1, w))
    BY DEF UiInv, AttributesFit
  <2> QED BY <2>1, <2>2, <2>3
<1>2. ASSUME NEW p \in 1..Len(panels') PROVE panels'[p].layout <=> SaidIn("layout", 2, p)'
  <2>0. p \in Nat
    OBVIOUS
  <2>1. SaidIn("layout", 2, p)' <=> SaidIn("layout", 2, p) \/ (kind = "layout" /\ uiBlock[2] = p)
    BY <2>0, SaidGrows
  <2>2. p \notin 1..Len(panels) => ~SaidIn("layout", 2, p)
    <3>1. Len(panels) \in Nat
      BY UiTypes
    <3> QED BY <2>0, <3>1, NothingSaid
  <2>3. p \in 1..Len(panels) => (panels[p].layout <=> SaidIn("layout", 2, p))
    BY DEF UiInv, AttributesFit
  <2> QED BY <2>1, <2>2, <2>3
<1>3. ASSUME NEW g \in 1..Len(widgets') PROVE widgets'[g].label <=> SaidIn("label", 3, g)'
  <2>0. g \in Nat
    OBVIOUS
  <2>1. SaidIn("label", 3, g)' <=> SaidIn("label", 3, g) \/ (kind = "label" /\ uiBlock[3] = g)
    BY <2>0, SaidGrows
  <2>2. g \notin 1..Len(widgets) => ~SaidIn("label", 3, g)
    <3>1. Len(widgets) \in Nat
      BY UiTypes
    <3> QED BY <2>0, <3>1, NothingSaid
  <2>3. g \in 1..Len(widgets) => (widgets[g].label <=> SaidIn("label", 3, g))
    BY DEF UiInv, AttributesFit
  <2> QED BY <2>1, <2>2, <2>3
<1> QED BY <1>1, <1>2, <1>3 DEF AttributesFit

-----------------------------------------------------------------------------
(* Ranges. *)

Ranges(xs) ==
  /\ Len(xs) \in Nat
  /\ \A i \in 1..Len(xs) : xs[i].start \in Nat /\ xs[i].count \in Nat

\* A range that begins empty at the end of the array.
LEMMA RangeBegins ==
  ASSUME NEW xs, NEW ys, NEW n \in Nat, Ranges(xs), Follow(xs, n),
         Len(ys) = Len(xs) + 1, \A i \in 1..Len(xs) : ys[i] = xs[i],
         ys[Len(xs) + 1].start = n + 1, ys[Len(xs) + 1].count = 0
  PROVE  Ranges(ys) /\ Follow(ys, n) /\ EndsAt(ys, n)
<1>1. PICK k \in Nat : k = Len(xs)
  BY DEF Ranges
<1>2. \A i \in 1..(k + 1) : \/ i \in 1..k /\ ys[i] = xs[i]
                            \/ i = k + 1 /\ ys[i].start = n + 1 /\ ys[i].count = 0
  BY <1>1
<1>3. \A i \in 1..k : xs[i].start \in Nat /\ xs[i].count \in Nat
  BY <1>1 DEF Ranges
<1>4. Ranges(ys)
  BY <1>1, <1>2, <1>3 DEF Ranges
<1>5. \A i \in 1..(k + 1) : ys[i].start >= 1 /\ ys[i].start + ys[i].count <= n + 1
  BY <1>1, <1>2, <1>3 DEF Follow
<1>6. ASSUME NEW i \in 1..(k + 1), NEW j \in 1..(k + 1), i < j
      PROVE  ys[i].start + ys[i].count <= ys[j].start
  <2>1. i \in 1..k /\ ys[i] = xs[i]
    BY <1>1, <1>2, <1>6
  <2>2. CASE j \in 1..k
    BY <1>1, <1>6, <2>1, <2>2 DEF Follow
  <2>3. CASE j = k + 1
    BY <1>1, <1>3, <2>1, <2>3 DEF Follow
  <2> QED BY <2>2, <2>3
<1> QED BY <1>1, <1>4, <1>5, <1>6 DEF Follow, EndsAt

\* The last range, which ends at the end of the array, takes what is appended there.
LEMMA RangeTakes ==
  ASSUME NEW xs, NEW ys, NEW n \in Nat, Ranges(xs), Follow(xs, n), EndsAt(xs, n),
         Len(xs) > 0, Len(ys) = Len(xs),
         \A i \in 1..Len(xs) : /\ ys[i].start = xs[i].start
                               /\ ys[i].count = IF i = Len(xs) THEN xs[i].count + 1
                                                ELSE xs[i].count
  PROVE  Ranges(ys) /\ Follow(ys, n + 1) /\ EndsAt(ys, n + 1)
<1>1. PICK k \in Nat : k = Len(xs) /\ k > 0
  BY DEF Ranges
<1>2. \A i \in 1..k : xs[i].start \in Nat /\ xs[i].count \in Nat
  BY <1>1 DEF Ranges
<1>3. \A i \in 1..k : /\ ys[i].start = xs[i].start
                      /\ ys[i].count = IF i = k THEN xs[i].count + 1 ELSE xs[i].count
  BY <1>1
<1>4. Ranges(ys)
  BY <1>1, <1>2, <1>3 DEF Ranges
<1>5. \A i \in 1..k : ys[i].start >= 1 /\ ys[i].start + ys[i].count <= n + 2
  <2>1. \A i \in 1..k : xs[i].start >= 1 /\ xs[i].start + xs[i].count <= n + 1
    BY <1>1 DEF Follow
  <2> SUFFICES ASSUME NEW i \in 1..k PROVE ys[i].start >= 1 /\ ys[i].start + ys[i].count <= n + 2
    OBVIOUS
  <2>2. ys[i].start = xs[i].start /\ (ys[i].count = xs[i].count + 1 \/ ys[i].count = xs[i].count)
    BY <1>3
  <2>3. PICK a \in Nat, c \in Nat : a = xs[i].start /\ c = xs[i].count
    BY <1>2
  <2>4. a >= 1 /\ a + c <= n + 1
    BY <2>1, <2>3
  <2>5. ys[i].start = a /\ (ys[i].count = c + 1 \/ ys[i].count = c)
    BY <2>2, <2>3
  <2> QED BY <2>4, <2>5
<1>6. ASSUME NEW i \in 1..k, NEW j \in 1..k, i < j
      PROVE  ys[i].start + ys[i].count <= ys[j].start
  <2>1. i # k
    BY <1>6
  <2> QED BY <1>1, <1>3, <1>6, <2>1 DEF Follow
<1>7. EndsAt(ys, n + 1)
  BY <1>1, <1>2, <1>3 DEF EndsAt
<1>8. n + 2 = n + 1 + 1
  OBVIOUS
<1> QED BY <1>1, <1>4, <1>5, <1>6, <1>7, <1>8 DEF Follow

\* What is appended, and taken by no range.
LEMMA RangesWait ==
  ASSUME NEW xs, NEW n \in Nat, Ranges(xs), Follow(xs, n)
  PROVE  Follow(xs, n + 1) /\ \A i \in 1..Len(xs) : n + 1 \notin RangeOf(xs[i])
<1>1. /\ \A i \in 1..Len(xs) : xs[i].start >= 1 /\ xs[i].start + xs[i].count <= n + 1
      /\ \A i \in 1..Len(xs) : xs[i].start \in Nat /\ xs[i].count \in Nat
  BY DEF Ranges, Follow
<1>2. \A i \in 1..Len(xs) : xs[i].start + xs[i].count \in Nat
  BY <1>1
<1>3. \A a \in Nat : a <= n + 1 => a <= n + 1 + 1
  OBVIOUS
<1>4. \A i \in 1..Len(xs) : n + 1 \notin RangeOf(xs[i])
  BY <1>1 DEF RangeOf
<1> QED BY <1>1, <1>2, <1>3, <1>4 DEF Follow

\* It holds what it took, the others do not, and what was there is where it was.
LEMMA LastTakes ==
  ASSUME NEW xs, NEW ys, NEW n \in Nat, Ranges(xs), Follow(xs, n), EndsAt(xs, n),
         Len(xs) > 0, Len(ys) = Len(xs),
         \A i \in 1..Len(xs) : /\ ys[i].start = xs[i].start
                               /\ ys[i].count = IF i = Len(xs) THEN xs[i].count + 1
                                                ELSE xs[i].count
  PROVE  /\ n + 1 \in RangeOf(ys[Len(xs)])
         /\ \A i \in 1..Len(xs) :
              /\ RangeOf(xs[i]) \subseteq RangeOf(ys[i])
              /\ \A x \in 1..n : x \in RangeOf(ys[i]) => x \in RangeOf(xs[i])
              /\ n + 1 \in RangeOf(ys[i]) => i = Len(xs)
<1>1. PICK k \in Nat : k = Len(xs) /\ k \in 1..k
  BY DEF Ranges
<1>2. \A i \in 1..k : /\ xs[i].start \in Nat /\ xs[i].count \in Nat
                      /\ xs[i].start + xs[i].count <= n + 1
  BY <1>1 DEF Ranges, Follow
<1>3. xs[k].start + xs[k].count = n + 1
  BY <1>1 DEF EndsAt
<1>4. n + 1 \in RangeOf(ys[k])
  <2>1. PICK a \in Nat, c \in Nat : a = xs[k].start /\ c = xs[k].count
    BY <1>1, <1>2
  <2>2. ys[k].start = a /\ ys[k].count = c + 1
    BY <1>1, <2>1
  <2>3. a + c = n + 1
    BY <1>3, <2>1
  <2> QED BY <2>2, <2>3 DEF RangeOf
<1>5. ASSUME NEW i \in 1..k
      PROVE  /\ RangeOf(xs[i]) \subseteq RangeOf(ys[i])
             /\ \A y \in 1..n : y \in RangeOf(ys[i]) => y \in RangeOf(xs[i])
             /\ n + 1 \in RangeOf(ys[i]) => i = k
  <2>1. PICK a \in Nat, c \in Nat : a = xs[i].start /\ c = xs[i].count
    BY <1>2
  <2>2. CASE i = k
    <3>1. ys[i].start = a /\ ys[i].count = c + 1 /\ a + c = n + 1
      BY <1>1, <1>3, <2>1, <2>2
    <3>2. RangeOf(xs[i]) = a..n /\ RangeOf(ys[i]) = a..(n + 1)
      BY <2>1, <3>1 DEF RangeOf
    <3> QED BY <2>2, <3>2
  <2>3. CASE i # k
    <3>1. ys[i].start = a /\ ys[i].count = c /\ a + c <= n + 1
      BY <1>1, <1>2, <2>1, <2>3
    <3>2. RangeOf(ys[i]) = RangeOf(xs[i]) /\ n + 1 \notin RangeOf(ys[i])
      BY <2>1, <3>1 DEF RangeOf
    <3> QED BY <3>2
  <2> QED BY <2>2, <2>3
<1> QED BY <1>1, <1>4, <1>5

\* Ranges that are the same.
LEMMA RangesSame ==
  ASSUME NEW xs, NEW ys, NEW n \in Nat, Ranges(xs), Follow(xs, n), Len(ys) = Len(xs),
         \A i \in 1..Len(xs) : ys[i].start = xs[i].start /\ ys[i].count = xs[i].count
  PROVE  /\ Ranges(ys) /\ Follow(ys, n)
         /\ Len(xs) > 0 /\ EndsAt(xs, n) => EndsAt(ys, n)
<1>1. Ranges(ys) /\ Follow(ys, n)
  BY DEF Ranges, Follow
<1>2. Len(xs) > 0 => Len(xs) \in 1..Len(xs)
  BY DEF Ranges
<1> QED BY <1>1, <1>2 DEF EndsAt

\* No two ranges have an element in common.
LEMMA RangesApart ==
  ASSUME NEW xs, NEW n \in Nat, Ranges(xs), Follow(xs, n),
         NEW i \in 1..Len(xs), NEW j \in 1..Len(xs),
         NEW x \in RangeOf(xs[i]), NEW y \in RangeOf(xs[j])
  PROVE  /\ i < j => x < y
         /\ x \in 1..n
<1>1. /\ xs[i].start \in Nat /\ xs[i].count \in Nat /\ xs[j].start \in Nat
      /\ xs[j].count \in Nat /\ xs[i].start >= 1 /\ xs[i].start + xs[i].count <= n + 1
  BY DEF Ranges, Follow
<1>2. i < j => xs[i].start + xs[i].count <= xs[j].start
  BY DEF Follow
<1> QED BY <1>1, <1>2 DEF RangeOf

LEMMA UiRanges == ASSUME UiInv PROVE Ranges(windows) /\ Ranges(panels)
BY UiTypes, UiFields DEF Ranges

-----------------------------------------------------------------------------
(* What is as it was. *)

LEMMA PositiveUpTo == \A n \in Nat : \A x \in 0..n : x # 0 => x \in 1..n
OBVIOUS

\* The widgets that are there stay in their ranges, and come into no other.
LEMMA WidgetsStay ==
  ASSUME UiInv,
         Len(windows') \in Nat, Len(windows') >= Len(windows),
         Len(panels') \in Nat, Len(panels') >= Len(panels),
         \A g \in 1..Len(widgets) : uiWidgets'[g] = uiWidgets[g],
         \A w \in 1..Len(windows) : RangeOf(windows[w]) \subseteq RangeOf(windows'[w]),
         \A p \in 1..Len(panels) : RangeOf(panels[p]) \subseteq RangeOf(panels'[p]),
         \A w \in 1..Len(windows') : \A p \in 1..Len(panels) :
           p \in RangeOf(windows'[w]) => w \in 1..Len(windows) /\ p \in RangeOf(windows[w]),
         \A p \in 1..Len(panels') : \A g \in 1..Len(widgets) :
           g \in RangeOf(panels'[p]) => p \in 1..Len(panels) /\ g \in RangeOf(panels[p])
  PROVE  \A g \in 1..Len(widgets) : WidgetFits(g)'
<1> SUFFICES ASSUME NEW g \in 1..Len(widgets) PROVE WidgetFits(g)'
  OBVIOUS
<1>1. PICK b \in UiBlocks : b = uiWidgets[g].in /\ b = uiWidgets'[g].in
  BY UiFields
<1>2. /\ b[1] \in 0..Len(windows) /\ b[2] \in 0..Len(panels)
      /\ b[1] # 0 /\ b[2] # 0 => g \in RangeOf(panels[b[2]]) /\ b[2] \in RangeOf(windows[b[1]])
      /\ b[1] = 0 \/ b[2] = 0 =>
           \A p \in 1..Len(panels), w \in 1..Len(windows) :
             g \in RangeOf(panels[p]) /\ p \in RangeOf(windows[w]) => uiWidgets[g].after
  BY <1>1 DEF UiInv, WidgetsFit, WidgetFits
<1>3. 0..Len(windows) \subseteq 0..Len(windows') /\ 0..Len(panels) \subseteq 0..Len(panels')
  BY UiTypes
<1>4. uiWidgets'[g].after <=> uiWidgets[g].after
  OBVIOUS
<1>5. b[1] # 0 /\ b[2] # 0 =>
        g \in RangeOf(panels'[b[2]]) /\ b[2] \in RangeOf(windows'[b[1]])
  <2>1. /\ b[1] # 0 => b[1] \in 1..Len(windows)
        /\ b[2] # 0 => b[2] \in 1..Len(panels)
    BY <1>2, UiTypes, PositiveUpTo
  <2> QED BY <1>2, <2>1
<1>6. b[1] = 0 \/ b[2] = 0 =>
        \A p \in 1..Len(panels'), w \in 1..Len(windows') :
          g \in RangeOf(panels'[p]) /\ p \in RangeOf(windows'[w]) => uiWidgets'[g].after
  BY <1>2, <1>4
<1> QED BY <1>1, <1>2, <1>3, <1>5, <1>6 DEF WidgetFits

SameRanges(xs, ys) ==
  /\ Len(ys) = Len(xs)
  /\ \A i \in 1..Len(xs) : ys[i].start = xs[i].start /\ ys[i].count = xs[i].count

LEMMA ArraysStay ==
  ASSUME UiInv, SameRanges(windows, windows'), SameRanges(panels, panels'),
         Len(widgets') = Len(widgets), uiWidgets' = uiWidgets, uiOpen' \subseteq uiOpen
  PROVE  RangesFit' /\ WidgetsFit'
<1>1. /\ Ranges(windows) /\ Follow(windows, Len(panels)) /\ Len(panels) \in Nat
      /\ Ranges(panels) /\ Follow(panels, Len(widgets)) /\ Len(widgets) \in Nat
  BY UiTypes, UiRanges DEF UiInv, RangesFit
<1>2. /\ Follow(windows', Len(panels))
      /\ Len(windows) > 0 /\ EndsAt(windows, Len(panels)) => EndsAt(windows', Len(panels))
  BY <1>1, RangesSame DEF SameRanges
<1>3. /\ Follow(panels', Len(widgets))
      /\ Len(panels) > 0 /\ EndsAt(panels, Len(widgets)) => EndsAt(panels', Len(widgets))
  BY <1>1, RangesSame DEF SameRanges
<1>4. Len(panels') = Len(panels) /\ Len(windows') = Len(windows)
  BY DEF SameRanges
<1>5. /\ "window" \in uiOpen' => Len(windows) > 0 /\ EndsAt(windows, Len(panels))
      /\ "panel" \in uiOpen' => Len(panels) > 0 /\ EndsAt(panels, Len(widgets))
  BY DEF UiInv, RangesFit, UiStaysOpen
<1>6. RangesFit'
  BY <1>2, <1>3, <1>4, <1>5 DEF RangesFit
<1>7. /\ \A w \in 1..Len(windows) : RangeOf(windows'[w]) = RangeOf(windows[w])
      /\ \A p \in 1..Len(panels) : RangeOf(panels'[p]) = RangeOf(panels[p])
  BY DEF SameRanges, RangeOf
<1>8. \A g \in 1..Len(widgets) : WidgetFits(g)'
  <2>1. /\ Len(windows') \in Nat /\ Len(windows') >= Len(windows)
        /\ Len(panels') \in Nat /\ Len(panels') >= Len(panels)
    BY <1>4, UiTypes
  <2>2. \A w \in 1..Len(windows) : RangeOf(windows[w]) \subseteq RangeOf(windows'[w])
    BY <1>7
  <2>3. \A p \in 1..Len(panels) : RangeOf(panels[p]) \subseteq RangeOf(panels'[p])
    BY <1>7
  <2>4. \A p \in 1..Len(panels') : \A g \in 1..Len(widgets) :
          g \in RangeOf(panels'[p]) => p \in 1..Len(panels) /\ g \in RangeOf(panels[p])
    BY <1>4, <1>7
  <2>5. \A w \in 1..Len(windows') : \A p \in 1..Len(panels) :
          p \in RangeOf(windows'[w]) => w \in 1..Len(windows) /\ p \in RangeOf(windows[w])
    BY <1>4, <1>7
  <2> QED BY <2>1, <2>2, <2>3, <2>4, <2>5, WidgetsStay
<1> QED BY <1>6, <1>8 DEF WidgetsFit

\* A line that changes attributes at most.
LEMMA AttributeStep ==
  ASSUME UiInv, NEW kind \in UiLineKinds, WritesUi(kind),
         windows' \in Seq(UiWindow), panels' \in Seq(UiPanel), widgets' \in Seq(UiWidget),
         SameRanges(windows, windows'), SameRanges(panels, panels'),
         Len(widgets') = Len(widgets), UNCHANGED <<uiWidgets, uiOnLine, uiOpen, uiBlock>>,
         uiRefused' \in BOOLEAN,
         kind = "title" => uiBlock[1] # 0 /\ uiBlock[2] = 0 /\ uiBlock[3] = 0,
         kind = "layout" => uiBlock[2] # 0 /\ uiBlock[3] = 0,
         kind = "label" => uiBlock[3] # 0,
         \A w \in 1..Len(windows) :
           windows'[w].title <=> windows[w].title \/ (kind = "title" /\ uiBlock[1] = w),
         \A p \in 1..Len(panels) :
           panels'[p].layout <=> panels[p].layout \/ (kind = "layout" /\ uiBlock[2] = p),
         \A g \in 1..Len(widgets) :
           widgets'[g].label <=> widgets[g].label \/ (kind = "label" /\ uiBlock[3] = g)
  PROVE  UiInv'
<1>1. /\ Len(windows') = Len(windows) /\ Len(panels') = Len(panels)
      /\ Len(windows) \in Nat /\ Len(panels) \in Nat /\ Len(widgets) \in Nat
  BY UiTypes DEF SameRanges
<1>2. UiTyped'
  <2>1. uiText' \in Seq(UiLine)
    BY UiTextGrows
  <2> QED BY <1>1, <2>1 DEF UiInv, UiTyped
<1>3. \A w \in 1..Len(windows) : RangeOf(windows'[w]) = RangeOf(windows[w])
  BY DEF SameRanges, RangeOf
<1>4. UiBlockFits' /\ UiStaysOpen'
  <2>1. uiBlock[1] # 0 => uiBlock[1] \in 1..Len(windows)
    BY <1>1, UiTypes DEF UiInv, UiBlockFits
  <2>2. UiBlockFits'
    BY <1>1, <1>3, <2>1 DEF UiInv, UiBlockFits
  <2>3. UiStaysOpen'
    BY <1>1, <1>3 DEF UiInv, UiStaysOpen
  <2> QED BY <2>2, <2>3
<1>5. RangesFit' /\ WidgetsFit'
  BY ArraysStay
<1>6. UiLinesFit'
  BY <1>1, UiLinesStayFit
<1>7. AttributesFit'
  BY <1>1, AttributesStayFit
<1> QED BY <1>2, <1>4, <1>5, <1>6, <1>7 DEF UiInv

-----------------------------------------------------------------------------
(* The steps. *)

LEMMA TitleLineStep == UiInv /\ TitleLine => UiInv'
<1> SUFFICES ASSUME UiInv, TitleLine PROVE UiInv'
  OBVIOUS
<1>1. PICK kind \in UiLineKinds : WritesUi(kind) /\ kind = "title"
  BY DEF TitleLine, UiLineKinds
<1>2. UNCHANGED <<panels, widgets, uiOpen, uiWidgets, uiOnLine, uiBlock, uiRefused>>
  BY DEF TitleLine
<1>3. PICK k \in Nat : k = Len(windows) /\ k \in 1..k /\ k = uiBlock[1] /\ "window" \in uiOpen
                       /\ uiBlock[1] # 0 /\ uiBlock[2] = 0 /\ uiBlock[3] = 0
  <2>1. uiBlock[1] # 0 /\ uiBlock[2] = 0 /\ uiBlock[3] = 0
    BY DEF TitleLine
  <2>2. uiBlock[1] = Len(windows) /\ "window" \in uiOpen
    BY <2>1 DEF UiInv, UiBlockFits
  <2>3. uiBlock[1] \in Nat
    BY UiTypes
  <2> QED BY <2>1, <2>2, <2>3
<1>4. windows' = [windows EXCEPT ![k].title = TRUE]
  BY <1>3 DEF TitleLine
<1>5. windows \in Seq(UiWindow) /\ k \in 1..Len(windows) /\ windows[k] \in UiWindow
  <2>1. windows \in Seq(UiWindow)
    BY UiTypes
  <2>2. k \in 1..Len(windows)
    BY <1>3
  <2> QED BY <2>1, <2>2
<1>6. PICK new \in UiWindow : new = [windows[k] EXCEPT !.title = TRUE]
  BY <1>5 DEF UiWindow
<1>7. new.title = TRUE /\ new.start = windows[k].start /\ new.count = windows[k].count
  BY <1>5, <1>6 DEF UiWindow
<1>8. windows' = [windows EXCEPT ![k] = new]
  BY <1>3, <1>4, <1>6, UiTypes
<1>9. /\ windows' \in Seq(UiWindow) /\ Len(windows') = k /\ windows'[k] = new
      /\ \A i \in 1..k : i # k => windows'[i] = windows[i]
  <2>1. new \in UiWindow
    BY <1>6
  <2>2. /\ windows' \in Seq(UiWindow) /\ Len(windows') = Len(windows) /\ windows'[k] = new
        /\ \A i \in 1..Len(windows) : i # k => windows'[i] = windows[i]
    BY <1>5, <1>8, <2>1, ReplacedAt
  <2> QED BY <1>3, <2>2
<1>10. \A i \in 1..k :
         windows'[i].title <=> windows[i].title \/ (kind = "title" /\ uiBlock[1] = i)
  BY <1>1, <1>3, <1>7, <1>9
<1>11. SameRanges(windows, windows') /\ SameRanges(panels, panels') /\ Len(widgets') = Len(widgets)
  BY <1>2, <1>3, <1>7, <1>9 DEF SameRanges
<1>12. windows' \in Seq(UiWindow) /\ panels' \in Seq(UiPanel) /\ widgets' \in Seq(UiWidget)
       /\ uiRefused' \in BOOLEAN
  BY <1>2, <1>9, UiTypes DEF UiInv, UiTyped
<1> QED BY <1>1, <1>2, <1>3, <1>10, <1>11, <1>12, AttributeStep

LEMMA LayoutLineStep == UiInv /\ LayoutLine => UiInv'
<1> SUFFICES ASSUME UiInv, LayoutLine PROVE UiInv'
  OBVIOUS
<1>1. PICK kind \in UiLineKinds : WritesUi(kind) /\ kind = "layout"
  BY DEF LayoutLine, UiLineKinds
<1>2. UNCHANGED <<windows, widgets, uiOpen, uiWidgets, uiOnLine, uiBlock, uiRefused>>
  BY DEF LayoutLine
<1>3. PICK k \in Nat : k = Len(panels) /\ k \in 1..k /\ k = uiBlock[2] /\ "panel" \in uiOpen
                       /\ uiBlock[2] # 0 /\ uiBlock[3] = 0
  BY UiTypes DEF LayoutLine, UiInv, UiBlockFits
<1>4. panels' = [panels EXCEPT ![k].layout = TRUE]
  BY <1>3 DEF LayoutLine
<1>5. panels \in Seq(UiPanel) /\ k \in 1..Len(panels) /\ panels[k] \in UiPanel
  <2>1. panels \in Seq(UiPanel)
    BY UiTypes
  <2>2. k \in 1..Len(panels)
    BY <1>3
  <2> QED BY <2>1, <2>2
<1>6. PICK new \in UiPanel : new = [panels[k] EXCEPT !.layout = TRUE]
  BY <1>5 DEF UiPanel
<1>7. new.layout = TRUE /\ new.start = panels[k].start /\ new.count = panels[k].count
  BY <1>5, <1>6 DEF UiPanel
<1>8. panels' = [panels EXCEPT ![k] = new]
  BY <1>3, <1>4, <1>6, UiTypes
<1>9. /\ panels' \in Seq(UiPanel) /\ Len(panels') = k /\ panels'[k] = new
      /\ \A i \in 1..k : i # k => panels'[i] = panels[i]
  <2>1. new \in UiPanel
    BY <1>6
  <2>2. /\ panels' \in Seq(UiPanel) /\ Len(panels') = Len(panels) /\ panels'[k] = new
        /\ \A i \in 1..Len(panels) : i # k => panels'[i] = panels[i]
    BY <1>5, <1>8, <2>1, ReplacedAt
  <2> QED BY <1>3, <2>2
<1>10. \A i \in 1..k :
         panels'[i].layout <=> panels[i].layout \/ (kind = "layout" /\ uiBlock[2] = i)
  BY <1>1, <1>3, <1>7, <1>9
<1>11. SameRanges(windows, windows') /\ SameRanges(panels, panels') /\ Len(widgets') = Len(widgets)
  BY <1>2, <1>3, <1>7, <1>9 DEF SameRanges
<1>12. windows' \in Seq(UiWindow) /\ panels' \in Seq(UiPanel) /\ widgets' \in Seq(UiWidget)
       /\ uiRefused' \in BOOLEAN
  BY <1>2, <1>9, UiTypes DEF UiInv, UiTyped
<1> QED BY <1>1, <1>2, <1>3, <1>10, <1>11, <1>12, AttributeStep

LEMMA LabelLineStep == UiInv /\ LabelLine => UiInv'
<1> SUFFICES ASSUME UiInv, LabelLine PROVE UiInv'
  OBVIOUS
<1>1. PICK kind \in UiLineKinds : WritesUi(kind) /\ kind = "label"
  BY DEF LabelLine, UiLineKinds
<1>2. UNCHANGED <<windows, panels, uiOpen, uiWidgets, uiOnLine, uiBlock, uiRefused>>
  BY DEF LabelLine
<1>3. PICK k \in Nat : k = Len(widgets) /\ k \in 1..k /\ k = uiBlock[3] /\ "widget" \in uiOpen
                       /\ uiBlock[3] # 0
  BY UiTypes DEF LabelLine, UiInv, UiBlockFits
<1>4. widgets' = [widgets EXCEPT ![k].label = TRUE]
  BY <1>3 DEF LabelLine
<1>5. widgets \in Seq(UiWidget) /\ k \in 1..Len(widgets) /\ widgets[k] \in UiWidget
  <2>1. widgets \in Seq(UiWidget)
    BY UiTypes
  <2>2. k \in 1..Len(widgets)
    BY <1>3
  <2> QED BY <2>1, <2>2
<1>6. PICK new \in UiWidget : new = [widgets[k] EXCEPT !.label = TRUE]
  BY <1>5 DEF UiWidget
<1>7. new.label = TRUE
  BY <1>5, <1>6 DEF UiWidget
<1>8. widgets' = [widgets EXCEPT ![k] = new]
  BY <1>3, <1>4, <1>6, UiTypes
<1>9. /\ widgets' \in Seq(UiWidget) /\ Len(widgets') = k /\ widgets'[k] = new
      /\ \A i \in 1..k : i # k => widgets'[i] = widgets[i]
  <2>1. new \in UiWidget
    BY <1>6
  <2>2. /\ widgets' \in Seq(UiWidget) /\ Len(widgets') = Len(widgets) /\ widgets'[k] = new
        /\ \A i \in 1..Len(widgets) : i # k => widgets'[i] = widgets[i]
    BY <1>5, <1>8, <2>1, ReplacedAt
  <2> QED BY <1>3, <2>2
<1>10. \A i \in 1..k :
         widgets'[i].label <=> widgets[i].label \/ (kind = "label" /\ uiBlock[3] = i)
  BY <1>1, <1>3, <1>7, <1>9
<1>11. SameRanges(windows, windows') /\ SameRanges(panels, panels') /\ Len(widgets') = Len(widgets)
  BY <1>2, <1>3, <1>7, <1>9 DEF SameRanges
<1>12. windows' \in Seq(UiWindow) /\ panels' \in Seq(UiPanel) /\ widgets' \in Seq(UiWidget)
       /\ uiRefused' \in BOOLEAN
  BY <1>2, <1>9, UiTypes DEF UiInv, UiTyped
<1> QED BY <1>1, <1>2, <1>3, <1>10, <1>11, <1>12, AttributeStep

LEMMA RefusesStep ==
  ASSUME UiInv, NEW kind \in UiLineKinds \ {"title", "layout", "label"}, WritesUi(kind), Refuses
  PROVE  UiInv'
<1>1. /\ UNCHANGED <<windows, panels, widgets, uiOpen, uiWidgets, uiOnLine, uiBlock>>
      /\ uiRefused' = TRUE
  BY DEF Refuses
<1>2. SameRanges(windows, windows') /\ SameRanges(panels, panels') /\ Len(widgets') = Len(widgets)
  BY <1>1 DEF SameRanges
<1>3. kind # "title" /\ kind # "layout" /\ kind # "label"
  OBVIOUS
<1> QED BY <1>1, <1>2, <1>3, AttributeStep, UiTypes

LEMMA EnclosingIs ==
  ASSUME NEW w \in Nat, NEW p \in Nat, NEW g \in Nat
  PROVE  Enclosing(<<w, p, g>>)
           = IF g # 0 THEN <<w, p, 0>> ELSE IF p # 0 THEN <<w, 0, 0>> ELSE <<0, 0, 0>>
<1> DEFINE b == <<w, p, g>>
<1>1. b[1] = w /\ b[2] = p /\ b[3] = g
  OBVIOUS
<1>2. [b EXCEPT ![3] = 0] = <<w, p, 0>>
  OBVIOUS
<1>3. g = 0 => [b EXCEPT ![2] = 0] = <<w, 0, 0>>
  OBVIOUS
<1>4. Enclosing(b) = IF b[3] # 0 THEN [b EXCEPT ![3] = 0]
                     ELSE IF b[2] # 0 THEN [b EXCEPT ![2] = 0] ELSE <<0, 0, 0>>
  BY DEF Enclosing, Outside
<1> QED BY <1>1, <1>2, <1>3, <1>4

\* What a block on one line and one on several leave.
LEMMA BeginsIs ==
  ASSUME NEW b, NEW oneLine \in BOOLEAN, Begins(b, oneLine)
  PROVE  /\ uiBlock' = IF oneLine THEN uiBlock ELSE b
         /\ oneLine \/ uiOnLine # {} => uiOnLine' # {}
<1>1. CASE oneLine
  BY <1>1 DEF Begins
<1>2. CASE ~oneLine
  BY <1>2 DEF Begins
<1> QED BY <1>1, <1>2

\* The author leaves the innermost block, and the parser the innermost of what is open.
LEMMA UiBraceLineStep == UiInv /\ UiBraceLine => UiInv'
<1> SUFFICES ASSUME UiInv, UiBraceLine PROVE UiInv'
  OBVIOUS
<1>1. PICK kind \in UiLineKinds : WritesUi(kind) /\ kind = "close"
  BY DEF UiBraceLine, UiLineKinds
<1>2. /\ UNCHANGED <<windows, panels, widgets, uiWidgets, uiOnLine, uiRefused>>
      /\ uiOpen' = uiOpen \ {Innermost(uiOpen)} /\ uiBlock' = Enclosing(uiBlock)
      /\ uiBlock # <<0, 0, 0>>
  BY DEF UiBraceLine, Outside
<1>3. SameRanges(windows, windows') /\ SameRanges(panels, panels') /\ Len(widgets') = Len(widgets)
  BY <1>2 DEF SameRanges
<1>4. PICK w \in Nat, p \in Nat, g \in Nat : uiBlock = <<w, p, g>>
  BY UiTypes DEF UiBlocks
<1>5. /\ w # 0 => w = Len(windows) /\ "window" \in uiOpen
      /\ p # 0 => p = Len(panels) /\ "panel" \in uiOpen
      /\ w # 0 /\ p # 0 => p \in RangeOf(windows[w])
      /\ g # 0 => g = Len(widgets) /\ "widget" \in uiOpen
      /\ w # 0 \/ p # 0 \/ g # 0
  <2>1. uiBlock[1] = w /\ uiBlock[2] = p /\ uiBlock[3] = g
    BY <1>4
  <2>2. w # 0 \/ p # 0 \/ g # 0
    BY <1>2, <1>4
  <2> QED BY <2>1, <2>2 DEF UiInv, UiBlockFits
<1>6. uiBlock' = IF g # 0 THEN <<w, p, 0>> ELSE IF p # 0 THEN <<w, 0, 0>> ELSE <<0, 0, 0>>
  BY <1>2, <1>4, EnclosingIs
<1>7. uiOpen' = IF "widget" \in uiOpen THEN uiOpen \ {"widget"}
                ELSE IF "panel" \in uiOpen THEN uiOpen \ {"panel"} ELSE uiOpen \ {"window"}
  BY <1>2 DEF Innermost
<1>8. UiTyped'
  <2>1. uiText' \in Seq(UiLine) /\ uiBlock' \in UiBlocks
    BY <1>1, <1>6, UiTextGrows DEF UiBlocks
  <2>2. uiOpen' \in SUBSET {"window", "panel", "widget"}
    BY <1>2, UiTypes
  <2> QED BY <1>2, <2>1, <2>2 DEF UiInv, UiTyped
<1>9. UiBlockFits'
  <2>1. CASE g # 0
    BY <1>2, <1>5, <1>6, <1>7, <2>1 DEF UiBlockFits
  <2>2. CASE g = 0 /\ p # 0
    BY <1>2, <1>5, <1>6, <1>7, <2>2 DEF UiBlockFits
  <2>3. CASE g = 0 /\ p = 0
    BY <1>6, <2>3 DEF UiBlockFits
  <2> QED BY <2>1, <2>2, <2>3
<1>10. UiStaysOpen'
  <2>1. /\ "window" \in uiOpen => Len(windows) > 0
        /\ "panel" \in uiOpen => Len(panels) > 0
        /\ "window" \in uiOpen /\ w = 0 => uiOnLine # {}
        /\ "panel" \in uiOpen /\ p = 0 => uiOnLine # {}
        /\ "widget" \in uiOpen /\ g = 0 => uiOnLine # {}
        /\ w = 0 /\ p # 0 =>
             \A i \in 1..Len(windows) : p \in RangeOf(windows[i]) => uiOnLine # {}
    <3>1. uiBlock[1] = w /\ uiBlock[2] = p /\ uiBlock[3] = g
      BY <1>4
    <3> QED BY <3>1 DEF UiInv, UiStaysOpen
  <2>2. CASE g # 0
    <3>1. uiBlock'[1] = w /\ uiBlock'[2] = p /\ uiBlock'[3] = 0
      BY <1>6, <2>2
    <3>2. uiOpen' = uiOpen \ {"widget"}
      BY <1>5, <1>7, <2>2
    <3> QED BY <1>2, <2>1, <3>1, <3>2 DEF UiStaysOpen
  <2>3. CASE g = 0 /\ p # 0
    <3>1. uiBlock'[1] = w /\ uiBlock'[2] = 0 /\ uiBlock'[3] = 0
      BY <1>6, <2>3
    <3>2. /\ uiOpen' \subseteq uiOpen /\ "widget" \notin uiOpen'
          /\ "panel" \in uiOpen' => "widget" \in uiOpen
      BY <1>7
    <3> QED BY <1>2, <2>1, <2>3, <3>1, <3>2 DEF UiStaysOpen
  <2>4. CASE g = 0 /\ p = 0
    <3>1. uiBlock'[1] = 0 /\ uiBlock'[2] = 0 /\ uiBlock'[3] = 0
      BY <1>6, <2>4
    <3>2. /\ uiOpen' \subseteq uiOpen /\ "widget" \notin uiOpen'
          /\ "window" \in uiOpen' => "widget" \in uiOpen \/ "panel" \in uiOpen
      BY <1>7
    <3> QED BY <1>2, <2>1, <2>4, <3>1, <3>2 DEF UiStaysOpen
  <2> QED BY <2>2, <2>3, <2>4
<1>11. RangesFit' /\ WidgetsFit'
  BY <1>2, <1>3, ArraysStay
<1>12. UiLinesFit'
  BY <1>1, <1>2, UiLinesStayFit, UiTypes
<1>13. AttributesFit'
  BY <1>1, <1>2, AttributesStayFit, UiTypes
<1> QED BY <1>8, <1>9, <1>10, <1>11, <1>12, <1>13 DEF UiInv

LEMMA WindowLineStep == ASSUME UiInv, NEW oneLine \in BOOLEAN, WindowLine(oneLine) PROVE UiInv'
<1>1. PICK kind \in UiLineKinds \ {"title", "layout", "label"} :
        WritesUi(kind) /\ kind = "window" /\ kind \in UiLineKinds
  BY DEF WindowLine, UiLineKinds
<1>2. PICK k \in Nat, m \in Nat, n \in Nat :
        k = Len(windows) /\ m = Len(panels) /\ n = Len(widgets)
  BY UiTypes
<1>3. CASE k >= MaxWindows
  BY <1>1, <1>2, <1>3, RefusesStep DEF WindowLine
<1>4. CASE ~(k >= MaxWindows)
  <2>1. PICK new \in UiWindow : /\ windows' = Append(windows, new)
                                /\ new.start = m + 1 /\ new.count = 0 /\ new.title = FALSE
    <3> DEFINE new == [start |-> m + 1, count |-> 0, title |-> FALSE]
    <3>1. windows' = Append(windows, new)
      BY <1>2, <1>4 DEF WindowLine
    <3>2. new \in UiWindow /\ new.start = m + 1 /\ new.count = 0 /\ new.title = FALSE
      BY DEF UiWindow
    <3> HIDE DEF new
    <3> QED BY <3>1, <3>2
  <2>2. /\ uiOpen' = uiOpen \cup {"window"} /\ uiBlock = <<0, 0, 0>>
        /\ Begins(<<k + 1, 0, 0>>, oneLine)
        /\ UNCHANGED <<panels, widgets, uiWidgets, uiRefused>>
    BY <1>2, <1>4 DEF WindowLine, Outside
  <2>17. /\ uiBlock' = IF oneLine THEN <<0, 0, 0>> ELSE <<k + 1, 0, 0>>
         /\ oneLine \/ uiOnLine # {} => uiOnLine' # {}
    BY <2>2, BeginsIs
  <2>18. /\ uiBlock'[1] = (IF oneLine THEN 0 ELSE k + 1)
         /\ uiBlock'[2] = 0 /\ uiBlock'[3] = 0 /\ uiBlock' \in UiBlocks
    <3>1. CASE oneLine
      BY <2>17, <3>1 DEF UiBlocks
    <3>2. CASE ~oneLine
      BY <2>17, <3>2 DEF UiBlocks
    <3> QED BY <3>1, <3>2
  <2>3. /\ windows' \in Seq(UiWindow) /\ Len(windows') = k + 1
        /\ \A i \in 1..k : windows'[i] = windows[i]
        /\ windows'[k + 1] = new /\ windows \in Seq(UiWindow) /\ k + 1 <= MaxWindows
    <3>1. windows \in Seq(UiWindow) /\ MaxWindows \in Nat
      BY UiTypes
    <3>2. k + 1 <= MaxWindows
      BY <1>4, <3>1
    <3> QED BY <1>2, <2>1, <3>1, <3>2, Appended
  <2>4. UiTyped'
    <3>1. uiText' \in Seq(UiLine)
      BY <1>1, UiTextGrows
    <3>2. uiOpen' \in SUBSET {"window", "panel", "widget"}
      BY <2>2, UiTypes
    <3> QED BY <2>2, <2>3, <2>18, <3>1, <3>2 DEF UiInv, UiTyped
  <2>5. UiBlockFits'
    BY <2>2, <2>3, <2>18 DEF UiBlockFits
  <2>6. UiStaysOpen'
    <3>1. /\ "panel" \in uiOpen => m > 0 /\ uiOnLine # {}
          /\ "widget" \in uiOpen => n > 0 /\ uiOnLine # {}
      BY <1>2, <2>2 DEF UiInv, UiStaysOpen
    <3>2. Len(panels') = m /\ Len(widgets') = n
      BY <1>2, <2>2
    <3>3. CASE oneLine
      BY <2>2, <2>3, <2>17, <2>18, <3>1, <3>2, <3>3 DEF UiStaysOpen
    <3>4. CASE ~oneLine
      <4>1. uiBlock'[1] = k + 1 /\ uiBlock'[2] = 0 /\ uiBlock'[3] = 0 /\ k + 1 # 0
        BY <2>18, <3>4
      <4> QED BY <2>2, <2>3, <2>17, <3>1, <3>2, <4>1 DEF UiStaysOpen
    <3> QED BY <3>3, <3>4
  <2>7. RangesFit'
    <3>1. Ranges(windows) /\ Follow(windows, m) /\ Follow(panels, n)
      BY <1>2, UiRanges DEF UiInv, RangesFit
    <3>2. Follow(windows', m) /\ EndsAt(windows', m)
      BY <1>2, <2>1, <2>3, <3>1, RangeBegins
    <3>3. "panel" \in uiOpen => EndsAt(panels, n)
      BY <1>2 DEF UiInv, RangesFit
    <3> QED BY <1>2, <2>2, <3>1, <3>2, <3>3 DEF RangesFit
  <2>8. WidgetsFit'
    <3>1. /\ Len(windows') \in Nat /\ Len(windows') >= Len(windows)
          /\ Len(panels') \in Nat /\ Len(panels') >= Len(panels)
      BY <1>2, <2>2, <2>3
    <3>2. \A w \in 1..Len(windows) : RangeOf(windows[w]) \subseteq RangeOf(windows'[w])
      BY <1>2, <2>3
    <3>3. \A w \in 1..Len(windows') : \A p \in 1..Len(panels) :
            p \in RangeOf(windows'[w]) => w \in 1..Len(windows) /\ p \in RangeOf(windows[w])
      <4>1. RangeOf(windows'[k + 1]) = {}
        BY <2>1, <2>3 DEF RangeOf
      <4>2. \A w \in 1..(k + 1) : w \in 1..k \/ w = k + 1
        OBVIOUS
      <4> QED BY <1>2, <2>3, <4>1, <4>2
    <3>4. \A g \in 1..Len(widgets) : WidgetFits(g)'
      BY <2>2, <3>1, <3>2, <3>3, WidgetsStay
    <3> QED BY <2>2, <3>4 DEF WidgetsFit
  <2>9. UiLinesFit'
    BY <1>1, <1>2, <2>2, <2>3, UiLinesStayFit
  <2>10. AttributesFit'
    <3>1. \A w \in 1..Len(windows') :
            windows'[w].title <=> \/ w \in 1..Len(windows) /\ windows[w].title
                                  \/ kind = "title" /\ uiBlock[1] = w
      <4>1. \A w \in 1..(k + 1) : w \in 1..k \/ w = k + 1
        OBVIOUS
      <4> QED BY <1>1, <1>2, <2>1, <2>3, <4>1
    <3>2. Len(windows') \in Nat /\ Len(panels') \in Nat /\ Len(widgets') \in Nat
      BY <1>2, <2>2, <2>3
    <3> QED BY <1>1, <2>2, <3>1, <3>2, AttributesStayFit
  <2> QED BY <2>4, <2>5, <2>6, <2>7, <2>8, <2>9, <2>10 DEF UiInv
<1> QED BY <1>2, <1>3, <1>4

\* A panel goes to the window that is open, if one is.
OpenWindowCounts ==
  windows' = IF "window" \in uiOpen
             THEN [windows EXCEPT ![Len(windows)].count = @ + 1] ELSE windows

LEMMA OpenWindowTakes ==
  ASSUME UiInv, NEW k \in Nat, k = Len(windows), NEW m \in Nat, m = Len(panels),
         OpenWindowCounts
  PROVE  /\ windows' \in Seq(UiWindow) /\ Len(windows') = k
         /\ \A i \in 1..k : windows'[i].title <=> windows[i].title
         /\ Follow(windows', m + 1)
         /\ \A i \in 1..k : RangeOf(windows[i]) \subseteq RangeOf(windows'[i])
         /\ \A i \in 1..k : \A x \in 1..m : x \in RangeOf(windows'[i]) => x \in RangeOf(windows[i])
         /\ "window" \in uiOpen => EndsAt(windows', m + 1) /\ m + 1 \in RangeOf(windows'[k])
         /\ \A i \in 1..k : m + 1 \in RangeOf(windows'[i]) => "window" \in uiOpen /\ i = k
<1>1. /\ Ranges(windows) /\ Follow(windows, m) /\ windows \in Seq(UiWindow)
      /\ "window" \in uiOpen => EndsAt(windows, m)
  BY UiTypes, UiRanges DEF UiInv, RangesFit
<1>2. CASE "window" \notin uiOpen
  <2>1. windows' = windows
    BY <1>2 DEF OpenWindowCounts
  <2>2. Follow(windows, m + 1) /\ \A i \in 1..k : m + 1 \notin RangeOf(windows[i])
    BY <1>1, RangesWait
  <2> QED BY <1>1, <1>2, <2>1, <2>2
<1>3. CASE "window" \in uiOpen
  <2>1. k > 0 /\ k \in 1..k
    BY <1>3 DEF UiInv, UiStaysOpen
  <2>2. PICK old \in UiWindow : old = windows[k]
    BY <1>1, <2>1
  <2>3. PICK new \in UiWindow : /\ new = [windows[k] EXCEPT !.count = @ + 1]
                                /\ new.start = windows[k].start
                                /\ new.count = windows[k].count + 1
                                /\ new.title = windows[k].title
    <3> DEFINE new == [old EXCEPT !.count = @ + 1]
    <3>1. /\ new \in UiWindow /\ new.start = old.start /\ new.count = old.count + 1
          /\ new.title = old.title
      BY DEF UiWindow
    <3>2. new = [windows[k] EXCEPT !.count = @ + 1]
      BY <2>2
    <3> HIDE DEF new
    <3> QED BY <2>2, <3>1, <3>2
  <2>4. windows' = [windows EXCEPT ![k] = new]
    <3>1. windows' = [windows EXCEPT ![k].count = @ + 1]
      BY <1>3 DEF OpenWindowCounts
    <3> QED BY <1>1, <2>1, <2>3, <3>1
  <2>5. /\ windows' \in Seq(UiWindow) /\ Len(windows') = k /\ windows'[k] = new
        /\ \A i \in 1..k : i # k => windows'[i] = windows[i]
    <3>1. new \in UiWindow
      BY <2>3
    <3> QED BY <1>1, <2>1, <2>4, <3>1, ReplacedAt
  <2>6. ASSUME NEW i \in 1..k
        PROVE  /\ windows'[i].start = windows[i].start
               /\ windows'[i].count = IF i = k THEN windows[i].count + 1 ELSE windows[i].count
               /\ windows'[i].title = windows[i].title
    <3>1. CASE i = k
      BY <2>3, <2>5, <3>1
    <3>2. CASE i # k
      <4>1. windows'[i] = windows[i]
        BY <2>5, <3>2
      <4> QED BY <3>2, <4>1
    <3> QED BY <3>1, <3>2
  <2>7. Len(windows) = k /\ Len(windows) > 0 /\ Len(windows') = Len(windows)
    BY <2>1, <2>5
  <2>8. \A i \in 1..Len(windows) :
          /\ windows'[i].start = windows[i].start
          /\ windows'[i].count = IF i = Len(windows) THEN windows[i].count + 1
                                 ELSE windows[i].count
    BY <2>6
  <2>9. Ranges(windows) /\ Follow(windows, m) /\ EndsAt(windows, m)
    BY <1>1, <1>3
  <2>10. Follow(windows', m + 1) /\ EndsAt(windows', m + 1)
    BY <2>7, <2>8, <2>9, RangeTakes
  <2>11. /\ m + 1 \in RangeOf(windows'[k])
         /\ \A i \in 1..k :
              /\ RangeOf(windows[i]) \subseteq RangeOf(windows'[i])
              /\ \A x \in 1..m : x \in RangeOf(windows'[i]) => x \in RangeOf(windows[i])
              /\ m + 1 \in RangeOf(windows'[i]) => i = k
    BY <2>7, <2>8, <2>9, LastTakes
  <2> QED BY <1>3, <2>5, <2>6, <2>10, <2>11
<1> QED BY <1>2, <1>3

LEMMA PanelLineStep == ASSUME UiInv, NEW oneLine \in BOOLEAN, PanelLine(oneLine) PROVE UiInv'
<1>1. PICK kind \in UiLineKinds \ {"title", "layout", "label"} :
        WritesUi(kind) /\ kind = "panel" /\ kind \in UiLineKinds
  BY DEF PanelLine, UiLineKinds
<1>2. PICK k \in Nat, m \in Nat, n \in Nat :
        k = Len(windows) /\ m = Len(panels) /\ n = Len(widgets)
  BY UiTypes
<1>3. CASE m >= MaxPanels
  BY <1>1, <1>2, <1>3, RefusesStep DEF PanelLine
<1>4. CASE ~(m >= MaxPanels)
  <2>0. PICK w \in Nat : /\ uiBlock = <<w, 0, 0>>
                         /\ uiBlock[1] = w /\ uiBlock[2] = 0 /\ uiBlock[3] = 0
    <3>1. PICK w \in Nat, p \in Nat, g \in Nat : uiBlock = <<w, p, g>>
      BY UiTypes DEF UiBlocks
    <3>2. uiBlock[1] = w /\ uiBlock[2] = p /\ uiBlock[3] = g
      BY <3>1
    <3>3. p = 0 /\ g = 0
      BY <3>2 DEF PanelLine
    <3> QED BY <3>1, <3>2, <3>3
  <2>1. w # 0 => w = k /\ "window" \in uiOpen
    BY <1>2, <2>0 DEF UiInv, UiBlockFits
  <2>2. /\ uiOpen' = uiOpen \cup {"panel"} /\ UNCHANGED <<widgets, uiWidgets, uiRefused>>
        /\ Begins(<<w, m + 1, 0>>, oneLine) /\ OpenWindowCounts
    BY <1>2, <1>4, <2>0 DEF PanelLine, OpenWindowCounts
  <2>3. /\ uiBlock' = IF oneLine THEN <<w, 0, 0>> ELSE <<w, m + 1, 0>>
        /\ oneLine \/ uiOnLine # {} => uiOnLine' # {}
    BY <2>0, <2>2, BeginsIs
  <2>4. /\ uiBlock'[1] = w /\ uiBlock'[2] = (IF oneLine THEN 0 ELSE m + 1)
        /\ uiBlock'[3] = 0 /\ uiBlock' \in UiBlocks
    <3>1. CASE oneLine
      BY <2>3, <3>1 DEF UiBlocks
    <3>2. CASE ~oneLine
      BY <2>3, <3>2 DEF UiBlocks
    <3> QED BY <3>1, <3>2
  <2>5. PICK new \in UiPanel : /\ panels' = Append(panels, new)
                               /\ new.start = n + 1 /\ new.count = 0 /\ new.layout = FALSE
    <3> DEFINE new == [start |-> n + 1, count |-> 0, layout |-> FALSE]
    <3>1. panels' = Append(panels, new)
      BY <1>2, <1>4 DEF PanelLine
    <3>2. new \in UiPanel /\ new.start = n + 1 /\ new.count = 0 /\ new.layout = FALSE
      BY DEF UiPanel
    <3> HIDE DEF new
    <3> QED BY <3>1, <3>2
  <2>6. /\ windows' \in Seq(UiWindow) /\ Len(windows') = k
        /\ \A i \in 1..k : windows'[i].title <=> windows[i].title
        /\ Follow(windows', m + 1)
        /\ \A i \in 1..k : RangeOf(windows[i]) \subseteq RangeOf(windows'[i])
        /\ \A i \in 1..k : \A x \in 1..m : x \in RangeOf(windows'[i]) => x \in RangeOf(windows[i])
        /\ "window" \in uiOpen => EndsAt(windows', m + 1) /\ m + 1 \in RangeOf(windows'[k])
        /\ \A i \in 1..k : m + 1 \in RangeOf(windows'[i]) => "window" \in uiOpen /\ i = k
    BY <1>2, <2>2, OpenWindowTakes
  <2>7. /\ panels' \in Seq(UiPanel) /\ Len(panels') = m + 1
        /\ \A i \in 1..m : panels'[i] = panels[i]
        /\ panels'[m + 1] = new /\ m + 1 <= MaxPanels
    <3>1. panels \in Seq(UiPanel) /\ MaxPanels \in Nat
      BY UiTypes
    <3>2. m + 1 <= MaxPanels
      BY <1>4, <3>1
    <3> QED BY <1>2, <2>5, <3>1, <3>2, Appended
  <2>8. Len(windows') = k /\ Len(panels') = m + 1 /\ Len(widgets') = n
    BY <1>2, <2>2, <2>6, <2>7
  <2>9. UiTyped'
    <3>1. uiText' \in Seq(UiLine)
      BY <1>1, UiTextGrows
    <3>2. uiOpen' \in SUBSET {"window", "panel", "widget"}
      BY <2>2, UiTypes
    <3>3. k <= MaxWindows
      BY <1>2, UiTypes
    <3> QED BY <2>2, <2>4, <2>6, <2>7, <3>1, <3>2, <3>3 DEF UiInv, UiTyped
  <2>10. RangesFit'
    <3>1. Ranges(panels) /\ Follow(panels, n)
      BY <1>2, UiRanges DEF UiInv, RangesFit
    <3>2. Follow(panels', n) /\ EndsAt(panels', n)
      BY <1>2, <2>5, <2>7, <3>1, RangeBegins
    <3>3. "window" \in uiOpen' => "window" \in uiOpen
      BY <2>2
    <3> QED BY <2>6, <2>8, <3>2, <3>3 DEF RangesFit
  <2>11. UiBlockFits'
    BY <2>1, <2>2, <2>4, <2>6, <2>8 DEF UiBlockFits
  <2>12. UiStaysOpen'
    <3>1. /\ "window" \in uiOpen => k > 0 /\ (w = 0 => uiOnLine # {})
          /\ "widget" \in uiOpen => n > 0 /\ uiOnLine # {}
      BY <1>2, <2>0 DEF UiInv, UiStaysOpen
    <3>2. ASSUME w = 0, NEW i \in 1..k, m + 1 \in RangeOf(windows'[i]) PROVE uiOnLine' # {}
      BY <2>3, <2>6, <3>1, <3>2
    <3> QED BY <2>2, <2>3, <2>4, <2>8, <3>1, <3>2 DEF UiStaysOpen
  <2>13. WidgetsFit'
    <3>1. /\ Len(windows') \in Nat /\ Len(windows') >= Len(windows)
          /\ Len(panels') \in Nat /\ Len(panels') >= Len(panels)
      BY <1>2, <2>8
    <3>2. /\ \A i \in 1..Len(windows) : RangeOf(windows[i]) \subseteq RangeOf(windows'[i])
          /\ \A i \in 1..Len(windows') : \A x \in 1..Len(panels) :
               x \in RangeOf(windows'[i]) => i \in 1..Len(windows) /\ x \in RangeOf(windows[i])
      BY <1>2, <2>6
    <3>3. \A i \in 1..Len(panels) : RangeOf(panels[i]) \subseteq RangeOf(panels'[i])
      BY <1>2, <2>7
    <3>4. \A i \in 1..Len(panels') : \A x \in 1..Len(widgets) :
            x \in RangeOf(panels'[i]) => i \in 1..Len(panels) /\ x \in RangeOf(panels[i])
      <4>1. RangeOf(panels'[m + 1]) = {}
        BY <2>5, <2>7 DEF RangeOf
      <4>2. \A i \in 1..(m + 1) : i \in 1..m \/ i = m + 1
        OBVIOUS
      <4> QED BY <1>2, <2>7, <4>1, <4>2
    <3>5. \A x \in 1..Len(widgets) : WidgetFits(x)'
      BY <2>2, <3>1, <3>2, <3>3, <3>4, WidgetsStay
    <3> QED BY <2>2, <3>5 DEF WidgetsFit
  <2>14. UiLinesFit'
    BY <1>1, <1>2, <2>8, UiLinesStayFit
  <2>15. AttributesFit'
    <3>1. \A i \in 1..Len(windows') :
            windows'[i].title <=> \/ i \in 1..Len(windows) /\ windows[i].title
                                  \/ kind = "title" /\ uiBlock[1] = i
      BY <1>1, <1>2, <2>6
    <3>2. \A i \in 1..Len(panels') :
            panels'[i].layout <=> \/ i \in 1..Len(panels) /\ panels[i].layout
                                  \/ kind = "layout" /\ uiBlock[2] = i
      <4>1. \A i \in 1..(m + 1) : i \in 1..m \/ i = m + 1
        OBVIOUS
      <4> QED BY <1>1, <1>2, <2>5, <2>7, <4>1
    <3>3. Len(windows') \in Nat /\ Len(panels') \in Nat /\ Len(widgets') \in Nat
      BY <2>8
    <3> QED BY <1>1, <2>2, <3>1, <3>2, <3>3, AttributesStayFit
  <2> QED BY <2>9, <2>10, <2>11, <2>12, <2>13, <2>14, <2>15 DEF UiInv
<1> QED BY <1>2, <1>3, <1>4

\* A widget goes to the panel that is open, if one is.
OpenPanelCounts ==
  panels' = IF "panel" \in uiOpen
            THEN [panels EXCEPT ![Len(panels)].count = @ + 1] ELSE panels

LEMMA OpenPanelTakes ==
  ASSUME UiInv, NEW m \in Nat, m = Len(panels), NEW n \in Nat, n = Len(widgets),
         OpenPanelCounts
  PROVE  /\ panels' \in Seq(UiPanel) /\ Len(panels') = m
         /\ \A i \in 1..m : panels'[i].layout <=> panels[i].layout
         /\ Follow(panels', n + 1)
         /\ \A i \in 1..m : RangeOf(panels[i]) \subseteq RangeOf(panels'[i])
         /\ \A i \in 1..m : \A x \in 1..n : x \in RangeOf(panels'[i]) => x \in RangeOf(panels[i])
         /\ "panel" \in uiOpen => EndsAt(panels', n + 1) /\ n + 1 \in RangeOf(panels'[m])
         /\ \A i \in 1..m : n + 1 \in RangeOf(panels'[i]) => "panel" \in uiOpen /\ i = m
<1>1. /\ Ranges(panels) /\ Follow(panels, n) /\ panels \in Seq(UiPanel)
      /\ "panel" \in uiOpen => EndsAt(panels, n)
  BY UiTypes, UiRanges DEF UiInv, RangesFit
<1>3. CASE "panel" \notin uiOpen
  <2>1. panels' = panels
    BY <1>3 DEF OpenPanelCounts
  <2>2. Follow(panels, n + 1) /\ \A i \in 1..m : n + 1 \notin RangeOf(panels[i])
    BY <1>1, RangesWait
  <2> QED BY <1>1, <1>3, <2>1, <2>2
<1>4. CASE "panel" \in uiOpen
  <2>1. m > 0 /\ m \in 1..m
    BY <1>4 DEF UiInv, UiStaysOpen
  <2>2. PICK old \in UiPanel : old = panels[m]
    BY <1>1, <2>1
  <2>3. PICK new \in UiPanel : /\ new = [panels[m] EXCEPT !.count = @ + 1]
                               /\ new.start = panels[m].start
                               /\ new.count = panels[m].count + 1
                               /\ new.layout = panels[m].layout
    <3> DEFINE new == [old EXCEPT !.count = @ + 1]
    <3>1. /\ new \in UiPanel /\ new.start = old.start /\ new.count = old.count + 1
          /\ new.layout = old.layout
      BY DEF UiPanel
    <3>2. new = [panels[m] EXCEPT !.count = @ + 1]
      BY <2>2
    <3> HIDE DEF new
    <3> QED BY <2>2, <3>1, <3>2
  <2>4. panels' = [panels EXCEPT ![m] = new]
    <3>1. panels' = [panels EXCEPT ![m].count = @ + 1]
      BY <1>4 DEF OpenPanelCounts
    <3> QED BY <1>1, <2>1, <2>3, <3>1
  <2>5. /\ panels' \in Seq(UiPanel) /\ Len(panels') = m /\ panels'[m] = new
        /\ \A i \in 1..m : i # m => panels'[i] = panels[i]
    <3>1. new \in UiPanel
      BY <2>3
    <3> QED BY <1>1, <2>1, <2>4, <3>1, ReplacedAt
  <2>6. \A i \in 1..m : /\ panels'[i].start = panels[i].start
                        /\ panels'[i].count = IF i = m THEN panels[i].count + 1
                                              ELSE panels[i].count
                        /\ panels'[i].layout = panels[i].layout
    <3> SUFFICES ASSUME NEW i \in 1..m
                 PROVE  /\ panels'[i].start = panels[i].start
                        /\ panels'[i].count = IF i = m THEN panels[i].count + 1
                                              ELSE panels[i].count
                        /\ panels'[i].layout = panels[i].layout
      OBVIOUS
    <3>1. CASE i = m
      BY <2>3, <2>5, <3>1
    <3>2. CASE i # m
      <4>1. panels'[i] = panels[i]
        BY <2>5, <3>2
      <4> QED BY <3>2, <4>1
    <3> QED BY <3>1, <3>2
  <2>7. Len(panels) = m /\ Len(panels) > 0 /\ Len(panels') = Len(panels)
    BY <2>1, <2>5
  <2>8. \A i \in 1..Len(panels) :
          /\ panels'[i].start = panels[i].start
          /\ panels'[i].count = IF i = Len(panels) THEN panels[i].count + 1
                                ELSE panels[i].count
    BY <2>6
  <2>9. Ranges(panels) /\ Follow(panels, n) /\ EndsAt(panels, n)
    BY <1>1, <1>4
  <2>10. Follow(panels', n + 1) /\ EndsAt(panels', n + 1)
    BY <2>7, <2>8, <2>9, RangeTakes
  <2>11. /\ n + 1 \in RangeOf(panels'[m])
         /\ \A i \in 1..m :
              /\ RangeOf(panels[i]) \subseteq RangeOf(panels'[i])
              /\ \A x \in 1..n : x \in RangeOf(panels'[i]) => x \in RangeOf(panels[i])
              /\ n + 1 \in RangeOf(panels'[i]) => i = m
    BY <2>7, <2>8, <2>9, LastTakes
  <2> QED BY <1>4, <2>5, <2>6, <2>10, <2>11
<1> QED BY <1>3, <1>4

LEMMA WidgetLineStep == ASSUME UiInv, NEW oneLine \in BOOLEAN, WidgetLine(oneLine) PROVE UiInv'
<1>1. PICK kind \in UiLineKinds \ {"title", "layout", "label"} :
        WritesUi(kind) /\ kind \in UiLineKinds
  BY DEF WidgetLine, UiLineKinds
<1>2. PICK k \in Nat, m \in Nat, n \in Nat :
        k = Len(windows) /\ m = Len(panels) /\ n = Len(widgets)
  BY UiTypes
<1>3. CASE n >= MaxWidgets
  BY <1>1, <1>2, <1>3, RefusesStep DEF WidgetLine
<1>4. CASE ~(n >= MaxWidgets)
  <2>0. PICK w \in Nat, p \in Nat : /\ uiBlock = <<w, p, 0>>
                                    /\ uiBlock[1] = w /\ uiBlock[2] = p /\ uiBlock[3] = 0
    <3>1. PICK w \in Nat, p \in Nat, g \in Nat : uiBlock = <<w, p, g>>
      BY UiTypes DEF UiBlocks
    <3>2. uiBlock[1] = w /\ uiBlock[2] = p /\ uiBlock[3] = g
      BY <3>1
    <3>3. g = 0
      BY <3>2 DEF WidgetLine
    <3> QED BY <3>1, <3>2, <3>3
  <2>1. /\ w # 0 => w = k /\ "window" \in uiOpen
        /\ p # 0 => p = m /\ "panel" \in uiOpen
        /\ w # 0 /\ p # 0 => p \in RangeOf(windows[w])
    BY <1>2, <2>0 DEF UiInv, UiBlockFits
  <2>2. /\ uiOpen' = uiOpen \cup {"widget"} /\ UNCHANGED <<windows, uiRefused>>
        /\ Begins(<<w, p, n + 1>>, oneLine) /\ OpenPanelCounts
    BY <1>2, <1>4, <2>0 DEF WidgetLine, OpenPanelCounts
  <2>17. /\ uiBlock' = IF oneLine THEN <<w, p, 0>> ELSE <<w, p, n + 1>>
         /\ oneLine \/ uiOnLine # {} => uiOnLine' # {}
    BY <2>0, <2>2, BeginsIs
  <2>3. PICK new \in UiWidget : widgets' = Append(widgets, new) /\ new.label = FALSE
    <3> DEFINE new == [label |-> FALSE]
    <3>1. widgets' = Append(widgets, new)
      BY <1>2, <1>4 DEF WidgetLine
    <3>2. new \in UiWidget /\ new.label = FALSE
      BY DEF UiWidget
    <3> HIDE DEF new
    <3> QED BY <3>1, <3>2
  <2>4. PICK said \in UiWritten : /\ uiWidgets' = Append(uiWidgets, said)
                                  /\ said.in = uiBlock /\ said.after = (uiOnLine # {})
    <3> DEFINE said == [in |-> uiBlock, after |-> uiOnLine # {}]
    <3>1. uiWidgets' = Append(uiWidgets, said)
      BY <1>2, <1>4 DEF WidgetLine
    <3>2. said \in UiWritten /\ said.in = uiBlock /\ said.after = (uiOnLine # {})
      BY UiTypes DEF UiWritten
    <3> HIDE DEF said
    <3> QED BY <3>1, <3>2
  <2>5. /\ widgets' \in Seq(UiWidget) /\ Len(widgets') = n + 1
        /\ \A i \in 1..n : widgets'[i] = widgets[i]
        /\ widgets'[n + 1] = new /\ n + 1 <= MaxWidgets
    <3>1. widgets \in Seq(UiWidget) /\ MaxWidgets \in Nat
      BY UiTypes
    <3>2. n + 1 <= MaxWidgets
      BY <1>4, <3>1
    <3> QED BY <1>2, <2>3, <3>1, <3>2, Appended
  <2>6. /\ uiWidgets' \in Seq(UiWritten) /\ Len(uiWidgets') = n + 1
        /\ \A i \in 1..n : uiWidgets'[i] = uiWidgets[i]
        /\ uiWidgets'[n + 1] = said
    <3>1. uiWidgets \in Seq(UiWritten) /\ Len(uiWidgets) = n
      BY <1>2, UiTypes
    <3> QED BY <2>4, <3>1, Appended
  <2>7. /\ panels' \in Seq(UiPanel) /\ Len(panels') = m
        /\ \A i \in 1..m : panels'[i].layout <=> panels[i].layout
        /\ Follow(panels', n + 1)
        /\ \A i \in 1..m : RangeOf(panels[i]) \subseteq RangeOf(panels'[i])
        /\ \A i \in 1..m : \A x \in 1..n : x \in RangeOf(panels'[i]) => x \in RangeOf(panels[i])
        /\ "panel" \in uiOpen => EndsAt(panels', n + 1) /\ n + 1 \in RangeOf(panels'[m])
        /\ \A i \in 1..m : n + 1 \in RangeOf(panels'[i]) => "panel" \in uiOpen /\ i = m
    BY <1>2, <2>2, OpenPanelTakes
  <2>8. /\ uiBlock'[1] = w /\ uiBlock'[2] = p /\ uiBlock'[3] = (IF oneLine THEN 0 ELSE n + 1)
        /\ uiBlock' \in UiBlocks
    <3>1. CASE oneLine
      BY <2>17, <3>1 DEF UiBlocks
    <3>2. CASE ~oneLine
      BY <2>17, <3>2 DEF UiBlocks
    <3> QED BY <3>1, <3>2
  <2>9. Len(windows') = k /\ Len(panels') = m /\ Len(widgets') = n + 1
    BY <1>2, <2>2, <2>5, <2>7
  <2>10. UiTyped'
    <3>1. uiText' \in Seq(UiLine)
      BY <1>1, UiTextGrows
    <3>2. uiOpen' \in SUBSET {"window", "panel", "widget"}
      BY <2>2, UiTypes
    <3>3. /\ windows \in Seq(UiWindow) /\ k <= MaxWindows /\ m <= MaxPanels
          /\ uiRefused \in BOOLEAN
      BY <1>2, UiTypes DEF UiInv, UiTyped
    <3> QED BY <1>2, <2>2, <2>5, <2>6, <2>7, <2>8, <3>1, <3>2, <3>3 DEF UiTyped
  <2>11. RangesFit'
    <3>1. Follow(windows, m) /\ ("window" \in uiOpen => EndsAt(windows, m))
      BY <1>2 DEF UiInv, RangesFit
    <3>2. /\ "panel" \in uiOpen' => "panel" \in uiOpen
          /\ "window" \in uiOpen' => "window" \in uiOpen
      BY <2>2
    <3> QED BY <2>2, <2>7, <2>9, <3>1, <3>2 DEF RangesFit
  <2>12. UiBlockFits'
    BY <2>1, <2>2, <2>8, <2>9 DEF UiBlockFits
  <2>13. UiStaysOpen'
    <3>1. /\ "window" \in uiOpen => k > 0 /\ (w = 0 => uiOnLine # {})
          /\ "panel" \in uiOpen => m > 0 /\ (p = 0 => uiOnLine # {})
          /\ w = 0 /\ p # 0 =>
               \A i \in 1..k : p \in RangeOf(windows[i]) => uiOnLine # {}
      BY <1>2, <2>0 DEF UiInv, UiStaysOpen
    <3>2. /\ "panel" \in uiOpen' => "panel" \in uiOpen
          /\ "window" \in uiOpen' => "window" \in uiOpen
          /\ oneLine \/ uiBlock'[3] # 0
      BY <2>2, <2>8
    <3>3. n + 1 > 0
      OBVIOUS
    <3>4. w = 0 /\ p # 0 =>
            \A i \in 1..k : p \in RangeOf(windows'[i]) => uiOnLine' # {}
      BY <2>2, <2>17, <3>1
    <3>5. CASE oneLine
      BY <2>2, <2>17, <2>8, <2>9, <3>1, <3>2, <3>3, <3>4, <3>5 DEF UiStaysOpen
    <3>6. CASE ~oneLine
      BY <2>2, <2>17, <2>8, <2>9, <3>1, <3>2, <3>3, <3>4, <3>6 DEF UiStaysOpen
    <3> QED BY <3>5, <3>6
  <2>14. WidgetsFit'
    <3>1. ASSUME NEW x \in 1..n PROVE WidgetFits(x)'
      <4>1. /\ Len(windows') \in Nat /\ Len(windows') >= Len(windows)
            /\ Len(panels') \in Nat /\ Len(panels') >= Len(panels)
        BY <1>2, <2>9
      <4>2. /\ \A i \in 1..Len(windows) : RangeOf(windows[i]) \subseteq RangeOf(windows'[i])
            /\ \A i \in 1..Len(windows') : \A y \in 1..Len(panels) :
                 y \in RangeOf(windows'[i]) => i \in 1..Len(windows) /\ y \in RangeOf(windows[i])
        BY <2>2
      <4>3. /\ \A i \in 1..Len(panels) : RangeOf(panels[i]) \subseteq RangeOf(panels'[i])
            /\ \A i \in 1..Len(widgets) : uiWidgets'[i] = uiWidgets[i]
        BY <1>2, <2>6, <2>7
      <4>4. \A i \in 1..Len(panels') : \A y \in 1..Len(widgets) :
              y \in RangeOf(panels'[i]) => i \in 1..Len(panels) /\ y \in RangeOf(panels[i])
        BY <1>2, <2>7
      <4> QED BY <1>2, <4>1, <4>2, <4>3, <4>4, WidgetsStay
    <3>2. WidgetFits(n + 1)'
      <4>1. /\ uiWidgets'[n + 1].in[1] = w /\ uiWidgets'[n + 1].in[2] = p
            /\ uiWidgets'[n + 1].after = (uiOnLine # {})
        BY <2>0, <2>4, <2>6
      <4>2. w \in 0..k /\ p \in 0..m
        BY <2>1
      <4>3. ASSUME w # 0, p # 0
            PROVE  n + 1 \in RangeOf(panels'[p]) /\ p \in RangeOf(windows'[w])
        BY <2>1, <2>2, <2>7, <4>3
      <4>4. ASSUME w = 0 \/ p = 0, NEW i \in 1..m, NEW j \in 1..k,
                   n + 1 \in RangeOf(panels'[i]), i \in RangeOf(windows'[j])
            PROVE  uiOnLine # {}
        <5>1. "panel" \in uiOpen /\ i = m
          BY <2>7, <4>4
        <5>2. CASE p = 0
          BY <2>0, <5>1, <5>2 DEF UiInv, UiStaysOpen
        <5>3. CASE p # 0
          <6>1. w = 0 /\ p = i /\ p \in RangeOf(windows[j])
            BY <2>1, <2>2, <4>4, <5>1, <5>3
          <6> QED BY <1>2, <2>0, <5>3, <6>1 DEF UiInv, UiStaysOpen
        <5> QED BY <5>2, <5>3
      <4> QED BY <2>9, <4>1, <4>2, <4>3, <4>4 DEF WidgetFits
    <3>3. \A x \in 1..(n + 1) : x \in 1..n \/ x = n + 1
      OBVIOUS
    <3> QED BY <2>9, <3>1, <3>2, <3>3 DEF WidgetsFit
  <2>15. UiLinesFit'
    BY <1>1, <1>2, <2>9, UiLinesStayFit
  <2>16. AttributesFit'
    <3>1. /\ \A i \in 1..Len(windows') :
               windows'[i].title <=> \/ i \in 1..Len(windows) /\ windows[i].title
                                     \/ kind = "title" /\ uiBlock[1] = i
          /\ \A i \in 1..Len(panels') :
               panels'[i].layout <=> \/ i \in 1..Len(panels) /\ panels[i].layout
                                     \/ kind = "layout" /\ uiBlock[2] = i
      BY <1>1, <1>2, <2>2, <2>7, <2>9
    <3>2. \A i \in 1..Len(widgets') :
            widgets'[i].label <=> \/ i \in 1..Len(widgets) /\ widgets[i].label
                                  \/ kind = "label" /\ uiBlock[3] = i
      <4>1. \A i \in 1..(n + 1) : i \in 1..n \/ i = n + 1
        OBVIOUS
      <4>2. n + 1 \notin 1..n
        OBVIOUS
      <4> QED BY <1>1, <1>2, <2>3, <2>5, <4>1, <4>2
    <3>3. Len(windows') \in Nat /\ Len(panels') \in Nat /\ Len(widgets') \in Nat
      BY <2>9
    <3> QED BY <1>1, <3>1, <3>2, <3>3, AttributesStayFit
  <2> QED BY <2>10, <2>11, <2>12, <2>13, <2>14, <2>15, <2>16 DEF UiInv
<1> QED BY <1>2, <1>3, <1>4

LEMMA UiStep == UiInv /\ [UiNext]_uiVars => UiInv'
<1> SUFFICES ASSUME UiInv, [UiNext]_uiVars PROVE UiInv'
  OBVIOUS
<1>1. ASSUME NEW oneLine \in BOOLEAN, WindowLine(oneLine) PROVE UiInv'
  BY <1>1, WindowLineStep
<1>2. ASSUME NEW oneLine \in BOOLEAN, PanelLine(oneLine) PROVE UiInv'
  BY <1>2, PanelLineStep
<1>3. ASSUME NEW oneLine \in BOOLEAN, WidgetLine(oneLine) PROVE UiInv'
  BY <1>3, WidgetLineStep
<1>4. CASE TitleLine
  BY <1>4, TitleLineStep
<1>5. CASE LayoutLine
  BY <1>5, LayoutLineStep
<1>6. CASE LabelLine
  BY <1>6, LabelLineStep
<1>7. CASE UiBraceLine
  BY <1>7, UiBraceLineStep
<1>8. CASE UNCHANGED uiVars
  <2>1. /\ UNCHANGED <<windows, panels, widgets, uiOpen, uiText, uiWidgets, uiOnLine, uiBlock>>
        /\ uiRefused' = uiRefused
    BY <1>8 DEF uiVars
  <2>2. UiTyped' /\ UiBlockFits'
    BY <2>1 DEF UiInv, UiTyped, UiBlockFits
  <2>3. UiStaysOpen'
    BY <2>1 DEF UiInv, UiStaysOpen
  <2>4. RangesFit' /\ WidgetsFit'
    <3>1. SameRanges(windows, windows') /\ SameRanges(panels, panels')
      BY <2>1 DEF SameRanges
    <3> QED BY <2>1, <3>1, ArraysStay
  <2>5. UiLinesFit' /\ AttributesFit'
    BY <2>1 DEF UiInv, UiLinesFit, UiLineFits, AttributesFit, SaidIn
  <2> QED BY <2>2, <2>3, <2>4, <2>5 DEF UiInv
<1> QED BY <1>1, <1>2, <1>3, <1>4, <1>5, <1>6, <1>7, <1>8 DEF UiNext

\* Ranges that follow one another, widgets in the ranges of their blocks, and attributes that
\* say what their lines say hold in every file uigen reads (uigen.c:183-291).
THEOREM UiInvariant == UiSpec => []UiInv
<1> QED BY UiInitInv, UiStep, PTL DEF UiSpec

LEMMA DrawnIn ==
  ASSUME UiInv, NEW w \in DOMAIN windows, NEW d \in Drawn(w)
  PROVE  /\ d[1] \in 1..Len(panels) /\ d[1] \in RangeOf(windows[w])
         /\ d[2] \in 1..Len(widgets) /\ d[2] \in RangeOf(panels[d[1]])
         /\ w \in 1..Len(windows) /\ d = <<d[1], d[2]>>
<1>1. PICK p \in RangeOf(windows[w]) : \E g \in RangeOf(panels[p]) : d = <<p, g>>
  BY DEF Drawn
<1>2. PICK g \in RangeOf(panels[p]) : d = <<p, g>>
  BY <1>1
<1>3. d[1] = p /\ d[2] = g
  BY <1>2
<1>4. w \in 1..Len(windows)
  <2>1. windows \in Seq(UiWindow)
    BY UiTypes
  <2> QED BY <2>1
<1>5. p \in 1..Len(panels)
  BY <1>4, UiTypes, UiRanges, RangesApart DEF UiInv, RangesFit
<1>6. g \in 1..Len(widgets)
  BY <1>5, UiTypes, UiRanges, RangesApart DEF UiInv, RangesFit
<1> QED BY <1>1, <1>2, <1>3, <1>4, <1>5, <1>6

LEMMA OneRangeEach ==
  ASSUME UiInv, NEW xs, NEW n \in Nat, Ranges(xs), Follow(xs, n),
         NEW i \in 1..Len(xs), NEW j \in 1..Len(xs),
         NEW x, x \in RangeOf(xs[i]), x \in RangeOf(xs[j])
  PROVE  i = j
<1>1. i < j \/ j < i \/ i = j
  BY DEF Ranges
<1>2. ~(x < x)
  <2>1. x \in Nat
    BY DEF RangeOf, Ranges
  <2> QED BY <2>1
<1>3. ~(i < j) /\ ~(j < i)
  BY <1>2, RangesApart
<1> QED BY <1>1, <1>3

LEMMA UiPanelsDrawn == UiInv => PanelsAreDrawnAsWritten
<1> SUFFICES ASSUME UiInv, NEW w \in DOMAIN windows
             PROVE  LET drawn == {d \in Drawn(w) : ~Loose(d[2])}
                    IN /\ {d[2] : d \in drawn}
                            = {g \in DOMAIN widgets : BlockOf(g)[1] = w /\ ~Loose(g)}
                       /\ \A d, e \in drawn : DrawnBefore(d, e) <=> d[2] < e[2]
  BY DEF PanelsAreDrawnAsWritten
<1> DEFINE drawn == {d \in Drawn(w) : ~Loose(d[2])}
<1>0. /\ Ranges(windows) /\ Follow(windows, Len(panels)) /\ Len(panels) \in Nat
      /\ Ranges(panels) /\ Follow(panels, Len(widgets)) /\ Len(widgets) \in Nat
      /\ DOMAIN widgets = 1..Len(widgets) /\ DOMAIN windows = 1..Len(windows)
  BY UiTypes, UiRanges DEF UiInv, RangesFit
<1>1. ASSUME NEW d \in drawn
      PROVE  d[2] \in DOMAIN widgets /\ BlockOf(d[2])[1] = w /\ ~Loose(d[2])
  <2>1. /\ d[1] \in 1..Len(panels) /\ d[1] \in RangeOf(windows[w])
        /\ d[2] \in 1..Len(widgets) /\ d[2] \in RangeOf(panels[d[1]]) /\ ~Loose(d[2])
    BY <1>1, DrawnIn
  <2>2. WidgetFits(d[2])
    BY <2>1 DEF UiInv, WidgetsFit
  <2>3. PICK g \in 1..Len(widgets), b \in UiBlocks :
          g = d[2] /\ b = uiWidgets[g].in /\ b[1] # 0 /\ b[2] # 0
    BY <2>1, UiFields DEF Loose, BlockOf
  <2>4. /\ b[1] \in 1..Len(windows) /\ b[2] \in 1..Len(panels)
        /\ g \in RangeOf(panels[b[2]]) /\ b[2] \in RangeOf(windows[b[1]])
    <3>1. /\ b[1] \in 0..Len(windows) /\ b[2] \in 0..Len(panels)
          /\ g \in RangeOf(panels[b[2]]) /\ b[2] \in RangeOf(windows[b[1]])
      BY <2>2, <2>3 DEF WidgetFits
    <3> QED BY <2>3, <3>1, UiTypes, PositiveUpTo
  <2>5. b[2] = d[1]
    BY <1>0, <2>1, <2>3, <2>4, OneRangeEach
  <2>6. b[1] = w
    BY <1>0, <2>1, <2>4, <2>5, OneRangeEach
  <2> QED BY <1>0, <2>1, <2>3, <2>6 DEF BlockOf
<1>2. ASSUME NEW g \in DOMAIN widgets, BlockOf(g)[1] = w, ~Loose(g)
      PROVE  \E d \in drawn : d[2] = g
  <2>1. g \in 1..Len(widgets) /\ WidgetFits(g)
    BY <1>0 DEF UiInv, WidgetsFit
  <2>2. PICK p \in 1..Len(panels) :
          g \in RangeOf(panels[p]) /\ p \in RangeOf(windows[w]) /\ ~Loose(g)
    <3>1. PICK b \in UiBlocks : b = uiWidgets[g].in /\ b[1] = w /\ b[1] # 0 /\ b[2] # 0
      BY <1>2, <2>1, UiFields DEF Loose, BlockOf
    <3>2. /\ b[2] \in 0..Len(panels) /\ g \in RangeOf(panels[b[2]])
          /\ b[2] \in RangeOf(windows[b[1]])
      BY <2>1, <3>1 DEF WidgetFits
    <3>3. b[2] \in 1..Len(panels)
      BY <3>1, <3>2, UiTypes, PositiveUpTo
    <3> QED BY <1>2, <3>1, <3>2, <3>3
  <2>3. <<p, g>> \in Drawn(w) /\ <<p, g>>[2] = g
    BY <2>2 DEF Drawn
  <2> QED BY <2>2, <2>3
<1>3. ASSUME NEW d \in drawn, NEW e \in drawn PROVE DrawnBefore(d, e) <=> d[2] < e[2]
  <2>1. PICK p \in 1..Len(panels), g \in 1..Len(widgets) :
          d[1] = p /\ d[2] = g /\ g \in RangeOf(panels[p])
    BY <1>3, DrawnIn
  <2>2. PICK q \in 1..Len(panels), h \in 1..Len(widgets) :
          e[1] = q /\ e[2] = h /\ h \in RangeOf(panels[q])
    BY <1>3, DrawnIn
  <2>3. p < q => g < h
    BY <1>0, <2>1, <2>2, RangesApart
  <2>4. q < p => h < g
    BY <1>0, <2>1, <2>2, RangesApart
  <2> QED BY <1>0, <2>1, <2>2, <2>3, <2>4 DEF DrawnBefore
<1>4. {d[2] : d \in drawn} = {g \in DOMAIN widgets : BlockOf(g)[1] = w /\ ~Loose(g)}
  <2> HIDE DEF drawn
  <2> QED BY <1>1, <1>2
<1> QED BY <1>3, <1>4

LEMMA UiLooseDrawn == UiInv => LooseWidgetsAreNotDrawn
<1> SUFFICES ASSUME UiInv, NEW w \in DOMAIN windows, NEW d \in Drawn(w), Loose(d[2])
             PROVE  /\ \A v \in DOMAIN windows : \A e \in Drawn(v) :
                         e[2] = d[2] => v = w /\ e = d
                    /\ uiWidgets[d[2]].after
  BY DEF LooseWidgetsAreNotDrawn
<1>0. /\ Ranges(windows) /\ Follow(windows, Len(panels)) /\ Len(panels) \in Nat
      /\ Ranges(panels) /\ Follow(panels, Len(widgets)) /\ Len(widgets) \in Nat
  BY UiTypes, UiRanges DEF UiInv, RangesFit
<1>1. /\ d[1] \in 1..Len(panels) /\ d[1] \in RangeOf(windows[w])
      /\ d[2] \in 1..Len(widgets) /\ d[2] \in RangeOf(panels[d[1]])
      /\ w \in 1..Len(windows) /\ d = <<d[1], d[2]>>
  BY DrawnIn
<1>2. ASSUME NEW v \in DOMAIN windows, NEW e \in Drawn(v), e[2] = d[2] PROVE v = w /\ e = d
  <2>1. /\ e[1] \in 1..Len(panels) /\ e[1] \in RangeOf(windows[v])
        /\ d[2] \in RangeOf(panels[e[1]])
        /\ v \in 1..Len(windows) /\ e = <<e[1], d[2]>>
    BY <1>2, DrawnIn
  <2>2. e[1] = d[1]
    BY <1>0, <1>1, <2>1, OneRangeEach
  <2>3. v = w
    BY <1>0, <1>1, <2>1, <2>2, OneRangeEach
  <2> QED BY <1>1, <2>1, <2>2, <2>3
<1>3. uiWidgets[d[2]].after
  <2>1. WidgetFits(d[2])
    BY <1>1 DEF UiInv, WidgetsFit
  <2> QED BY <1>1, <2>1 DEF WidgetFits, Loose, BlockOf
<1> QED BY <1>2, <1>3

\* A line as it is asked for stands in the text just if a line of its kind stands there.
LEMMA LinesOfAKind ==
  ASSUME UiInv, NEW i \in 1..Len(uiText)
  PROVE  \E w, p, g \in Nat :
           /\ uiText[i] = [in |-> <<w, p, g>>, kind |-> uiText[i].kind]
           /\ w = uiText[i].in[1] /\ p = uiText[i].in[2] /\ g = uiText[i].in[3]
           /\ w <= Len(windows) /\ p <= Len(panels) /\ g <= Len(widgets)
           /\ uiText[i].kind = "title" => w # 0 /\ p = 0 /\ g = 0
           /\ uiText[i].kind = "layout" => p # 0 /\ g = 0
           /\ uiText[i].kind = "label" => g # 0
<1>1. PICK l \in UiLine : l = uiText[i]
  BY UiTypes
<1>2. PICK b \in UiBlocks : b = l.in /\ l = [in |-> b, kind |-> l.kind]
  BY DEF UiLine
<1>3. PICK w \in Nat, p \in Nat, g \in Nat : b = <<w, p, g>>
  BY DEF UiBlocks
<1>4. UiLineFits(l)
  BY <1>1 DEF UiInv, UiLinesFit
<1>5. b[1] = w /\ b[2] = p /\ b[3] = g
  BY <1>3
<1> QED BY <1>1, <1>2, <1>3, <1>4, <1>5 DEF UiLineFits

LEMMA UiAttributes == UiInv => UiAttributesStayInTheirBlock
<1> SUFFICES ASSUME UiInv PROVE UiAttributesStayInTheirBlock
  OBVIOUS
<1>0. /\ DOMAIN windows = 1..Len(windows) /\ DOMAIN panels = 1..Len(panels)
      /\ DOMAIN widgets = 1..Len(widgets) /\ DOMAIN uiText = 1..Len(uiText)
      /\ Len(windows) \in Nat /\ Len(panels) \in Nat /\ Len(widgets) \in Nat
  BY UiTypes
<1>1. ASSUME NEW w \in 1..Len(windows) PROVE SaidIn("title", 1, w) <=> HasLine(<<w, 0, 0>>, "title")
  <2>1. ASSUME NEW i \in 1..Len(uiText), uiText[i].kind = "title", uiText[i].in[1] = w
        PROVE  uiText[i] = [in |-> <<w, 0, 0>>, kind |-> "title"]
    BY <2>1, LinesOfAKind
  <2>2. ASSUME NEW i \in 1..Len(uiText), uiText[i] = [in |-> <<w, 0, 0>>, kind |-> "title"]
        PROVE  uiText[i].kind = "title" /\ uiText[i].in[1] = w
    BY <2>2
  <2> QED BY <1>0, <2>1, <2>2 DEF SaidIn, HasLine
<1>2. ASSUME NEW p \in 1..Len(panels)
      PROVE  SaidIn("layout", 2, p) <=> \E w \in 0..Len(windows) : HasLine(<<w, p, 0>>, "layout")
  <2>1. ASSUME NEW i \in 1..Len(uiText), uiText[i].kind = "layout", uiText[i].in[2] = p
        PROVE  \E w \in 0..Len(windows) : uiText[i] = [in |-> <<w, p, 0>>, kind |-> "layout"]
    <3>1. PICK w \in Nat : /\ uiText[i] = [in |-> <<w, p, 0>>, kind |-> "layout"]
                           /\ w <= Len(windows)
      BY <2>1, LinesOfAKind
    <3> QED BY <1>0, <3>1
  <2>2. ASSUME NEW i \in 1..Len(uiText), NEW w \in 0..Len(windows),
               uiText[i] = [in |-> <<w, p, 0>>, kind |-> "layout"]
        PROVE  uiText[i].kind = "layout" /\ uiText[i].in[2] = p
    BY <2>2
  <2> QED BY <1>0, <2>1, <2>2 DEF SaidIn, HasLine
<1>3. ASSUME NEW g \in 1..Len(widgets)
      PROVE  SaidIn("label", 3, g) <=>
               \E w \in 0..Len(windows), p \in 0..Len(panels) : HasLine(<<w, p, g>>, "label")
  <2>1. ASSUME NEW i \in 1..Len(uiText), uiText[i].kind = "label", uiText[i].in[3] = g
        PROVE  \E w \in 0..Len(windows), p \in 0..Len(panels) :
                 uiText[i] = [in |-> <<w, p, g>>, kind |-> "label"]
    <3>1. PICK w \in Nat, p \in Nat : /\ uiText[i] = [in |-> <<w, p, g>>, kind |-> "label"]
                                      /\ w <= Len(windows) /\ p <= Len(panels)
      BY <2>1, LinesOfAKind
    <3>2. w \in 0..Len(windows) /\ p \in 0..Len(panels)
      BY <1>0, <3>1
    <3> QED BY <3>1, <3>2
  <2>2. ASSUME NEW i \in 1..Len(uiText), NEW w \in 0..Len(windows), NEW p \in 0..Len(panels),
               uiText[i] = [in |-> <<w, p, g>>, kind |-> "label"]
        PROVE  uiText[i].kind = "label" /\ uiText[i].in[3] = g
    BY <2>2
  <2>3. ASSUME SaidIn("label", 3, g)
        PROVE  \E w \in 0..Len(windows), p \in 0..Len(panels) : HasLine(<<w, p, g>>, "label")
    <3>1. PICK i \in 1..Len(uiText) : uiText[i].kind = "label" /\ uiText[i].in[3] = g
      BY <2>3 DEF SaidIn
    <3>2. PICK w \in 0..Len(windows), p \in 0..Len(panels) :
            uiText[i] = [in |-> <<w, p, g>>, kind |-> "label"]
      BY <2>1, <3>1
    <3>3. HasLine(<<w, p, g>>, "label")
      BY <1>0, <3>2 DEF HasLine
    <3> QED BY <3>3
  <2>4. ASSUME NEW w \in 0..Len(windows), NEW p \in 0..Len(panels),
               HasLine(<<w, p, g>>, "label")
        PROVE  SaidIn("label", 3, g)
    BY <1>0, <2>2, <2>4 DEF SaidIn, HasLine
  <2> QED BY <2>3, <2>4
<1>4. /\ \A w \in 1..Len(windows) : windows[w].title <=> HasLine(<<w, 0, 0>>, "title")
      /\ \A p \in 1..Len(panels) :
           panels[p].layout <=> \E w \in 0..Len(windows) : HasLine(<<w, p, 0>>, "layout")
      /\ \A g \in 1..Len(widgets) :
           widgets[g].label <=>
             \E w \in 0..Len(windows), p \in 0..Len(panels) : HasLine(<<w, p, g>>, "label")
  BY <1>1, <1>2, <1>3 DEF UiInv, AttributesFit
<1> QED BY <1>0, <1>4 DEF UiAttributesStayInTheirBlock, Says

\* Every window that uigen generates shows the widgets written in its panels, each once and in
\* the order of the file, a loose widget only after a block on one line, and attributes on lines
\* of their own where they are written, for every file and every limit (uigen.c:183-291,
\* :436-497).
THEOREM WindowsShowTheirPanels == UiSpec => []WindowsAreDrawnAsWritten
<1>1. UiInv => WindowsAreDrawnAsWritten
  BY UiPanelsDrawn, UiLooseDrawn, UiAttributes DEF WindowsAreDrawnAsWritten
<1> QED BY <1>1, UiInvariant, PTL

\* uigen's arrays keep within their limits, and the ranges of windows and panels within the
\* arrays, for every file and every limit (uigen.c:191, :213, :238).
THEOREM UiTypeSafe == UiSpec => []UiTypeOK
<1>1. UiInv => UiTypeOK
  <2> SUFFICES ASSUME UiInv PROVE UiTypeOK
    OBVIOUS
  <2>1. DOMAIN windows = 1..Len(windows) /\ DOMAIN panels = 1..Len(panels)
    BY UiTypes
  <2>2. Len(windows) <= MaxWindows /\ Len(panels) <= MaxPanels /\ Len(widgets) <= MaxWidgets
    BY UiTypes
  <2>3. /\ \A w \in 1..Len(windows) : windows[w].start + windows[w].count <= Len(panels) + 1
        /\ \A p \in 1..Len(panels) : panels[p].start + panels[p].count <= Len(widgets) + 1
    BY DEF UiInv, RangesFit, Follow
  <2>4. uiOpen \subseteq {"window", "panel", "widget"} /\ uiRefused \in BOOLEAN
    BY DEF UiInv, UiTyped
  <2> QED BY <2>1, <2>2, <2>3, <2>4 DEF UiTypeOK
<1> QED BY <1>1, UiInvariant, PTL
=============================================================================
