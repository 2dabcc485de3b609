--------------------------- MODULE HsmParserProofs ---------------------------
(***************************************************************************)
(* What hsmgen's parser makes of any .hsm file, whatever the limits: a     *)
(* forest whose parents come first, as HsmHierarchy assumes of the tables, *)
(* and paths that follow it.  Of a file that opens and closes its blocks   *)
(* on different lines and stays within the limits also: transitions keep   *)
(* their source and lead where they are written to, and attributes stay    *)
(* with their state.  A state on one line ends all that (HsmOneLine.cfg).  *)
(***************************************************************************)
EXTENDS HsmParser, WellFoundedInduction, TLAPS

\* The values the lines of HsmParser's AttributeLine can leave in a state.
Callbacks == {NoCallback} \union Attributes

StateRecord ==
  [path: Seq(Names), parent: Nat, depth: Nat, entry: Callbacks,
   exit: Callbacks, initialChild: {<<>>, <<"A">>}, history: BOOLEAN,
   childStart: Nat, childCount: Nat]

\* t has the fields the parser's steps look at.
IsTable(t) ==
  {"initial", "states", "transitions", "events", "stack", "failed"}
    \subseteq DOMAIN t

\* The k-th block of the stack belongs to a state of depth k - 1, counted from
\* 0, and every state hangs below a state declared before it.
Linked(states, stack) ==
  /\ states \in Seq(StateRecord)
  /\ stack \in Seq(Nat)
  /\ \A k \in 1 .. Len(stack) :
       /\ stack[k] \in 1 .. Len(states)
       /\ states[stack[k]].depth = k - 1
  /\ \A i \in 1 .. Len(states) :
       LET p == states[i].parent IN
         IF p = 0 THEN states[i].depth = 0
         ELSE p < i /\ states[i].depth = states[p].depth + 1

\* u has t's states, as a tree, and t's stack.
SameTree(u, t) ==
  /\ u.stack = t.stack
  /\ u.failed = t.failed
  /\ Len(u.states) = Len(t.states)
  /\ \A i \in 1 .. Len(t.states) : /\ u.states[i].parent = t.states[i].parent
                                   /\ u.states[i].path = t.states[i].path

\* u has one state more, inside the block on top of t's stack.
GrownTree(u, t, name) ==
  LET i == Len(t.states) + 1 IN
    /\ i <= MaxStates
    /\ u.stack = IF Len(t.stack) < MaxDepth THEN Append(t.stack, i) ELSE t.stack
    /\ u.failed = t.failed
    /\ Len(u.states) = i
    /\ u.states[i].parent = OpenBlock(t)
    /\ u.states[i].path = IF OpenBlock(t) = 0 THEN <<name>>
                          ELSE Append(t.states[OpenBlock(t)].path, name)
    /\ \A j \in 1 .. Len(t.states) : /\ u.states[j].parent = t.states[j].parent
                                     /\ u.states[j].path = t.states[j].path

TableInv(t) == IsTable(t) /\ Linked(t.states, t.stack)

LEMMA TableShape ==
  ASSUME NEW t, IsTable(t), NEW states, NEW stack
  PROVE  LET u == [t EXCEPT !.states = states, !.stack = stack] IN
           u.states = states /\ u.stack = stack /\ IsTable(u)
BY DEF IsTable

LEMMA EmptyIsLinked == TableInv(EmptyTable)
BY DEF EmptyTable, TableInv, IsTable, Linked

\* Changes to states that leave their parents and depths alone.
LEMMA LinkedSame ==
  ASSUME NEW old, NEW stack, Linked(old, stack),
         NEW new \in Seq(StateRecord), Len(new) = Len(old),
         \A i \in 1 .. Len(old) :
           new[i].parent = old[i].parent /\ new[i].depth = old[i].depth
  PROVE  Linked(new, stack)
<1>0. old \in Seq(StateRecord) /\ Len(old) \in Nat
      /\ \A i \in 1 .. Len(old) : old[i] \in StateRecord
  BY DEF Linked
<1>1. old \in Seq(StateRecord) /\ Len(old) \in Nat
      /\ \A i \in 1 .. Len(old) : old[i].parent \in Nat
  BY <1>0 DEF StateRecord
<1>2. \A k \in 1 .. Len(stack) :
        stack[k] \in 1 .. Len(new) /\ new[stack[k]].depth = k - 1
  BY DEF Linked
<1>3. ASSUME NEW i \in 1 .. Len(new)
      PROVE  LET p == new[i].parent IN
               IF p = 0 THEN new[i].depth = 0
               ELSE p < i /\ new[i].depth = new[p].depth + 1
  <2> DEFINE p == old[i].parent
  <2>1. p \in Nat /\ new[i].parent = p /\ new[i].depth = old[i].depth
    BY <1>1
  <2>2. p = 0 \/ (p < i /\ old[i].depth = old[p].depth + 1)
    BY DEF Linked
  <2>3. p # 0 /\ p < i => new[p].depth = old[p].depth
    BY <1>1, <2>1
  <2> QED BY <2>1, <2>2, <2>3 DEF Linked
<1> QED BY <1>2, <1>3 DEF Linked

\* A closing brace.
LEMMA CloseLinked ==
  ASSUME NEW t, TableInv(t)
  PROVE  TableInv(CloseBlock(t))
<1>1. IsTable(t) /\ Linked(t.states, t.stack) /\ t.stack \in Seq(Nat)
  BY DEF TableInv, Linked
<1>2. CASE t.stack = <<>>
  BY <1>1, <1>2 DEF CloseBlock, TableInv, IsTable
<1>3. CASE t.stack # <<>>
  <2> DEFINE u == Front(t.stack)
  <2>1. CloseBlock(t).stack = u /\ CloseBlock(t).states = t.states
        /\ IsTable(CloseBlock(t))
    BY <1>1, <1>3 DEF CloseBlock, IsTable
  <2>2. u \in Seq(Nat) /\ Len(u) = Len(t.stack) - 1
        /\ \A k \in 1 .. Len(u) : k \in 1 .. Len(t.stack) /\ u[k] = t.stack[k]
    BY <1>1, <1>3 DEF Front
  <2> HIDE DEF u
  <2>3. Linked(t.states, u)
    BY <1>1, <2>2 DEF Linked
  <2> QED BY <2>1, <2>3 DEF TableInv
<1> QED BY <1>2, <1>3

\* A function on 1 .. n is a sequence.
LEMMA FunctionIsSequence ==
  ASSUME NEW S, NEW n \in Nat, NEW f \in [1 .. n -> S]
  PROVE  f \in Seq(S) /\ Len(f) = n
OBVIOUS

\* The entry AddState appends.
LEMMA NewStateRecord ==
  ASSUME NEW path \in Seq(Names), NEW parent \in Nat, NEW depth \in Nat
  PROVE  [path         |-> path,
          parent       |-> parent,
          depth        |-> depth,
          entry        |-> NoCallback,
          exit         |-> NoCallback,
          initialChild |-> <<>>,
          history      |-> FALSE,
          childStart   |-> 0,
          childCount   |-> 0] \in StateRecord
BY DEF StateRecord, NoCallback, Callbacks

\* The entry of a parent that gets a child.
LEMMA ParentRecord ==
  ASSUME NEW s \in StateRecord, NEW i \in Nat
  PROVE  LET r == [s EXCEPT !.childCount = @ + 1,
                            !.childStart = IF @ = 0 THEN i ELSE @]
         IN  /\ r \in StateRecord /\ r.path = s.path
             /\ r.parent = s.parent /\ r.depth = s.depth
<1>1. s.childCount + 1 \in Nat
      /\ (IF s.childStart = 0 THEN i ELSE s.childStart) \in Nat
  BY DEF StateRecord
<1> QED BY <1>1 DEF StateRecord

\* state Name {
LEMMA AddLinked ==
  ASSUME NEW t, TableInv(t), NEW name \in Names
  PROVE  /\ TableInv(AddState(t, name))
         /\ AddState(t, name).failed \/ GrownTree(AddState(t, name), t, name)
<1> DEFINE n      == Len(t.states)
           i      == n + 1
           parent == OpenBlock(t)
           new    == [path         |-> IF parent = 0 THEN <<name>>
                                       ELSE Append(t.states[parent].path, name),
                      parent       |-> parent,
                      depth        |-> Len(t.stack),
                      entry        |-> NoCallback,
                      exit         |-> NoCallback,
                      initialChild |-> <<>>,
                      history      |-> FALSE,
                      childStart   |-> 0,
                      childCount   |-> 0]
           linked == [j \in DOMAIN t.states |->
                        IF j # parent THEN t.states[j]
                        ELSE [t.states[j] EXCEPT
                                !.childCount = @ + 1,
                                !.childStart = IF @ = 0 THEN i ELSE @]]
           stack  == IF Len(t.stack) < MaxDepth THEN Append(t.stack, i)
                     ELSE t.stack
<1>1. /\ IsTable(t) /\ Linked(t.states, t.stack)
      /\ t.states \in Seq(StateRecord) /\ t.stack \in Seq(Nat)
      /\ n \in Nat /\ DOMAIN t.states = 1 .. n /\ Len(t.stack) \in Nat
      /\ \A j \in 1 .. n : t.states[j] \in StateRecord
  BY DEF TableInv, Linked
<1>2. CASE Len(t.states) >= MaxStates
  <2>1. AddState(t, name) = [t EXCEPT !.failed = TRUE]
    BY <1>2 DEF AddState
  <2>2. TableInv([t EXCEPT !.failed = TRUE])
        /\ [t EXCEPT !.failed = TRUE].failed
    BY <1>1 DEF TableInv, IsTable
  <2> QED BY <2>1, <2>2
<1>3. CASE ~(Len(t.states) >= MaxStates)
  <2>1. AddState(t, name) = [t EXCEPT !.states = Append(linked, new),
                                      !.stack  = stack]
    BY <1>3 DEF AddState
  <2>2. \/ parent = 0 /\ Len(t.stack) = 0
        \/ /\ parent \in 1 .. n /\ Len(t.stack) > 0
           /\ t.states[parent].depth = Len(t.stack) - 1
    BY <1>1 DEF OpenBlock, Last, Linked
  <2>3. new \in StateRecord
    <3>1. parent \in Nat
      BY <1>1, <2>2
    <3>2. (IF parent = 0 THEN <<name>>
           ELSE Append(t.states[parent].path, name)) \in Seq(Names)
      <4>1. CASE parent = 0
        BY <4>1
      <4>2. CASE parent # 0
        <5>1. t.states[parent].path \in Seq(Names)
          BY <1>1, <2>2, <4>2 DEF StateRecord
        <5> QED BY <4>2, <5>1
      <4> QED BY <4>1, <4>2
    <3> QED BY <1>1, <3>1, <3>2, NewStateRecord
  <2>4. /\ linked \in Seq(StateRecord) /\ Len(linked) = n
        /\ \A j \in 1 .. n : /\ linked[j].parent = t.states[j].parent
                             /\ linked[j].depth = t.states[j].depth
                             /\ linked[j].path = t.states[j].path
    <3>1. ASSUME NEW j \in 1 .. n
          PROVE  /\ linked[j] \in StateRecord
                 /\ linked[j].parent = t.states[j].parent
                 /\ linked[j].depth = t.states[j].depth
                 /\ linked[j].path = t.states[j].path
      <4>1. t.states[j] \in StateRecord
        BY <1>1
      <4>2. CASE j # parent
        BY <1>1, <4>1, <4>2
      <4>3. CASE j = parent
        <5>1. linked[j] = [t.states[j] EXCEPT
                             !.childCount = @ + 1,
                             !.childStart = IF @ = 0 THEN i ELSE @]
          BY <1>1, <4>3
        <5>2. i \in Nat
          BY <1>1
        <5> DEFINE s == t.states[j]
                   r == [s EXCEPT !.childCount = @ + 1,
                                  !.childStart = IF @ = 0 THEN i ELSE @]
        <5>3. linked[j] = r
          BY <5>1
        <5> HIDE DEF linked, i
        <5>4. s \in StateRecord
          BY <4>1
        <5> HIDE DEF s
        <5>5. /\ r \in StateRecord /\ r.path = s.path
              /\ r.parent = s.parent /\ r.depth = s.depth
          BY <5>2, <5>4, ParentRecord
        <5> HIDE DEF r
        <5>6. /\ linked[j].parent = s.parent /\ linked[j].depth = s.depth
              /\ linked[j].path = s.path
          BY <5>3, <5>5
        <5> QED BY <5>3, <5>5, <5>6 DEF s
      <4> QED BY <4>2, <4>3
    <3>2. linked = [j \in 1 .. n |-> linked[j]]
      BY <1>1
    <3> HIDE DEF linked
    <3>3. linked \in [1 .. n -> StateRecord]
      BY <3>1, <3>2
    <3> QED BY <1>1, <3>1, <3>3, FunctionIsSequence
  <2>5. Linked(linked, t.stack)
    <3> HIDE DEF linked
    <3> QED BY <1>1, <2>4, LinkedSame
  <2>6. /\ new.parent = parent /\ new.depth = Len(t.stack)
        /\ new.path = IF parent = 0 THEN <<name>>
                      ELSE Append(t.states[parent].path, name)
    OBVIOUS
  <2> DEFINE states == Append(linked, new)
  <2>7. /\ states \in Seq(StateRecord) /\ Len(states) = i
        /\ states[i] = new /\ \A j \in 1 .. n : states[j] = linked[j]
    <3> HIDE DEF linked, new
    <3> QED BY <1>1, <2>3, <2>4
  <2> HIDE DEF linked, new, states, parent
  <2>8. stack \in Seq(Nat)
        /\ \A k \in 1 .. Len(stack) :
             \/ k \in 1 .. Len(t.stack) /\ stack[k] = t.stack[k]
             \/ k = Len(t.stack) + 1 /\ stack[k] = i
    BY <1>1, LimitsAssumption
  <2> HIDE DEF stack
  <2>9. \A k \in 1 .. Len(stack) :
          stack[k] \in 1 .. i /\ states[stack[k]].depth = k - 1
    <3> SUFFICES ASSUME NEW k \in 1 .. Len(stack)
                 PROVE  stack[k] \in 1 .. i /\ states[stack[k]].depth = k - 1
      OBVIOUS
    <3>1. CASE k \in 1 .. Len(t.stack) /\ stack[k] = t.stack[k]
      <4>1. t.stack[k] \in 1 .. n /\ linked[t.stack[k]].depth = k - 1
        BY <2>4, <2>5, <3>1 DEF Linked
      <4>2. t.stack[k] \in 1 .. i /\ states[t.stack[k]] = linked[t.stack[k]]
        BY <1>1, <2>7, <4>1
      <4> QED BY <3>1, <4>1, <4>2
    <3>2. CASE k = Len(t.stack) + 1 /\ stack[k] = i
      BY <1>1, <2>6, <2>7, <3>2
    <3> QED BY <2>8, <3>1, <3>2
  <2>10. ASSUME NEW j \in 1 .. i
         PROVE  LET p == states[j].parent IN
                  IF p = 0 THEN states[j].depth = 0
                  ELSE p < j /\ states[j].depth = states[p].depth + 1
    <3>1. CASE j = i
      <4>1. states[j].parent = parent /\ states[j].depth = Len(t.stack)
        BY <2>6, <2>7, <3>1
      <4>2. CASE parent = 0 /\ Len(t.stack) = 0
        BY <4>1, <4>2
      <4>3. CASE /\ parent \in 1 .. n /\ Len(t.stack) > 0
                 /\ t.states[parent].depth = Len(t.stack) - 1
        <5>1. states[parent].depth = Len(t.stack) - 1
          BY <2>4, <2>7, <4>3
        <5> QED BY <1>1, <3>1, <4>1, <4>3, <5>1
      <4> QED BY <2>2, <4>2, <4>3
    <3>2. CASE j # i
      <4>1. j \in 1 .. n /\ states[j] = linked[j]
        BY <1>1, <2>7, <3>2
      <4> DEFINE p == linked[j].parent
      <4>2. IF p = 0 THEN linked[j].depth = 0
            ELSE p < j /\ linked[j].depth = linked[p].depth + 1
        BY <2>4, <2>5, <4>1 DEF Linked
      <4>3. p \in Nat
        <5>1. linked[j] \in StateRecord
          BY <2>4, <4>1
        <5> QED BY <5>1 DEF StateRecord
      <4>4. p # 0 /\ p < j => states[p] = linked[p]
        <5>1. p # 0 /\ p < j => p \in 1 .. n
          BY <1>1, <4>1, <4>3
        <5> QED BY <2>7, <5>1
      <4> QED BY <4>1, <4>2, <4>4
    <3> QED BY <3>1, <3>2
  <2>11. Linked(states, stack)
    BY <2>7, <2>8, <2>9, <2>10 DEF Linked
  <2>12. [t EXCEPT !.states = states, !.stack = stack].states = states
         /\ [t EXCEPT !.states = states, !.stack = stack].stack = stack
         /\ IsTable([t EXCEPT !.states = states, !.stack = stack])
    BY <1>1, TableShape
  <2>13. AddState(t, name) = [t EXCEPT !.states = states, !.stack = stack]
    BY <2>1 DEF states, stack, linked, new, parent
  <2>14. [t EXCEPT !.states = states, !.stack = stack].failed = t.failed
    BY <1>1 DEF IsTable
  <2>15. \A j \in 1 .. n : /\ states[j].parent = t.states[j].parent
                           /\ states[j].path = t.states[j].path
    BY <2>4, <2>7
  <2>16. /\ states[i].parent = parent
         /\ states[i].path = IF parent = 0 THEN <<name>>
                             ELSE Append(t.states[parent].path, name)
         /\ i <= MaxStates
    BY <1>1, <1>3, <2>6, <2>7, LimitsAssumption
  <2>17. GrownTree([t EXCEPT !.states = states, !.stack = stack], t, name)
    BY <2>7, <2>12, <2>14, <2>15, <2>16 DEF GrownTree, stack, parent
  <2> QED BY <2>11, <2>12, <2>13, <2>17 DEF TableInv
<1> QED BY <1>2, <1>3

\* An attribute line replaces one entry of the table, that of the state on top
\* of the stack.
LEMMA ChangeLinked ==
  ASSUME NEW t, TableInv(t), NEW k \in 1 .. Len(t.states),
         NEW r \in StateRecord, r.parent = t.states[k].parent,
         r.depth = t.states[k].depth, r.path = t.states[k].path
  PROVE  LET u == [t EXCEPT !.states = [@ EXCEPT ![k] = r]] IN
           TableInv(u) /\ SameTree(u, t)
<1> DEFINE new == [t.states EXCEPT ![k] = r]
<1>1. IsTable(t) /\ Linked(t.states, t.stack) /\ t.states \in Seq(StateRecord)
  BY DEF TableInv, Linked
<1>2. /\ new \in Seq(StateRecord) /\ Len(new) = Len(t.states)
      /\ \A i \in 1 .. Len(t.states) :
           new[i] = IF i = k THEN r ELSE t.states[i]
  BY <1>1
<1> HIDE DEF new
<1>3. Linked(new, t.stack)
  BY <1>1, <1>2, LinkedSame
<1>4. \A i \in 1 .. Len(t.states) : /\ new[i].parent = t.states[i].parent
                                     /\ new[i].path = t.states[i].path
  BY <1>2
<1> DEFINE u == [t EXCEPT !.states = new]
<1>5. /\ IsTable(u) /\ u.states = new /\ u.stack = t.stack
      /\ u.failed = t.failed
  BY <1>1 DEF IsTable
<1> HIDE DEF u
<1>6. TableInv(u) /\ SameTree(u, t)
  BY <1>2, <1>3, <1>4, <1>5 DEF TableInv, SameTree
<1> QED BY <1>6 DEF u, new

LEMMA TopIsState ==
  ASSUME NEW t, TableInv(t), t.stack # <<>>
  PROVE  OpenBlock(t) \in 1 .. Len(t.states) /\ t.states[OpenBlock(t)] \in StateRecord
<1>1. Linked(t.states, t.stack) /\ t.stack \in Seq(Nat)
      /\ t.states \in Seq(StateRecord)
  BY DEF TableInv, Linked
<1>2. OpenBlock(t) \in 1 .. Len(t.states)
  BY <1>1 DEF OpenBlock, Last, Linked
<1> QED BY <1>1, <1>2

\* entry:, exit:, history and initial: leave parents and depths alone.
LEMMA AttributeLinked ==
  ASSUME NEW t, TableInv(t), NEW kind \in Attributes
  PROVE  \A u \in {SetInitial(t, <<"A">>), SetEntry(t, kind),
                   SetExit(t, kind), MarkHistory(t)} :
           TableInv(u) /\ SameTree(u, t)
<1>1. CASE t.stack = <<>>
  <2>1. SetEntry(t, kind) = t /\ SetExit(t, kind) = t /\ MarkHistory(t) = t
    BY <1>1 DEF SetEntry, SetExit, MarkHistory
  <2>2. TableInv(SetInitial(t, <<"A">>)) /\ SameTree(SetInitial(t, <<"A">>), t)
    BY <1>1 DEF SetInitial, TableInv, IsTable, SameTree
  <2> QED BY <2>1, <2>2 DEF SameTree
<1>2. CASE t.stack # <<>>
  <2> DEFINE k == OpenBlock(t)
             s == t.states[k]
  <2>1. IsTable(t) /\ k \in 1 .. Len(t.states) /\ s \in StateRecord
    BY <1>2, TopIsState DEF TableInv
  <2>2. /\ SetInitial(t, <<"A">>)
             = [t EXCEPT !.states = [@ EXCEPT ![k] =
                  [s EXCEPT !.initialChild = <<"A">>]]]
        /\ SetEntry(t, kind)
             = [t EXCEPT !.states = [@ EXCEPT ![k] =
                  [s EXCEPT !.entry = kind]]]
        /\ SetExit(t, kind)
             = [t EXCEPT !.states = [@ EXCEPT ![k] =
                  [s EXCEPT !.exit = kind]]]
        /\ MarkHistory(t)
             = [t EXCEPT !.states = [@ EXCEPT ![k] =
                  [s EXCEPT !.history = TRUE]]]
    BY <1>2, <2>1 DEF SetInitial, SetEntry, SetExit, MarkHistory, IsTable
  <2> HIDE DEF k
  <2>3. ASSUME NEW r \in {[s EXCEPT !.initialChild = <<"A">>],
                          [s EXCEPT !.entry = kind],
                          [s EXCEPT !.exit = kind],
                          [s EXCEPT !.history = TRUE]}
        PROVE  LET u == [t EXCEPT !.states = [@ EXCEPT ![k] = r]] IN
                 TableInv(u) /\ SameTree(u, t)
    <3>1. /\ r \in StateRecord /\ r.path = s.path
          /\ r.parent = s.parent /\ r.depth = s.depth
      <4> HIDE DEF s
      <4> QED BY <2>1, <2>3 DEF StateRecord, Callbacks
    <3> QED BY <2>1, <3>1, ChangeLinked
  <2> DEFINE after(r) == [t EXCEPT !.states = [@ EXCEPT ![k] = r]]
             good(r)  == TableInv(after(r)) /\ SameTree(after(r), t)
  <2>4. /\ good([s EXCEPT !.initialChild = <<"A">>])
        /\ good([s EXCEPT !.entry = kind])
        /\ good([s EXCEPT !.exit = kind])
        /\ good([s EXCEPT !.history = TRUE])
    <3> HIDE DEF s
    <3> QED BY <2>3
  <2> QED BY <2>2, <2>4
<1> QED BY <1>1, <1>2

\* on Event -> target: at most a history mark changes.
LEMMA TransitionLinked ==
  ASSUME NEW t, TableInv(t), NEW line
  PROVE  TableInv(AddTransition(t, line)) /\ SameTree(AddTransition(t, line), t)
<1>1. IsTable(t) /\ Linked(t.states, t.stack) /\ t.states \in Seq(StateRecord)
      /\ Len(t.states) \in Nat /\ DOMAIN t.states = 1 .. Len(t.states)
      /\ \A j \in 1 .. Len(t.states) : t.states[j] \in StateRecord
  BY DEF TableInv, Linked
<1> DEFINE target == Qualify(t, OpenBlock(t), line.target)
           owner  == IF IsHistory(target) THEN FindState(t, Composite(target)) ELSE 0
           marked == [j \in DOMAIN t.states |->
                        IF j = owner THEN [t.states[j] EXCEPT !.history = TRUE]
                        ELSE t.states[j]]
           result == AddTransition(t, line)
<1>2. IsTable(result) /\ result.stack = t.stack /\ result.failed = t.failed
      /\ (result.states = t.states \/ result.states = marked)
  BY <1>1 DEF AddTransition, IsTable
<1> HIDE DEF owner, result
<1>3. ASSUME NEW j \in 1 .. Len(t.states)
      PROVE  /\ marked[j] \in StateRecord
             /\ marked[j].parent = t.states[j].parent
             /\ marked[j].depth = t.states[j].depth
             /\ marked[j].path = t.states[j].path
  BY <1>1 DEF StateRecord
<1>4. marked \in [1 .. Len(t.states) -> StateRecord]
  BY <1>1, <1>3
<1> HIDE DEF marked
<1>5. marked \in Seq(StateRecord) /\ Len(marked) = Len(t.states)
  BY <1>1, <1>4, FunctionIsSequence
<1>6. Linked(marked, t.stack)
  BY <1>1, <1>3, <1>5, LinkedSame
<1>7. TableInv(result) /\ SameTree(result, t)
  BY <1>1, <1>2, <1>3, <1>5, <1>6 DEF TableInv, SameTree
<1> QED BY <1>7 DEF result

LEMMA ResolveLinked ==
  ASSUME NEW t, TableInv(t)
  PROVE  TableInv(ResolveTransitions(t)) /\ SameTree(ResolveTransitions(t), t)
BY DEF ResolveTransitions, TableInv, IsTable, SameTree

-----------------------------------------------------------------------------
(* The parser's stack is the list of open blocks as long as the nesting    *)
(* fits it.  Beyond the limit the two part for good, so the invariant      *)
(* compares them only while `deepest` is within it; `deepest` never falls. *)

Reading == phase = "reading" => ~table.failed

ParserInv ==
  /\ TableInv(table)
  /\ Reading
  /\ blocks \in Seq(Nat)
  /\ written \in Seq(Nat)
  /\ Len(written) = Len(table.states)
  /\ deepest \in Nat /\ oneLine \in Nat
  /\ Len(blocks) <= deepest
  /\ ParentIsEnclosingBlock

LEMMA InitInv == HsmInit => ParserInv
BY EmptyIsLinked, LimitsAssumption
   DEF HsmInit, ParserInv, Reading, EmptyTable, ParentIsEnclosingBlock, HsmStates

\* A step that changes neither the tree nor the open blocks.
LEMMA SameTreeInv ==
  ASSUME ParserInv, TableInv(table'), SameTree(table', table),
         phase' = "reading" => phase = "reading",
         UNCHANGED <<blocks, written, deepest, oneLine>>
  PROVE  ParserInv'
<1>1. Linked(table.states, table.stack) /\ Linked(table'.states, table'.stack)
  BY DEF ParserInv, TableInv
<1>2. DOMAIN table.states = 1 .. Len(table.states)
      /\ DOMAIN table'.states = 1 .. Len(table'.states)
  BY <1>1 DEF Linked
<1>3. ParentIsEnclosingBlock'
  BY <1>2 DEF ParserInv, SameTree, ParentIsEnclosingBlock, WithinDepth, OwnLines, HsmStates
<1>4. Reading'
  BY DEF ParserInv, SameTree, Reading
<1> QED BY <1>3, <1>4 DEF ParserInv, SameTree

LEMMA StateInv ==
  ASSUME ParserInv, NEW name \in Names, StateLine(name)
  PROVE  ParserInv'
<1> DEFINE n == Len(table.states)
<1>1. /\ TableInv(table) /\ blocks \in Seq(Nat) /\ written \in Seq(Nat)
      /\ Len(written) = n /\ deepest \in Nat /\ oneLine \in Nat /\ Len(blocks) <= deepest
      /\ ParentIsEnclosingBlock /\ Reading
  BY DEF ParserInv
<1>2. /\ TableInv(table')
      /\ table'.failed \/ GrownTree(table', table, name)
      /\ phase = "reading"
  BY <1>1, AddLinked DEF StateLine, AddsState, NextLine
<1>3. CASE table'.failed
  <2>1. phase' = "refused" /\ table' = [table EXCEPT !.failed = TRUE]
    BY <1>1, <1>2, <1>3 DEF StateLine, AddsState, AddState, Reading, TableInv, IsTable
  <2>2. table'.states = table.states /\ table'.stack = table.stack
    BY <1>1, <2>1 DEF TableInv, IsTable
  <2>3. UNCHANGED <<blocks, written, deepest, oneLine>>
    BY <1>3 DEF StateLine, AddsState
  <2> QED BY <1>1, <1>2, <2>1, <2>2, <2>3
          DEF ParserInv, ParentIsEnclosingBlock, WithinDepth, OwnLines, HsmStates, Reading
<1>4. CASE ~table'.failed
  <2> DEFINE e == IF Len(blocks) + 1 > deepest THEN Len(blocks) + 1
                  ELSE deepest
  <2>1. /\ written' = Append(written, Around)
        /\ blocks' = Append(blocks, Len(table'.states))
        /\ deepest' = e /\ oneLine' = oneLine
    BY <1>4 DEF StateLine, AddsState
  <2>2. GrownTree(table', table, name) /\ n \in Nat /\ Len(table'.states) = n + 1
    BY <1>1, <1>2, <1>4 DEF GrownTree, TableInv, Linked
  <2>3. Around \in Nat
    <3>1. CASE blocks = <<>>
      BY <3>1 DEF Around
    <3>2. CASE blocks # <<>>
      BY <1>1, <3>2 DEF Around, Last
    <3> QED BY <3>1, <3>2
  <2>4. /\ blocks' \in Seq(Nat) /\ Len(blocks') = Len(blocks) + 1
        /\ written' \in Seq(Nat) /\ Len(written') = n + 1
        /\ deepest' \in Nat /\ Len(blocks') <= deepest' /\ deepest <= deepest'
    BY <1>1, <2>1, <2>2, <2>3
  <2>5. ParentIsEnclosingBlock'
    <3> SUFFICES ASSUME oneLine' = 0 /\ deepest' <= MaxDepth
                 PROVE  /\ table'.stack = blocks'
                        /\ \A i \in HsmStates' :
                             table'.states[i].parent = written'[i]
      BY DEF ParentIsEnclosingBlock, WithinDepth, OwnLines
    <3>1. oneLine = 0 /\ deepest <= MaxDepth /\ Len(blocks) < MaxDepth
      BY <1>1, <2>1, <2>4, LimitsAssumption
    <3>2. table.stack = blocks
          /\ \A i \in HsmStates : table.states[i].parent = written[i]
      BY <1>1, <3>1 DEF ParentIsEnclosingBlock, WithinDepth, OwnLines
    <3>3. table'.stack = blocks'
      BY <2>1, <2>2, <3>1, <3>2 DEF GrownTree
    <3>4. OpenBlock(table) = Around
      BY <3>2 DEF OpenBlock, Around
    <3>5. HsmStates = 1 .. n /\ HsmStates' = 1 .. n + 1
      BY <1>1, <1>2, <2>2 DEF HsmStates, TableInv, Linked
    <3>6. ASSUME NEW i \in 1 .. n + 1
          PROVE  table'.states[i].parent = written'[i]
      <4>1. CASE i = n + 1
        <5>1. written'[i] = Around
          BY <1>1, <2>1, <2>3, <4>1
        <5> QED BY <2>2, <3>4, <4>1, <5>1 DEF GrownTree
      <4>2. CASE i # n + 1
        <5>1. i \in 1 .. n
          BY <2>2, <4>2
        <5>2. written'[i] = written[i]
          BY <1>1, <2>1, <2>3, <5>1
        <5> QED BY <2>2, <3>2, <3>5, <5>1, <5>2 DEF GrownTree
      <4> QED BY <4>1, <4>2
    <3> QED BY <3>3, <3>5, <3>6
  <2> QED BY <1>1, <1>2, <1>4, <2>1, <2>2, <2>4, <2>5 DEF ParserInv, Reading
<1> QED BY <1>3, <1>4

\* state Name { on Event -> Target }: the tables part from the file for good.
LEMMA OnLineInv ==
  ASSUME ParserInv, NEW name \in Names, NEW target \in OnLine,
         StateOnLine(name, target)
  PROVE  ParserInv' /\ ~OwnLines'
<1> DEFINE n == Len(table.states)
<1>1. /\ TableInv(table) /\ blocks \in Seq(Nat) /\ written \in Seq(Nat)
      /\ Len(written) = n /\ n \in Nat /\ deepest \in Nat /\ oneLine \in Nat
      /\ Len(blocks) <= deepest /\ Reading
  BY DEF ParserInv, TableInv, Linked
<1>2. /\ TableInv(table')
      /\ table'.failed \/ GrownTree(table', table, name)
      /\ phase = "reading" /\ oneLine' = oneLine + 1
  BY <1>1, AddLinked DEF StateOnLine, AddsState, NextLine
<1>3. ParentIsEnclosingBlock' /\ oneLine' \in Nat /\ ~OwnLines'
  BY <1>1, <1>2 DEF ParentIsEnclosingBlock, OwnLines
<1>4. CASE table'.failed
  <2>1. phase' = "refused" /\ table' = [table EXCEPT !.failed = TRUE]
    BY <1>1, <1>2, <1>4
       DEF StateOnLine, AddsState, AddState, Reading, TableInv, IsTable
  <2>2. table'.states = table.states
    BY <1>1, <2>1 DEF TableInv, IsTable
  <2>3. UNCHANGED <<blocks, written, deepest>>
    BY <1>4 DEF StateOnLine, AddsState
  <2> QED BY <1>1, <1>2, <1>3, <2>1, <2>2, <2>3 DEF ParserInv, Reading
<1>5. CASE ~table'.failed
  <2>1. /\ written' = Append(written, Around) /\ blocks' = blocks
        /\ deepest' = IF Len(blocks) + 1 > deepest THEN Len(blocks) + 1 ELSE deepest
    BY <1>5 DEF StateOnLine, AddsState
  <2>2. Around \in Nat
    BY <1>1 DEF Around, Last
  <2>3. Len(table'.states) = n + 1
    BY <1>2, <1>5 DEF GrownTree
  <2>4. /\ written' \in Seq(Nat) /\ Len(written') = n + 1
        /\ deepest' \in Nat /\ Len(blocks') <= deepest'
    BY <1>1, <2>1, <2>2
  <2> QED BY <1>1, <1>2, <1>3, <1>5, <2>1, <2>3, <2>4 DEF ParserInv, Reading
<1> QED BY <1>3, <1>4, <1>5

LEMMA CloseInv ==
  ASSUME ParserInv, CloseStateLine
  PROVE  ParserInv'
<1>1. /\ TableInv(table) /\ blocks \in Seq(Nat) /\ deepest \in Nat /\ oneLine \in Nat
      /\ Len(blocks) <= deepest /\ blocks # <<>>
      /\ table' = CloseBlock(table) /\ blocks' = Front(blocks)
      /\ UNCHANGED <<phase, written, deepest, oneLine>>
  BY DEF ParserInv, CloseStateLine
<1>2. /\ table'.states = table.states /\ table'.failed = table.failed
      /\ table'.stack = IF table.stack = <<>> THEN table.stack
                        ELSE Front(table.stack)
  BY <1>1 DEF CloseBlock, TableInv, IsTable
<1>3. TableInv(table')
  BY <1>1, CloseLinked
<1>4. blocks' \in Seq(Nat) /\ Len(blocks') <= deepest
  BY <1>1 DEF Front
<1>5. ParentIsEnclosingBlock'
  BY <1>1, <1>2 DEF ParserInv, ParentIsEnclosingBlock, WithinDepth, OwnLines, HsmStates
<1> QED BY <1>1, <1>2, <1>3, <1>4, <1>5 DEF ParserInv, Reading

\* entry:, exit:, history and initial: in a step.
LEMMA AttributeKept ==
  ASSUME NEW k \in Attributes, AttributeLine(k), TableInv(table)
  PROVE  TableInv(table') /\ SameTree(table', table)
<1> DEFINE line == [kind |-> k, path |-> <<"A">>, callback |-> k]
<1>1. table' = ParseLine(table, line)
  BY DEF AttributeLine
<1>2. line.kind = k /\ line.path = <<"A">> /\ line.callback = k
  OBVIOUS
<1>3. k \in {"initial", "entry", "exit", "history"}
  BY ParserAssumption DEF AttributeKinds
<1> HIDE DEF line
<1>4. \/ table' = table
      \/ table' = SetInitial(table, <<"A">>)
      \/ table' = SetEntry(table, k)
      \/ table' = SetExit(table, k)
      \/ table' = MarkHistory(table)
  BY <1>1, <1>2, <1>3 DEF ParseLine
<1>5. TableInv(table') /\ SameTree(table', table)
  <2>1. CASE table' = table
    BY <2>1 DEF SameTree
  <2>2. CASE table' # table
    BY <1>4, <2>2, AttributeLinked
  <2> QED BY <2>1, <2>2
<1> QED BY <1>5

LEMMA NextInv == ParserInv /\ [HsmNext]_hsmVars => ParserInv'
<1> SUFFICES ASSUME ParserInv, [HsmNext]_hsmVars PROVE ParserInv'
  OBVIOUS
<1>0. TableInv(table)
  BY DEF ParserInv
<1>1. ASSUME NEW n \in Names, StateLine(n) PROVE ParserInv'
  BY <1>1, StateInv
<1>7. ASSUME NEW n \in Names, NEW p \in OnLine, StateOnLine(n, p) PROVE ParserInv'
  BY <1>7, OnLineInv
<1>2. CASE CloseStateLine
  BY <1>2, CloseInv
<1>3. ASSUME NEW e \in Events, NEW p \in Targets, TransitionLine(e, p)
      PROVE  ParserInv'
  <2>1. TableInv(table') /\ SameTree(table', table)
    BY <1>0, <1>3, TransitionLinked DEF TransitionLine
  <2> QED BY <1>3, <2>1, SameTreeInv DEF TransitionLine
<1>4. ASSUME NEW k \in Attributes, AttributeLine(k) PROVE ParserInv'
  <2>1. TableInv(table') /\ SameTree(table', table)
    BY <1>0, <1>4, AttributeKept
  <2> QED BY <1>4, <2>1, SameTreeInv DEF AttributeLine
<1>5. CASE EndOfFile
  <2>1. TableInv(table') /\ SameTree(table', table)
    BY <1>0, <1>5, ResolveLinked DEF EndOfFile
  <2>2. phase' = "resolved" /\ UNCHANGED <<blocks, written, deepest, oneLine>>
    BY <1>5 DEF EndOfFile
  <2> QED BY <2>1, <2>2, SameTreeInv
<1>6. CASE UNCHANGED hsmVars
  BY <1>0, <1>6, SameTreeInv DEF hsmVars, SameTree
<1> QED BY <1>1, <1>2, <1>3, <1>4, <1>5, <1>6, <1>7 DEF HsmNext

-----------------------------------------------------------------------------
(* The path of a state is its parent's path and one name more, so a path   *)
(* names one chain of parents.                                             *)

PathsInv ==
  \A i \in 1 .. Len(table.states) :
    LET s == table.states[i] IN
      IF s.parent = 0 THEN \E n \in Names : s.path = <<n>>
      ELSE \E n \in Names : s.path = Append(table.states[s.parent].path, n)

LEMMA PathLengths ==
  ASSUME NEW S, NEW a \in Seq(S), NEW n \in S
  PROVE  Len(<<n>>) = 1 /\ Len(Append(a, n)) = Len(a) + 1 /\ Len(a) \in Nat
OBVIOUS

LEMMA AppendIsOneToOne ==
  ASSUME NEW S, NEW a \in Seq(S), NEW b \in Seq(S), NEW m \in S, NEW n \in S,
         Append(a, m) = Append(b, n)
  PROVE  a = b
<1>1. Len(a) = Len(b)
  <2>1. Len(Append(a, m)) = Len(a) + 1 /\ Len(Append(b, n)) = Len(b) + 1
    OBVIOUS
  <2> QED BY <2>1
<1>2. \A k \in 1 .. Len(a) : a[k] = b[k]
  <2>1. \A k \in 1 .. Len(a) : Append(a, m)[k] = a[k] /\ Append(b, n)[k] = b[k]
    BY <1>1
  <2> QED BY <2>1
<1>3. a = [k \in 1 .. Len(a) |-> a[k]] /\ b = [k \in 1 .. Len(b) |-> b[k]]
  OBVIOUS
<1> QED BY <1>1, <1>2, <1>3

LEMMA StatesTyped ==
  ASSUME ParserInv
  PROVE  /\ Len(table.states) \in Nat /\ HsmStates = 1 .. Len(table.states)
         /\ \A i \in HsmStates : /\ table.states[i] \in StateRecord
                             /\ table.states[i].path \in Seq(Names)
                             /\ table.states[i].parent \in 0 .. i - 1
<1>1. Linked(table.states, table.stack)
  BY DEF ParserInv, TableInv
<1>2. Len(table.states) \in Nat /\ HsmStates = 1 .. Len(table.states)
      /\ \A i \in HsmStates : table.states[i] \in StateRecord
  BY <1>1 DEF Linked, HsmStates
<1>3. \A i \in HsmStates : /\ table.states[i].path \in Seq(Names)
                       /\ table.states[i].parent \in Nat
  BY <1>2 DEF StateRecord
<1>4. \A i \in HsmStates : table.states[i].parent = 0 \/ table.states[i].parent < i
  BY <1>1, <1>2 DEF Linked
<1> QED BY <1>2, <1>3, <1>4

\* A step that keeps the tree.
LEMMA SameTreePaths ==
  ASSUME ParserInv, PathsInv, SameTree(table', table)
  PROVE  PathsInv'
<1> SUFFICES ASSUME NEW i \in 1 .. Len(table'.states)
             PROVE  LET s == table'.states[i] IN
                      IF s.parent = 0 THEN \E n \in Names : s.path = <<n>>
                      ELSE \E n \in Names :
                             s.path = Append(table'.states[s.parent].path, n)
  BY DEF PathsInv
<1>1. i \in 1 .. Len(table.states)
      /\ table'.states[i].parent = table.states[i].parent
      /\ table'.states[i].path = table.states[i].path
  BY DEF SameTree
<1>2. table.states[i].parent \in 0 .. i - 1 /\ Len(table.states) \in Nat
  BY <1>1, StatesTyped
<1>3. table.states[i].parent # 0 =>
        table'.states[table.states[i].parent].path
          = table.states[table.states[i].parent].path
  BY <1>1, <1>2 DEF SameTree
<1> QED BY <1>1, <1>3 DEF PathsInv

\* state Name {
LEMMA GrownPaths ==
  ASSUME ParserInv, PathsInv, NEW name \in Names,
         GrownTree(table', table, name)
  PROVE  PathsInv'
<1> DEFINE n == Len(table.states)
<1>1. n \in Nat /\ Len(table'.states) = n + 1
  BY StatesTyped DEF GrownTree
<1> SUFFICES ASSUME NEW i \in 1 .. n + 1
             PROVE  LET s == table'.states[i] IN
                      IF s.parent = 0 THEN \E m \in Names : s.path = <<m>>
                      ELSE \E m \in Names :
                             s.path = Append(table'.states[s.parent].path, m)
  BY <1>1 DEF PathsInv
<1>2. CASE i \in 1 .. n
  <2>1. table'.states[i].parent = table.states[i].parent
        /\ table'.states[i].path = table.states[i].path
    BY <1>2 DEF GrownTree
  <2>2. table.states[i].parent \in 0 .. i - 1
    BY <1>2, StatesTyped
  <2>3. table.states[i].parent # 0 =>
          table'.states[table.states[i].parent].path
            = table.states[table.states[i].parent].path
    <3>1. \A j \in 1 .. n : table'.states[j].path = table.states[j].path
      BY DEF GrownTree
    <3>2. table.states[i].parent # 0 => table.states[i].parent \in 1 .. n
      BY <1>1, <1>2, <2>2
    <3> QED BY <3>1, <3>2
  <2>4. LET q == table.states[i] IN
          IF q.parent = 0 THEN \E m \in Names : q.path = <<m>>
          ELSE \E m \in Names : q.path = Append(table.states[q.parent].path, m)
    BY <1>2 DEF PathsInv
  <2> QED BY <2>1, <2>3, <2>4
<1>3. CASE i = n + 1
  <2>1. /\ table'.states[i].parent = OpenBlock(table)
        /\ table'.states[i].path = IF OpenBlock(table) = 0 THEN <<name>>
                                   ELSE Append(table.states[OpenBlock(table)].path, name)
    BY <1>3 DEF GrownTree
  <2>2. OpenBlock(table) # 0 => OpenBlock(table) \in 1 .. n
    <3>1. CASE table.stack = <<>>
      BY <3>1 DEF OpenBlock
    <3>2. CASE table.stack # <<>>
      BY <3>2, TopIsState DEF ParserInv
    <3> QED BY <3>1, <3>2
  <2>3. OpenBlock(table) # 0 =>
          table'.states[OpenBlock(table)].path = table.states[OpenBlock(table)].path
    BY <2>2 DEF GrownTree
  <2> QED BY <2>1, <2>3
<1> QED BY <1>1, <1>2, <1>3

\* Every step keeps the tree or adds one state to it, and fits one of five cases.
LEMMA StepKinds ==
  ASSUME ParserInv, [HsmNext]_hsmVars
  PROVE  \/ SameTree(table', table)
         \/ /\ \E name \in Names : AddsState(name)
            /\ table'.states = table.states /\ table'.failed
         \/ \E name \in Names : AddsState(name) /\ GrownTree(table', table, name)
         \/ CloseStateLine /\ table'.states = table.states
<1>0. TableInv(table)
  BY DEF ParserInv
<1>1. ASSUME NEW name \in Names, AddsState(name)
      PROVE  \/ table'.states = table.states /\ table'.failed
             \/ GrownTree(table', table, name)
  <2>1. table' = AddState(table, name) /\ ~table.failed
    BY <1>1 DEF AddsState, NextLine, ParserInv, Reading
  <2>2. CASE Len(table.states) >= MaxStates
    <3>1. table' = [table EXCEPT !.failed = TRUE]
      BY <2>1, <2>2 DEF AddState
    <3> QED BY <1>0, <3>1 DEF TableInv, IsTable
  <2>3. CASE ~(Len(table.states) >= MaxStates)
    <3>1. table'.failed \/ GrownTree(table', table, name)
      BY <1>0, <2>1, AddLinked
    <3>2. table'.failed = table.failed
      BY <1>0, <2>1, <2>3 DEF AddState, TableInv, IsTable
    <3> QED BY <2>1, <3>1, <3>2
  <2> QED BY <2>2, <2>3
<1>2. CASE CloseStateLine
  BY <1>0, <1>2 DEF CloseStateLine, CloseBlock, TableInv, IsTable
<1>3. ASSUME NEW e \in Events, NEW p \in Targets, TransitionLine(e, p)
      PROVE  SameTree(table', table)
  BY <1>0, <1>3, TransitionLinked DEF TransitionLine
<1>4. ASSUME NEW k \in Attributes, AttributeLine(k)
      PROVE  SameTree(table', table)
  BY <1>0, <1>4, AttributeKept
<1>5. CASE EndOfFile
  BY <1>0, <1>5, ResolveLinked DEF EndOfFile
<1>6. CASE UNCHANGED hsmVars
  BY <1>6 DEF hsmVars, SameTree
<1> QED BY <1>1, <1>2, <1>3, <1>4, <1>5, <1>6 DEF HsmNext, StateLine, StateOnLine

LEMMA PathsNext == ParserInv /\ PathsInv /\ [HsmNext]_hsmVars => PathsInv'
<1> SUFFICES ASSUME ParserInv, PathsInv, [HsmNext]_hsmVars PROVE PathsInv'
  OBVIOUS
<1>1. CASE SameTree(table', table)
  BY <1>1, SameTreePaths
<1>2. CASE table'.states = table.states
  BY <1>2 DEF PathsInv
<1>3. ASSUME NEW name \in Names, GrownTree(table', table, name) PROVE PathsInv'
  BY <1>3, GrownPaths
<1> QED BY <1>1, <1>2, <1>3, StepKinds

-----------------------------------------------------------------------------
(* The table of transitions: what a line puts there and what the last pass *)
(* makes of it.                                                            *)

\* A target as written, or qualified with the path of a state.
TargetPaths == Targets \union UNION {{p \o q : p \in Seq(Names)} : q \in Targets}

TransitionRecord ==
  [event: Events, source: Seq(Names), target: TargetPaths,
   guard: {NoCallback}, action: {NoCallback}, sourceIndex: Nat, targetIndex: Nat]

Indices(transitions, n) ==
  \A j \in 1 .. Len(transitions) :
    transitions[j].sourceIndex \in 0 .. n /\ transitions[j].targetIndex \in 0 .. n

\* Within the limits, the transitions are those written, each with the path of the
\* state it is written in.
Sources ==
  oneLine = 0 /\ deepest <= MaxDepth /\ Len(arrows) <= MaxTransitions =>
    /\ Len(table.transitions) = Len(arrows)
    /\ \A j \in 1 .. Len(arrows) :
         /\ arrows[j].source \in 1 .. Len(table.states)
         /\ table.transitions[j].source = table.states[arrows[j].source].path

TransitionsInv ==
  /\ table.transitions \in Seq(TransitionRecord)
  /\ Len(table.transitions) <= MaxTransitions
  /\ Len(table.states) <= MaxStates
  /\ Len(table.stack) <= MaxDepth
  /\ Indices(table.transitions, Len(table.states))
  /\ arrows \in Seq([source: Nat, target: Targets, declared: Nat])
  /\ phase \in {"reading", "resolved", "refused"}
  /\ lines \in 0 .. MaxLines
  /\ oneLine \in 0 .. MaxOneLine
  /\ Sources
  /\ phase = "resolved" =>
       \A j \in 1 .. Len(table.transitions) :
         table.transitions[j].sourceIndex
           = FindState(table, table.transitions[j].source)

\* A set of numbers has a least one, which Min chooses.
LEMMA MinOfNumbers ==
  ASSUME NEW I \in SUBSET Nat, I # {}
  PROVE  Min(I) \in I
<1>1. PICK x \in I : \A y \in I : ~ (<<y, x>> \in OpToRel(<, Nat))
  BY NatLessThanWellFounded, WFMin
<1>2. \A y \in I : x <= y
  <2>1. \A y \in I : ~ (y < x)
    BY <1>1 DEF OpToRel
  <2> QED BY <2>1
<1> QED BY <1>2 DEF Min

\* find_state_by_path finds a state with the path if there is one.
LEMMA FindStateFinds ==
  ASSUME NEW t, t.states \in Seq(StateRecord), NEW path
  PROVE  LET i == FindState(t, path)
         IN  /\ i \in 0 .. Len(t.states)
             /\ i # 0 => t.states[i].path = path
             /\ i = 0 => \A k \in 1 .. Len(t.states) : t.states[k].path # path
<1> DEFINE I == {k \in 1 .. Len(t.states) : t.states[k].path = path}
<1>1. FindState(t, path) = IF I # {} THEN Min(I) ELSE 0
  BY DEF FindState, SelectInSeq
<1>2. I \in SUBSET Nat /\ Len(t.states) \in Nat
  OBVIOUS
<1>3. I # {} => Min(I) \in I
  BY <1>2, MinOfNumbers
<1> QED BY <1>1, <1>2, <1>3

\* find_state_by_path finds the state, where no two have one path.
LEMMA TheStateFound ==
  ASSUME ParserInv, UniquePaths, NEW i \in HsmStates
  PROVE  FindState(table, table.states[i].path) = i
<1> DEFINE path == table.states[i].path
           k == FindState(table, path)
<1>1. table.states \in Seq(StateRecord)
  BY DEF ParserInv, TableInv, Linked
<1>2. /\ k \in 0 .. Len(table.states)
      /\ k # 0 => table.states[k].path = path
      /\ k = 0 => \A m \in 1 .. Len(table.states) : table.states[m].path # path
  BY <1>1, FindStateFinds
<1>3. HsmStates = 1 .. Len(table.states) /\ Len(table.states) \in Nat
  BY StatesTyped
<1>4. k # 0
  BY <1>2, <1>3
<1>5. k \in HsmStates /\ table.states[k].path = table.states[i].path
  BY <1>2, <1>3, <1>4
<1> HIDE DEF k
<1>6. k = i
  BY <1>5 DEF UniquePaths
<1> QED BY <1>6 DEF k

\* An attribute line leaves the table of transitions alone.
LEMMA AttributeLines ==
  ASSUME NEW t, IsTable(t), NEW kind
  PROVE  \A u \in {SetInitial(t, <<"A">>), SetEntry(t, kind), SetExit(t, kind),
                   MarkHistory(t)} :
           u.transitions = t.transitions
BY DEF IsTable, SetInitial, SetEntry, SetExit, MarkHistory

\* A step with an attribute line.
LEMMA AttributeTransitions ==
  ASSUME NEW k \in Attributes, AttributeLine(k), IsTable(table)
  PROVE  table'.transitions = table.transitions
<1> DEFINE line == [kind |-> k, path |-> <<"A">>, callback |-> k]
<1>1. table' = ParseLine(table, line)
  BY DEF AttributeLine
<1>2. line.kind = k /\ line.path = <<"A">> /\ line.callback = k
  OBVIOUS
<1>3. k \in {"initial", "entry", "exit", "history"}
  BY ParserAssumption DEF AttributeKinds
<1> HIDE DEF line
<1>4. \/ table' = table
      \/ table' \in {SetInitial(table, <<"A">>), SetEntry(table, k),
                     SetExit(table, k), MarkHistory(table)}
  BY <1>1, <1>2, <1>3 DEF ParseLine
<1> QED BY <1>4, AttributeLines

LEMMA QualifiedPaths ==
  ASSUME NEW p \in Targets, NEW a \in Seq(Names)
  PROVE  p \in TargetPaths /\ a \o p \in TargetPaths
BY DEF TargetPaths

LEMMA NewTransition ==
  ASSUME NEW e \in Events, NEW a \in Seq(Names), NEW p \in TargetPaths
  PROVE  [event |-> e, source |-> a, target |-> p, guard |-> NoCallback,
          action |-> NoCallback, sourceIndex |-> 0, targetIndex |-> 0]
           \in TransitionRecord
BY DEF TransitionRecord

\* on Event -> Target adds at most one transition, from the state on top of the stack.
LEMMA TransitionAdded ==
  ASSUME ParserInv, NEW e \in Events, NEW p \in Targets, p # <<>>,
         table.stack # <<>>, Len(table.transitions) < MaxTransitions,
         table.transitions \in Seq(TransitionRecord),
         NEW line, line = [event |-> e, target |-> p,
                           guard |-> NoCallback, action |-> NoCallback]
  PROVE  \E r \in TransitionRecord :
           /\ AddTransition(table, line).transitions = Append(table.transitions, r)
           /\ r.source = table.states[OpenBlock(table)].path
           /\ r.target = Qualify(table, OpenBlock(table), p)
           /\ r.sourceIndex = 0 /\ r.targetIndex = 0
<1> DEFINE t == table
           target == Qualify(t, OpenBlock(t), p)
           r == [event |-> e, source |-> t.states[OpenBlock(t)].path,
                 target |-> target, guard |-> NoCallback,
                 action |-> NoCallback, sourceIndex |-> 0, targetIndex |-> 0]
<1>1. IsTable(t) /\ OpenBlock(t) \in HsmStates /\ HsmStates = 1 .. Len(t.states)
  BY TopIsState, StatesTyped DEF ParserInv, TableInv
<1>2. t.states[OpenBlock(t)].path \in Seq(Names)
  BY <1>1, StatesTyped
<1>3. target \in TargetPaths
  <2> DEFINE parent == t.states[OpenBlock(t)].parent
             child == t.states[OpenBlock(t)].path \o p
             sibling == t.states[parent].path \o p
  <2>1. target = p \/ target = child \/ (parent # 0 /\ target = sibling)
    BY DEF Qualify
  <2>2. parent # 0 => t.states[parent].path \in Seq(Names)
    <3>1. parent \in 0 .. OpenBlock(t) - 1
      BY <1>1, StatesTyped
    <3>2. parent # 0 => parent \in HsmStates
      BY <1>1, <3>1, StatesTyped
    <3> QED BY <3>2, StatesTyped
  <2>3. p \in TargetPaths /\ child \in TargetPaths
    BY <1>2, QualifiedPaths
  <2>4. parent # 0 => sibling \in TargetPaths
    BY <2>2, QualifiedPaths
  <2> HIDE DEF child, sibling, parent, target
  <2> QED BY <2>1, <2>3, <2>4
<1> HIDE DEF target
<1>4. r \in TransitionRecord
  <2> DEFINE a == t.states[OpenBlock(t)].path
  <2>1. a \in Seq(Names)
    BY <1>2
  <2> HIDE DEF a
  <2>2. [event |-> e, source |-> a, target |-> target, guard |-> NoCallback,
         action |-> NoCallback, sourceIndex |-> 0, targetIndex |-> 0]
          \in TransitionRecord
    BY <1>3, <2>1, NewTransition
  <2> QED BY <2>2 DEF a
<1>5. AddTransition(t, line).transitions = Append(t.transitions, r)
  <2> DEFINE owner == IF IsHistory(target) THEN FindState(t, Composite(target)) ELSE 0
             new == [event |-> line.event, source |-> t.states[OpenBlock(t)].path,
                     target |-> target, guard |-> line.guard,
                     action |-> line.action, sourceIndex |-> 0, targetIndex |-> 0]
             noted == [t EXCEPT !.events = FindOrAddEvent(@, line.event)]
             marked == [j \in DOMAIN t.states |->
                          IF j = owner THEN [t.states[j] EXCEPT !.history = TRUE]
                          ELSE t.states[j]]
  <2>1. /\ line.event = e /\ line.target = p
        /\ line.guard = NoCallback /\ line.action = NoCallback
    OBVIOUS
  <2>2. new = r
    BY <2>1
  <2>3. /\ noted.transitions = t.transitions /\ noted.states = t.states
        /\ {"transitions", "states"} \subseteq DOMAIN noted
    BY <1>1 DEF IsTable
  <2>4. ~(t.stack = <<>> \/ Len(t.transitions) >= MaxTransitions)
    <3>1. Len(t.transitions) \in Nat
      OBVIOUS
    <3> QED BY <3>1, LimitsAssumption
  <2>5. AddTransition(t, line)
          = [noted EXCEPT !.transitions = Append(t.transitions, new),
                          !.states = marked]
    BY <2>1, <2>3, <2>4 DEF AddTransition, target
  <2> HIDE DEF noted, marked, new, r
  <2> QED BY <2>2, <2>3, <2>5
<1>6. /\ r.source = t.states[OpenBlock(t)].path /\ r.target = target
      /\ r.sourceIndex = 0 /\ r.targetIndex = 0
  OBVIOUS
<1> HIDE DEF r
<1> QED BY <1>4, <1>5, <1>6 DEF target

Arrows == Seq([source: Nat, target: Targets, declared: Nat])

\* A step that leaves the transitions and the paths of the states there are.
LEMMA KeptTransitions ==
  ASSUME ParserInv, TransitionsInv,
         table'.transitions = table.transitions,
         Len(table'.states) \in Nat, Len(table.states) <= Len(table'.states),
         \A i \in 1 .. Len(table.states) : table'.states[i].path = table.states[i].path,
         Len(table'.states) <= MaxStates, Len(table'.stack) <= MaxDepth,
         deepest' \in Nat, deepest <= deepest',
         oneLine' \in 0 .. MaxOneLine, oneLine <= oneLine',
         arrows' \in Arrows,
         arrows' = arrows \/ oneLine' # 0,
         lines' \in 0 .. MaxLines,
         phase' \in {"reading", "refused"}
  PROVE  TransitionsInv'
<1>1. Len(table.states) \in Nat
  BY StatesTyped
<1>2. Indices(table'.transitions, Len(table'.states))
  <2> SUFFICES ASSUME NEW j \in 1 .. Len(table.transitions)
               PROVE  /\ table.transitions[j].sourceIndex \in 0 .. Len(table'.states)
                      /\ table.transitions[j].targetIndex \in 0 .. Len(table'.states)
    BY DEF Indices
  <2>1. /\ table.transitions[j].sourceIndex \in 0 .. Len(table.states)
        /\ table.transitions[j].targetIndex \in 0 .. Len(table.states)
    BY DEF TransitionsInv, Indices
  <2> QED BY <1>1, <2>1
<1>3. Sources'
  <2> SUFFICES ASSUME oneLine' = 0 /\ deepest' <= MaxDepth, arrows' = arrows,
                      Len(arrows) <= MaxTransitions
               PROVE  /\ Len(table.transitions) = Len(arrows)
                      /\ \A j \in 1 .. Len(arrows) :
                           /\ arrows[j].source \in 1 .. Len(table'.states)
                           /\ table.transitions[j].source
                                = table'.states[arrows[j].source].path
    BY DEF Sources
  <2>1. oneLine = 0 /\ deepest <= MaxDepth
    BY LimitsAssumption, ParserAssumption DEF ParserInv
  <2>2. /\ Len(table.transitions) = Len(arrows)
        /\ \A j \in 1 .. Len(arrows) :
             /\ arrows[j].source \in 1 .. Len(table.states)
             /\ table.transitions[j].source = table.states[arrows[j].source].path
    BY <2>1 DEF TransitionsInv, Sources
  <2>3. ASSUME NEW j \in 1 .. Len(arrows)
        PROVE  /\ arrows[j].source \in 1 .. Len(table'.states)
               /\ table'.states[arrows[j].source].path
                    = table.states[arrows[j].source].path
    <3> DEFINE i == arrows[j].source
    <3>1. i \in 1 .. Len(table.states)
      BY <2>2, <2>3
    <3> HIDE DEF i
    <3>2. i \in 1 .. Len(table'.states)
      BY <1>1, <3>1
    <3>3. table'.states[i].path = table.states[i].path
      BY <3>1
    <3> QED BY <3>2, <3>3 DEF i
  <2> QED BY <2>2, <2>3
<1> QED BY <1>2, <1>3 DEF TransitionsInv, Arrows

LEMMA TransitionsStep == ParserInv /\ TransitionsInv /\ [HsmNext]_hsmVars => TransitionsInv'
<1> SUFFICES ASSUME ParserInv, TransitionsInv, [HsmNext]_hsmVars PROVE TransitionsInv'
  OBVIOUS
<1>0. /\ TableInv(table) /\ IsTable(table) /\ Len(table.states) \in Nat
      /\ Linked(table.states, table.stack)
      /\ deepest \in Nat /\ oneLine \in Nat /\ MaxLines \in Nat /\ table.stack \in Seq(Nat)
  BY StatesTyped, ParserAssumption DEF ParserInv, TableInv, Linked
<1>9. /\ arrows \in Arrows /\ oneLine \in 0 .. MaxOneLine /\ oneLine <= oneLine
      /\ Len(table.states) <= MaxStates /\ Len(table.stack) <= MaxDepth
  BY <1>0 DEF TransitionsInv, Arrows
<1>1. ASSUME NEW name \in Names, AddsState(name),
             arrows' \in Arrows,
             arrows' = arrows \/ oneLine' # 0,
             oneLine' \in 0 .. MaxOneLine, oneLine <= oneLine'
      PROVE  TransitionsInv'
  <2>1. /\ table' = AddState(table, name) /\ phase = "reading" /\ ~table.failed
        /\ lines' = lines + 1 /\ lines < MaxLines
        /\ phase' \in {"reading", "refused"}
        /\ deepest' \in {deepest, Len(blocks) + 1} /\ deepest <= deepest'
        /\ deepest' \in Nat
    BY <1>0, <1>1 DEF AddsState, NextLine, ParserInv, Reading
  <2>2. table'.transitions = table.transitions /\ lines' \in 0 .. MaxLines
    <3>1. table'.transitions = table.transitions
      BY <1>0, <2>1 DEF AddState, IsTable
    <3> QED BY <1>0, <2>1, <3>1 DEF TransitionsInv
  <2>3. CASE Len(table.states) >= MaxStates
    <3>1. table'.states = table.states /\ table'.stack = table.stack
      BY <1>0, <2>1, <2>3 DEF AddState, IsTable
    <3> QED BY <1>0, <1>1, <2>1, <2>2, <3>1, <1>9, KeptTransitions
  <2>4. CASE ~(Len(table.states) >= MaxStates)
    <3>1. table'.failed = table.failed
      BY <1>0, <2>1, <2>4 DEF AddState, IsTable
    <3>2. GrownTree(table', table, name)
      BY <1>0, <2>1, <3>1, AddLinked
    <3>3. Len(table'.stack) <= MaxDepth
      BY <1>0, <3>2, LimitsAssumption DEF GrownTree, TransitionsInv
    <3>4. /\ Len(table'.states) = Len(table.states) + 1
          /\ Len(table'.states) <= MaxStates
          /\ \A i \in 1 .. Len(table.states) :
               table'.states[i].path = table.states[i].path
      BY <3>2 DEF GrownTree
    <3>5. Len(table'.states) \in Nat /\ Len(table.states) <= Len(table'.states)
      BY <1>0, <3>4
    <3> QED BY <1>1, <2>1, <2>2, <3>3, <3>4, <3>5, KeptTransitions
  <2> QED BY <2>3, <2>4
<1>7. ASSUME NEW name \in Names, StateLine(name) PROVE TransitionsInv'
  <2>1. arrows' = arrows /\ oneLine' = oneLine
    BY <1>7 DEF StateLine, AddsState
  <2>2. AddsState(name)
    BY <1>7 DEF StateLine
  <2> QED BY <1>1, <1>9, <2>1, <2>2
<1>8. ASSUME NEW name \in Names, NEW p \in OnLine, StateOnLine(name, p)
      PROVE  TransitionsInv'
  <2>1. oneLine' = oneLine + 1 /\ oneLine < MaxOneLine /\ AddsState(name)
    BY <1>8 DEF StateOnLine
  <2> DEFINE arrow == [source   |-> Len(table'.states), target |-> p,
                       declared |-> Len(table'.states)]
  <2>2. arrow \in [source: Nat, target: Targets, declared: Nat]
    <3>1. Len(table'.states) \in Nat
      <4>1. TableInv(table')
        BY <1>0, <2>1, AddLinked DEF AddsState
      <4> QED BY <4>1 DEF TableInv, Linked
    <3> QED BY <3>1, ParserAssumption
  <2>3. arrows' \in {arrows, Append(arrows, arrow)}
    BY <1>8 DEF StateOnLine, AddsState
  <2> HIDE DEF arrow
  <2>4. arrows' \in Arrows
    <3>1. Append(arrows, arrow) \in Arrows
      BY <1>9, <2>2 DEF Arrows
    <3> QED BY <1>9, <2>3, <3>1
  <2>5. oneLine' \in 0 .. MaxOneLine /\ oneLine <= oneLine' /\ oneLine' # 0
    BY <1>0, <2>1, ParserAssumption
  <2> QED BY <1>1, <2>1, <2>4, <2>5
<1>2. CASE CloseStateLine
  <2>1. /\ table' = CloseBlock(table) /\ phase = "reading" /\ phase' = phase
        /\ lines' = lines + 1 /\ lines < MaxLines /\ arrows' = arrows
        /\ deepest' = deepest /\ oneLine' = oneLine
    BY <1>2 DEF CloseStateLine, NextLine
  <2>2. table'.transitions = table.transitions /\ lines' \in 0 .. MaxLines
    <3>1. table'.transitions = table.transitions
      BY <1>0, <2>1 DEF CloseBlock, IsTable
    <3> QED BY <1>0, <2>1, <3>1 DEF TransitionsInv
  <2>3. /\ table'.states = table.states
        /\ table'.stack = IF table.stack = <<>> THEN table.stack ELSE Front(table.stack)
    BY <1>0, <2>1 DEF CloseBlock, IsTable
  <2>4. Len(table'.stack) <= MaxDepth
    BY <1>0, <2>3, LimitsAssumption DEF TransitionsInv, Front
  <2> QED BY <1>0, <2>1, <2>2, <2>3, <2>4, <1>9, KeptTransitions
<1>3. ASSUME NEW e \in Events, NEW p \in Targets, TransitionLine(e, p)
      PROVE  TransitionsInv'
  <2> DEFINE line == [event |-> e, target |-> p,
                      guard |-> NoCallback, action |-> NoCallback]
             arrow == [source |-> Around, target |-> p,
                       declared |-> Len(table.states)]
  <2>1. /\ table' = AddTransition(table, line) /\ phase = "reading" /\ phase' = phase
        /\ lines' = lines + 1 /\ lines < MaxLines /\ blocks # <<>>
        /\ deepest' = deepest /\ oneLine' = oneLine
        /\ arrows' = IF p = <<>> THEN arrows ELSE Append(arrows, arrow)
    BY <1>3 DEF TransitionLine, NextLine
  <2>2. SameTree(table', table) /\ lines' \in 0 .. MaxLines
    BY <1>0, <2>1, TransitionLinked DEF TransitionsInv
  <2>3. /\ Len(table'.states) = Len(table.states) /\ table'.stack = table.stack
        /\ \A i \in 1 .. Len(table.states) : table'.states[i].path = table.states[i].path
    BY <2>2 DEF SameTree
  <2> HIDE DEF arrow
  <2>4. CASE p = <<>>
    <3>1. table'.transitions = table.transitions
      BY <1>0, <2>1, <2>4 DEF AddTransition, IsTable
    <3>2. arrows' = arrows
      BY <2>1, <2>4
    <3> QED BY <1>0, <2>1, <2>2, <2>3, <3>1, <3>2, <1>9, KeptTransitions
  <2>5. ASSUME p # <<>> PROVE TransitionsInv'
    <3>1. blocks \in Seq(Nat) /\ Around \in Nat
      BY <2>1 DEF ParserInv, Around, Last
    <3>2. /\ arrows' = Append(arrows, arrow)
          /\ arrow \in [source: Nat, target: Targets, declared: Nat]
          /\ arrow.source = Around
      BY <1>0, <2>1, <2>5, <3>1 DEF arrow
    <3>3. /\ arrows' \in Seq([source: Nat, target: Targets, declared: Nat])
          /\ Len(arrows') = Len(arrows) + 1 /\ Len(arrows) \in Nat
          /\ \A j \in 1 .. Len(arrows) : arrows'[j] = arrows[j]
          /\ arrows'[Len(arrows) + 1] = arrow
      BY <3>2 DEF TransitionsInv
    <3>4. CASE table.stack = <<>> \/ Len(table.transitions) >= MaxTransitions
      <4>1. table' = table
        BY <2>1, <3>4 DEF AddTransition
      <4>2. ~(oneLine' = 0 /\ deepest' <= MaxDepth /\ Len(arrows') <= MaxTransitions)
        <5> SUFFICES ASSUME oneLine = 0 /\ deepest <= MaxDepth,
                            Len(arrows) + 1 <= MaxTransitions
                     PROVE  FALSE
          BY <2>1, <3>3
        <5>1. table.stack = blocks
          BY DEF ParserInv, ParentIsEnclosingBlock, WithinDepth, OwnLines
        <5>2. Len(arrows) <= MaxTransitions
          BY <3>3, LimitsAssumption
        <5>3. Len(table.transitions) = Len(arrows)
          BY <5>2 DEF TransitionsInv, Sources
        <5> QED BY <2>1, <3>3, <3>4, <5>1, <5>3, LimitsAssumption
      <4>3. Sources'
        BY <4>2 DEF Sources
      <4> QED BY <2>1, <2>2, <3>3, <4>1, <4>3 DEF TransitionsInv
    <3>5. CASE table.stack # <<>> /\ Len(table.transitions) < MaxTransitions
      <4>1. PICK r \in TransitionRecord :
              /\ table'.transitions = Append(table.transitions, r)
              /\ r.source = table.states[OpenBlock(table)].path
              /\ r.sourceIndex = 0 /\ r.targetIndex = 0
        BY <2>1, <2>5, <3>5, TransitionAdded DEF TransitionsInv
      <4> DEFINE m == Len(table.transitions)
      <4>2. /\ table'.transitions \in Seq(TransitionRecord)
            /\ m \in Nat /\ Len(table'.transitions) = m + 1
            /\ \A j \in 1 .. m : table'.transitions[j] = table.transitions[j]
            /\ table'.transitions[m + 1] = r
        BY <4>1 DEF TransitionsInv
      <4>3. Len(table'.transitions) <= MaxTransitions
        BY <3>5, <4>2, LimitsAssumption
      <4>4. Indices(table'.transitions, Len(table'.states))
        <5> SUFFICES ASSUME NEW j \in 1 .. m + 1
                     PROVE  /\ table'.transitions[j].sourceIndex \in 0 .. Len(table.states)
                            /\ table'.transitions[j].targetIndex \in 0 .. Len(table.states)
          BY <2>3, <4>2 DEF Indices
        <5>1. CASE j = m + 1
          BY <1>0, <4>1, <4>2, <5>1
        <5>2. CASE j \in 1 .. m
          BY <4>2, <5>2 DEF TransitionsInv, Indices
        <5> QED BY <4>2, <5>1, <5>2
      <4>5. Sources'
        <5> SUFFICES ASSUME oneLine = 0 /\ deepest <= MaxDepth,
                            Len(arrows) + 1 <= MaxTransitions
                     PROVE  /\ Len(table'.transitions) = Len(arrows) + 1
                            /\ \A j \in 1 .. Len(arrows) + 1 :
                                 /\ arrows'[j].source \in 1 .. Len(table.states)
                                 /\ table'.transitions[j].source
                                      = table'.states[arrows'[j].source].path
          BY <2>1, <2>3, <3>3 DEF Sources
        <5>1. table.stack = blocks
          BY DEF ParserInv, ParentIsEnclosingBlock, WithinDepth, OwnLines
        <5>2. Len(arrows) <= MaxTransitions
          BY <3>3, LimitsAssumption
        <5>3. /\ m = Len(arrows)
              /\ \A j \in 1 .. Len(arrows) :
                   /\ arrows[j].source \in 1 .. Len(table.states)
                   /\ table.transitions[j].source = table.states[arrows[j].source].path
          BY <5>2 DEF TransitionsInv, Sources
        <5>4. OpenBlock(table) = Around /\ OpenBlock(table) \in 1 .. Len(table.states)
          BY <1>0, <3>5, <5>1, TopIsState DEF OpenBlock, Around
        <5>5. ASSUME NEW j \in 1 .. Len(arrows) + 1
              PROVE  /\ arrows'[j].source \in 1 .. Len(table.states)
                     /\ table'.transitions[j].source
                          = table'.states[arrows'[j].source].path
          <6>1. CASE j \in 1 .. Len(arrows)
            BY <2>3, <3>3, <4>2, <5>3, <6>1
          <6>2. CASE j = Len(arrows) + 1
            BY <2>3, <3>2, <3>3, <4>1, <4>2, <5>3, <5>4, <6>2
          <6> QED BY <3>3, <6>1, <6>2
        <5> QED BY <4>2, <5>3, <5>5
      <4> QED BY <2>1, <2>2, <2>3, <3>3, <4>2, <4>3, <4>4, <4>5 DEF TransitionsInv
    <3>6. Len(table.transitions) \in Nat
      BY DEF TransitionsInv
    <3> QED BY <3>4, <3>5, <3>6, LimitsAssumption
  <2> QED BY <2>4, <2>5
<1>4. ASSUME NEW k \in Attributes, AttributeLine(k) PROVE TransitionsInv'
  <2>1. SameTree(table', table)
    BY <1>0, <1>4, AttributeKept
  <2>2. /\ phase = "reading" /\ phase' = phase
        /\ lines' = lines + 1 /\ lines < MaxLines /\ arrows' = arrows
        /\ deepest' = deepest /\ oneLine' = oneLine
    BY <1>4 DEF AttributeLine, NextLine
  <2>3. table'.transitions = table.transitions /\ lines' \in 0 .. MaxLines
    BY <1>0, <1>4, <2>2, AttributeTransitions DEF TransitionsInv
  <2>4. /\ Len(table'.states) = Len(table.states) /\ table'.stack = table.stack
        /\ \A i \in 1 .. Len(table.states) : table'.states[i].path = table.states[i].path
    BY <2>1 DEF SameTree
  <2> QED BY <1>0, <2>2, <2>3, <2>4, <1>9, KeptTransitions
<1>5. CASE EndOfFile
  <2>1. /\ table' = ResolveTransitions(table) /\ phase' = "resolved"
        /\ UNCHANGED <<arrows, deepest, oneLine, lines>>
    BY <1>5 DEF EndOfFile
  <2>2. table'.states = table.states /\ table'.stack = table.stack
    BY <1>0, <2>1 DEF ResolveTransitions, IsTable
  <2> DEFINE m == Len(table.transitions)
             new(j) == [table.transitions[j] EXCEPT
                          !.sourceIndex = FindState(table, table.transitions[j].source),
                          !.targetIndex = TargetIndex(table, table.transitions[j].target)]
  <2>3. table'.transitions = [j \in DOMAIN table.transitions |-> new(j)]
    BY <1>0, <2>1 DEF ResolveTransitions, IsTable
  <2>4. m \in Nat /\ DOMAIN table.transitions = 1 .. m
        /\ \A j \in 1 .. m : table.transitions[j] \in TransitionRecord
    BY DEF TransitionsInv
  <2>5. ASSUME NEW j \in 1 .. m
        PROVE  /\ new(j) \in TransitionRecord
               /\ new(j).source = table.transitions[j].source
               /\ new(j).sourceIndex = FindState(table, table.transitions[j].source)
               /\ new(j).sourceIndex \in 0 .. Len(table.states)
               /\ new(j).targetIndex \in 0 .. Len(table.states)
    <3> DEFINE a == FindState(table, table.transitions[j].source)
               b == TargetIndex(table, table.transitions[j].target)
               tr == table.transitions[j]
    <3>1. a \in 0 .. Len(table.states) /\ b \in 0 .. Len(table.states)
      BY <1>0, FindStateFinds DEF Linked, TargetIndex
    <3>2. tr \in TransitionRecord
      BY <2>4
    <3>3. new(j) = [tr EXCEPT !.sourceIndex = a, !.targetIndex = b]
      OBVIOUS
    <3> HIDE DEF a, b, tr, new
    <3>4. /\ new(j) \in TransitionRecord /\ new(j).source = tr.source
          /\ new(j).sourceIndex = a /\ new(j).targetIndex = b
      <4>1. a \in Nat /\ b \in Nat
        BY <1>0, <3>1
      <4> QED BY <3>2, <3>3, <4>1 DEF TransitionRecord
    <3> QED BY <3>1, <3>4 DEF a, b, tr
  <2> HIDE DEF new
  <2>6. /\ table'.transitions \in Seq(TransitionRecord)
        /\ Len(table'.transitions) = m
        /\ \A j \in 1 .. m : table'.transitions[j] = new(j)
    <3>1. table'.transitions \in [1 .. m -> TransitionRecord]
      BY <2>3, <2>4, <2>5
    <3> QED BY <2>3, <2>4, <3>1, FunctionIsSequence
  <2>7. Indices(table'.transitions, Len(table'.states))
    BY <2>2, <2>5, <2>6 DEF Indices
  <2>8. Sources'
    BY <2>1, <2>2, <2>5, <2>6 DEF Sources, TransitionsInv
  <2>9. \A j \in 1 .. Len(table'.transitions) :
          table'.transitions[j].sourceIndex
            = FindState(table', table'.transitions[j].source)
    <3>1. \A path : FindState(table', path) = FindState(table, path)
      BY <2>2 DEF FindState
    <3>2. ASSUME NEW j \in 1 .. m
          PROVE  table'.transitions[j].sourceIndex
                   = FindState(table, table'.transitions[j].source)
      BY <2>5, <2>6
    <3> QED BY <2>6, <3>1, <3>2
  <2> QED BY <2>1, <2>2, <2>6, <2>7, <2>8, <2>9 DEF TransitionsInv
<1>6. CASE UNCHANGED hsmVars
  <2>1. UNCHANGED <<table, phase, arrows, deepest, oneLine, lines>>
    BY <1>6 DEF hsmVars
  <2> QED BY <2>1 DEF TransitionsInv, Sources, Indices, FindState, SelectInSeq
<1> QED BY <1>2, <1>3, <1>4, <1>5, <1>6, <1>7, <1>8 DEF HsmNext

LEMMA TransitionsInit == HsmInit => TransitionsInv
BY LimitsAssumption, ParserAssumption
   DEF HsmInit, TransitionsInv, EmptyTable, Indices, Sources

-----------------------------------------------------------------------------
\* Whatever lines the file has, in whatever order, and whatever the limits,
\* parents come first and depths count them: climbing state_info[].parent
\* ends.
THEOREM ParentsAlwaysClimb == HsmSpec => []ParentsClimb
<1>1. ParserInv => ParentsClimb
  BY DEF ParserInv, TableInv, Linked, ParentsClimb, HsmStates
<1> QED BY <1>1, InitInv, NextInv, PTL DEF HsmSpec

\* However many blocks the file opens and closes, as long as it nests them no
\* deeper than MAX_DEPTH and puts no state on one line, `state X { ... }', each
\* state's parent is the state it is written inside and the parser's stack is the
\* list of open blocks (hsmgen.c:147-192, :352-369).
THEOREM ParentsAreEnclosing == HsmSpec => []ParentIsEnclosingBlock
<1>1. ParserInv => ParentIsEnclosingBlock
  BY DEF ParserInv
<1> QED BY <1>1, InitInv, NextInv, PTL DEF HsmSpec

\* Two states with one path were written with one name in one place: their
\* parents have one path too (hsmgen.c:306-330).
THEOREM PathsNameParents == HsmSpec => []PathsFollowParents
<1>1. HsmInit => PathsInv
  BY DEF HsmInit, PathsInv, EmptyTable
<1>2. ASSUME ParserInv, PathsInv PROVE PathsFollowParents
  <2> SUFFICES ASSUME NEW i \in HsmStates, NEW j \in HsmStates,
                      table.states[i].path = table.states[j].path
               PROVE  LET p == table.states[i].parent
                          q == table.states[j].parent
                      IN  /\ p = 0 <=> q = 0
                          /\ p # 0 => table.states[p].path = table.states[q].path
    BY DEF PathsFollowParents
  <2>1. ASSUME NEW k \in HsmStates
        PROVE  LET s == table.states[k] IN
                 /\ s.path \in Seq(Names)
                 /\ s.parent = 0 => Len(s.path) = 1
                 /\ s.parent # 0 =>
                      /\ table.states[s.parent].path \in Seq(Names)
                      /\ Len(table.states[s.parent].path) >= 1
                      /\ \E n \in Names :
                           s.path = Append(table.states[s.parent].path, n)
    <3>1. ASSUME NEW m \in HsmStates
          PROVE  table.states[m].path \in Seq(Names)
                 /\ table.states[m].parent \in 0 .. m - 1
      BY <1>2, StatesTyped
    <3>2. ASSUME NEW m \in HsmStates
          PROVE  LET s == table.states[m] IN
                   IF s.parent = 0 THEN \E n \in Names : s.path = <<n>>
                   ELSE \E n \in Names :
                          s.path = Append(table.states[s.parent].path, n)
      BY <1>2, StatesTyped DEF PathsInv
    <3>3. ASSUME NEW m \in HsmStates, table.states[m].parent # 0
          PROVE  table.states[m].parent \in HsmStates
      BY <1>2, <3>1, <3>3, StatesTyped
    <3>4. ASSUME NEW m \in HsmStates
          PROVE  Len(table.states[m].path) >= 1
      <4>1. CASE table.states[m].parent = 0
        <5>1. PICK n \in Names : table.states[m].path = <<n>>
          BY <3>2, <4>1
        <5> QED BY <5>1
      <4>2. CASE table.states[m].parent # 0
        <5>1. table.states[table.states[m].parent].path \in Seq(Names)
          BY <3>1, <3>3, <4>2
        <5>2. PICK n \in Names :
                table.states[m].path = Append(table.states[table.states[m].parent].path, n)
          BY <3>2, <4>2
        <5> DEFINE a == table.states[table.states[m].parent].path
        <5>3. a \in Seq(Names) /\ table.states[m].path = Append(a, n)
          BY <5>1, <5>2
        <5> HIDE DEF a
        <5>4. Len(table.states[m].path) = Len(a) + 1 /\ Len(a) \in Nat
          BY <5>3, PathLengths
        <5> QED BY <5>4
      <4> QED BY <4>1, <4>2
    <3>5. table.states[k].parent = 0 => Len(table.states[k].path) = 1
      <4> SUFFICES ASSUME table.states[k].parent = 0
                   PROVE  Len(table.states[k].path) = 1
        OBVIOUS
      <4>1. PICK n \in Names : table.states[k].path = <<n>>
        BY <3>2
      <4> QED BY <4>1
    <3> QED BY <3>1, <3>2, <3>3, <3>4, <3>5
  <2>2. CASE table.states[i].parent = 0 \/ table.states[j].parent = 0
    <3>1. ASSUME NEW k \in HsmStates, table.states[k].parent # 0
          PROVE  Len(table.states[k].path) > 1
      <4> DEFINE a == table.states[table.states[k].parent].path
      <4>1. a \in Seq(Names) /\ Len(a) >= 1
        BY <2>1, <3>1
      <4>2. PICK n \in Names : table.states[k].path = Append(a, n)
        BY <2>1, <3>1
      <4> HIDE DEF a
      <4>3. Len(table.states[k].path) = Len(a) + 1 /\ Len(a) \in Nat
        BY <4>1, <4>2, PathLengths
      <4> QED BY <4>1, <4>3
    <3>2. ASSUME NEW k \in HsmStates, table.states[k].parent = 0
          PROVE  Len(table.states[k].path) = 1
      BY <2>1, <3>2
    <3>3. table.states[i].parent = 0 <=> table.states[j].parent = 0
      <4>1. CASE table.states[i].parent = 0 /\ table.states[j].parent # 0
        <5>1. Len(table.states[i].path) = 1 /\ Len(table.states[j].path) > 1
          BY <3>1, <3>2, <4>1
        <5> QED BY <5>1
      <4>2. CASE table.states[i].parent # 0 /\ table.states[j].parent = 0
        <5>1. Len(table.states[i].path) > 1 /\ Len(table.states[j].path) = 1
          BY <3>1, <3>2, <4>2
        <5> QED BY <5>1
      <4> QED BY <4>1, <4>2
    <3> QED BY <2>2, <3>3
  <2>3. CASE table.states[i].parent # 0 /\ table.states[j].parent # 0
    <3> DEFINE a == table.states[table.states[i].parent].path
               b == table.states[table.states[j].parent].path
    <3>1. a \in Seq(Names) /\ b \in Seq(Names)
      BY <2>1, <2>3
    <3>2. PICK m \in Names, n \in Names : Append(a, m) = Append(b, n)
      BY <2>1, <2>3
    <3> HIDE DEF a, b
    <3>3. a = b
      BY <3>1, <3>2, AppendIsOneToOne
    <3> QED BY <2>3, <3>3 DEF a, b
  <2> QED BY <2>2, <2>3
<1> QED BY <1>1, <1>2, InitInv, NextInv, PathsNext, PTL DEF HsmSpec

LEMMA TransitionsInvariant == HsmSpec => [](ParserInv /\ TransitionsInv)
BY InitInv, NextInv, TransitionsInit, TransitionsStep, PTL DEF HsmSpec

\* No line makes the tables outgrow their arrays or leaves an index outside them, in
\* files of any length (hsmgen.c:148, :302, :339, :396-410).
THEOREM ParserTypeSafe == HsmSpec => []HsmTypeOK
<1>1. ASSUME ParserInv, TransitionsInv PROVE HsmTypeOK
  <2>1. \A i \in HsmStates : table.states[i].parent \in 0 .. Len(table.states)
    <3> SUFFICES ASSUME NEW i \in HsmStates
                 PROVE  table.states[i].parent \in 0 .. Len(table.states)
      OBVIOUS
    <3>1. /\ table.states[i].parent \in 0 .. i - 1 /\ i \in 1 .. Len(table.states)
          /\ Len(table.states) \in Nat
      BY <1>1, StatesTyped
    <3> QED BY <3>1
  <2>2. \A j \in DOMAIN table.transitions :
          {table.transitions[j].sourceIndex, table.transitions[j].targetIndex}
            \subseteq 0 .. Len(table.states)
    <3>1. DOMAIN table.transitions = 1 .. Len(table.transitions)
      BY <1>1 DEF TransitionsInv
    <3> QED BY <1>1, <3>1 DEF TransitionsInv, Indices
  <2>3. /\ phase \in {"reading", "resolved", "refused"} /\ lines \in 0 .. MaxLines
        /\ oneLine \in 0 .. MaxOneLine
        /\ Len(table.states) <= MaxStates /\ Len(table.stack) <= MaxDepth
        /\ Len(table.transitions) <= MaxTransitions
    BY <1>1 DEF TransitionsInv
  <2>4. Len(written) = Len(table.states)
    BY <1>1 DEF ParserInv
  <2> QED BY <2>1, <2>2, <2>3, <2>4 DEF HsmTypeOK
<1> QED BY <1>1, TransitionsInvariant, PTL

\* In a file within the limits, without states on one line, whose states have different
\* paths, the table has the transitions the file has and the last pass finds for each
\* the state it is written in (hsmgen.c:147-256, :396-404).
THEOREM SourcesAreKept == HsmSpec => []TransitionsKeepTheirSource
<1>1. ASSUME ParserInv, TransitionsInv PROVE TransitionsKeepTheirSource
  <2> SUFFICES ASSUME Parsed
               PROVE  /\ Len(table.transitions) = Len(arrows)
                      /\ \A j \in DOMAIN arrows :
                           table.transitions[j].sourceIndex = arrows[j].source
    BY DEF TransitionsKeepTheirSource
  <2>1. /\ Len(table.transitions) = Len(arrows)
        /\ DOMAIN arrows = 1 .. Len(arrows)
        /\ \A j \in 1 .. Len(arrows) :
             /\ arrows[j].source \in HsmStates
             /\ table.transitions[j].source = table.states[arrows[j].source].path
             /\ table.transitions[j].sourceIndex
                  = FindState(table, table.transitions[j].source)
    <3>1. HsmStates = 1 .. Len(table.states)
      BY <1>1, StatesTyped
    <3>2. oneLine = 0 /\ deepest <= MaxDepth /\ Len(arrows) <= MaxTransitions
      BY DEF Parsed, WithinDepth, OwnLines
    <3>3. /\ Len(table.transitions) = Len(arrows)
          /\ DOMAIN arrows = 1 .. Len(arrows)
      BY <1>1, <3>2 DEF TransitionsInv, Sources
    <3>4. \A j \in 1 .. Len(arrows) :
            /\ arrows[j].source \in 1 .. Len(table.states)
            /\ table.transitions[j].source = table.states[arrows[j].source].path
      BY <1>1, <3>2 DEF TransitionsInv, Sources
    <3>5. \A j \in 1 .. Len(arrows) :
            table.transitions[j].sourceIndex
              = FindState(table, table.transitions[j].source)
      BY <1>1, <3>3 DEF TransitionsInv, Parsed
    <3> QED BY <3>1, <3>3, <3>4, <3>5
  <2>2. \A i \in HsmStates : FindState(table, table.states[i].path) = i
    BY <1>1, TheStateFound DEF Parsed
  <2> QED BY <2>1, <2>2
<1> QED BY <1>1, TransitionsInvariant, PTL

-----------------------------------------------------------------------------
(* Where transitions lead: what a target is looked up to be at its line,   *)
(* and the index the last pass makes of it.                                *)

\* The target a parsed transition has, when the file has written a so far: as it is
\* written unless it is a bare name; of a bare name the path of a child of the source
\* or else of a sibling, if one of the states declared before has that path.
LookedUp(states, a, target) ==
  LET child   == states[a.source].path \o a.target
      parent  == states[a.source].parent
      sibling == states[parent].path \o a.target
      Declared(path) == \E i \in 1 .. a.declared : states[i].path = path
  IN  /\ a.source \in 1 .. a.declared /\ a.declared <= Len(states)
      /\ ~IsOneName(a) => target = a.target
      /\ IsOneName(a) /\ Declared(child) => target = child
      /\ IsOneName(a) /\ ~Declared(child) /\ parent # 0 /\ Declared(sibling) =>
           target = sibling

TargetsInv ==
  /\ oneLine = 0 /\ deepest <= MaxDepth /\ Len(arrows) <= MaxTransitions =>
       \A j \in 1 .. Len(arrows) :
         LookedUp(table.states, arrows[j], table.transitions[j].target)
  /\ phase = "resolved" =>
       \A j \in 1 .. Len(table.transitions) :
         table.transitions[j].targetIndex
           = TargetIndex(table, table.transitions[j].target)

\* The states of a table stay at their places, with their paths and parents.
KeepsStates(old, new) ==
  /\ Len(old) \in Nat /\ Len(new) \in Nat /\ Len(old) <= Len(new)
  /\ \A i \in 1 .. Len(old) :
       /\ new[i].path = old[i].path /\ new[i].parent = old[i].parent
       /\ old[i].parent \in 0 .. Len(old)

\* States declared later do not change what a target was looked up to be.
LEMMA LookedUpStays ==
  ASSUME NEW old, NEW new, KeepsStates(old, new),
         NEW a, a.source \in Nat, a.declared \in Nat,
         NEW target, LookedUp(old, a, target)
  PROVE  LookedUp(new, a, target)
<1> DEFINE parent == old[a.source].parent
<1>1. /\ a.source \in 1 .. a.declared /\ a.declared <= Len(old)
      /\ a.source \in 1 .. Len(old) /\ a.declared <= Len(new)
  BY DEF LookedUp, KeepsStates
<1>2. /\ new[a.source].path = old[a.source].path
      /\ new[a.source].parent = parent
      /\ parent # 0 => new[parent].path = old[parent].path
  BY <1>1 DEF KeepsStates
<1>3. \A i \in 1 .. a.declared : new[i].path = old[i].path
  BY <1>1 DEF KeepsStates
<1> QED BY <1>1, <1>2, <1>3 DEF LookedUp

LEMMA StatesKept ==
  ASSUME ParserInv, [HsmNext]_hsmVars
  PROVE  KeepsStates(table.states, table'.states)
<1>1. /\ Len(table.states) \in Nat
      /\ \A i \in 1 .. Len(table.states) : table.states[i].parent \in 0 .. Len(table.states)
  <2>1. /\ Len(table.states) \in Nat
        /\ \A i \in 1 .. Len(table.states) : table.states[i].parent \in 0 .. i - 1
    BY StatesTyped
  <2> QED BY <2>1
<1>2. CASE SameTree(table', table)
  BY <1>1, <1>2 DEF SameTree, KeepsStates
<1>3. CASE table'.states = table.states
  BY <1>1, <1>3 DEF KeepsStates
<1>4. ASSUME NEW name \in Names, GrownTree(table', table, name)
      PROVE  KeepsStates(table.states, table'.states)
  BY <1>1, <1>4 DEF GrownTree, KeepsStates
<1> QED BY <1>2, <1>3, <1>4, StepKinds

\* What a step does to the transitions: nothing, one more, or the last pass.
LEMMA TransitionSteps ==
  ASSUME ParserInv, TransitionsInv, [HsmNext]_hsmVars
  PROVE  /\ deepest \in Nat /\ deepest' \in Nat /\ deepest <= deepest'
         /\ oneLine \in Nat /\ oneLine' \in Nat /\ oneLine <= oneLine'
         /\ \/ /\ table'.transitions = table.transitions /\ arrows' = arrows
               /\ phase' = "resolved" => phase = "resolved" /\ table' = table
            \/ /\ table'.transitions = table.transitions
               /\ ~OwnLines' /\ phase' # "resolved"
            \/ \E e \in Events, p \in Targets \ {<<>>} : TransitionLine(e, p)
            \/ EndOfFile
<1>0. /\ IsTable(table) /\ deepest \in Nat /\ oneLine \in Nat
      /\ ~(phase = "reading" /\ table.failed)
  BY DEF ParserInv, TableInv, Reading
<1>1. ASSUME NEW name \in Names, StateLine(name)
      PROVE  /\ table'.transitions = table.transitions /\ arrows' = arrows
             /\ phase' # "resolved" /\ deepest' \in Nat /\ deepest <= deepest'
             /\ oneLine' = oneLine
  <2>1. /\ table' = AddState(table, name) /\ arrows' = arrows
        /\ phase' # "resolved" /\ oneLine' = oneLine
    BY <1>1 DEF StateLine, AddsState, NextLine
  <2>2. table'.transitions = table.transitions
    BY <1>0, <2>1 DEF AddState, IsTable
  <2>3. deepest' = deepest \/ (Len(blocks) + 1 > deepest /\ deepest' = Len(blocks) + 1)
    BY <1>1 DEF StateLine, AddsState
  <2>4. Len(blocks) \in Nat
    BY DEF ParserInv
  <2> QED BY <1>0, <2>1, <2>2, <2>3, <2>4
<1>7. ASSUME NEW name \in Names, NEW p \in OnLine, StateOnLine(name, p)
      PROVE  /\ table'.transitions = table.transitions
             /\ ~OwnLines' /\ phase' # "resolved" /\ deepest' \in Nat
             /\ deepest <= deepest' /\ oneLine' \in Nat /\ oneLine <= oneLine'
  <2>1. /\ ~OwnLines' /\ phase' # "resolved" /\ oneLine' = oneLine + 1
        /\ deepest' = deepest \/ (Len(blocks) + 1 > deepest /\ deepest' = Len(blocks) + 1)
    BY <1>0, <1>7 DEF StateOnLine, AddsState, NextLine, OwnLines
  <2>2. Len(blocks) \in Nat
    BY DEF ParserInv
  <2>3. table'.transitions = table.transitions
    BY <1>0, <1>7 DEF StateOnLine, AddsState, AddState, IsTable
  <2> QED BY <1>0, <2>1, <2>2, <2>3
<1>2. CASE CloseStateLine
  BY <1>0, <1>2 DEF CloseStateLine, NextLine, CloseBlock, IsTable
<1>3. ASSUME NEW e \in Events, NEW p \in Targets, TransitionLine(e, p)
      PROVE  /\ phase' # "resolved" /\ deepest' = deepest /\ oneLine' = oneLine
             /\ p = <<>> => table'.transitions = table.transitions /\ arrows' = arrows
  <2>1. phase' # "resolved" /\ deepest' = deepest /\ oneLine' = oneLine
    BY <1>3 DEF TransitionLine, NextLine
  <2>2. ASSUME p = <<>>
        PROVE  table'.transitions = table.transitions /\ arrows' = arrows
    BY <1>0, <1>3, <2>2 DEF TransitionLine, AddTransition, IsTable
  <2> QED BY <2>1, <2>2
<1>4. ASSUME NEW k \in Attributes, AttributeLine(k)
      PROVE  /\ table'.transitions = table.transitions /\ arrows' = arrows
             /\ phase' # "resolved" /\ deepest' = deepest /\ oneLine' = oneLine
  BY <1>0, <1>4, AttributeTransitions DEF AttributeLine, NextLine
<1>5. EndOfFile => deepest' = deepest /\ oneLine' = oneLine
  BY DEF EndOfFile
<1>6. CASE UNCHANGED hsmVars
  BY <1>0, <1>6 DEF hsmVars
<1> QED BY <1>0, <1>1, <1>2, <1>3, <1>4, <1>5, <1>6, <1>7 DEF HsmNext

\* Qualify looks among the states the file has declared before the line.
LEMMA QualifyFinds ==
  ASSUME NEW t, t.states \in Seq(StateRecord), NEW source \in 1 .. Len(t.states),
         NEW p \in Seq(STRING), p # <<>>,
         NEW a, a.source = source, a.target = p, a.declared = Len(t.states)
  PROVE  LookedUp(t.states, a, Qualify(t, source, p))
<1> DEFINE parent  == t.states[source].parent
           child   == t.states[source].path \o p
           sibling == t.states[parent].path \o p
           Declared(path) == \E i \in 1 .. Len(t.states) : t.states[i].path = path
           bare == Len(p) = 1 /\ p # <<"history">>
           found == Qualify(t, source, p)
<1>0. Len(t.states) \in Nat /\ Len(p) \in Nat /\ Len(p) # 0
  OBVIOUS
<1>1. \A path : FindState(t, path) # 0 <=> Declared(path)
  <2> TAKE path
  <2>1. LET i == FindState(t, path)
        IN  /\ i \in 0 .. Len(t.states)
            /\ i # 0 => t.states[i].path = path
            /\ i = 0 => \A k \in 1 .. Len(t.states) : t.states[k].path # path
    BY FindStateFinds
  <2> QED BY <1>0, <2>1
<1>2. bare <=> ~(Len(p) > 1 \/ p = <<"history">>)
  <2> DEFINE n == Len(p)
             h == p = <<"history">>
  <2>1. n \in Nat /\ n # 0
    BY <1>0
  <2> HIDE DEF n, h
  <2>2. n = 1 /\ ~h <=> ~(n > 1 \/ h)
    BY <2>1
  <2> QED BY <2>2 DEF n, h
<1>3. /\ ~bare => found = p
      /\ bare /\ FindState(t, child) # 0 => found = child
      /\ bare /\ FindState(t, child) = 0 /\ parent # 0 /\ FindState(t, sibling) # 0 =>
           found = sibling
  BY <1>2 DEF Qualify
<1> HIDE DEF found, child, sibling, parent
<1>4. /\ ~bare => found = p
      /\ bare /\ Declared(child) => found = child
      /\ bare /\ ~Declared(child) /\ parent # 0 /\ Declared(sibling) => found = sibling
  BY <1>1, <1>3
<1>5. /\ a.source \in 1 .. a.declared /\ a.declared <= Len(t.states)
      /\ IsOneName(a) <=> bare
  BY <1>0 DEF IsOneName
<1>6. /\ t.states[a.source].parent = parent
      /\ t.states[a.source].path \o a.target = child
      /\ t.states[parent].path \o a.target = sibling
      /\ \A path : Declared(path) <=> \E i \in 1 .. a.declared : t.states[i].path = path
  BY DEF child, sibling, parent
<1> HIDE DEF bare, Declared
<1> SUFFICES LookedUp(t.states, a, found)
  BY DEF found
<1> QED BY <1>4, <1>5, <1>6 DEF LookedUp

\* The arrows' types.
LEMMA ArrowTypes ==
  ASSUME TransitionsInv
  PROVE  /\ Len(arrows) \in Nat /\ DOMAIN arrows = 1 .. Len(arrows)
         /\ \A j \in 1 .. Len(arrows) : /\ arrows[j].source \in Nat
                                        /\ arrows[j].declared \in Nat
                                        /\ arrows[j].target \in Seq(STRING)
<1> DEFINE Arrow == [source: Nat, target: Targets, declared: Nat]
<1>1. arrows \in Seq(Arrow)
  BY DEF TransitionsInv
<1> HIDE DEF Arrow
<1>2. /\ Len(arrows) \in Nat /\ DOMAIN arrows = 1 .. Len(arrows)
      /\ \A j \in 1 .. Len(arrows) : arrows[j] \in Arrow
  BY <1>1
<1> QED BY <1>2, ParserAssumption DEF Arrow

\* on Event -> Target: the new transition's target is what Qualify makes of it now.
LEMMA TargetAdded ==
  ASSUME ParserInv, TransitionsInv, TargetsInv,
         NEW e \in Events, NEW p \in Targets, p # <<>>, TransitionLine(e, p)
  PROVE  TargetsInv'
<1> DEFINE line == [event |-> e, target |-> p,
                    guard |-> NoCallback, action |-> NoCallback]
           arrow == [source |-> Around, target |-> p, declared |-> Len(table.states)]
           n == Len(arrows)
<1>1. /\ table' = AddTransition(table, line) /\ phase' # "resolved" /\ blocks # <<>>
      /\ deepest' = deepest /\ oneLine' = oneLine /\ arrows' = Append(arrows, arrow)
  BY DEF TransitionLine, NextLine
<1>2. arrow.source = Around /\ arrow.target = p /\ arrow.declared = Len(table.states)
  OBVIOUS
<1> HIDE DEF arrow
<1>3. /\ n \in Nat /\ Len(arrows') = n + 1 /\ arrows'[n + 1] = arrow
      /\ \A j \in 1 .. n : arrows'[j] = arrows[j]
  BY <1>1 DEF TransitionsInv
<1> SUFFICES ASSUME oneLine = 0 /\ deepest <= MaxDepth, n + 1 <= MaxTransitions,
                    NEW j \in 1 .. (n + 1)
             PROVE  LookedUp(table'.states, arrows'[j], table'.transitions[j].target)
  BY <1>1, <1>3 DEF TargetsInv
<1>4. /\ table.stack = blocks /\ n <= MaxTransitions /\ Len(table.transitions) = n
      /\ Len(table.transitions) < MaxTransitions
  <2>1. table.stack = blocks
    BY DEF ParserInv, ParentIsEnclosingBlock, WithinDepth, OwnLines
  <2>2. n <= MaxTransitions
    BY <1>3, LimitsAssumption
  <2>3. Len(table.transitions) = n
    BY <2>2 DEF TransitionsInv, Sources
  <2> QED BY <1>3, <2>1, <2>2, <2>3, LimitsAssumption
<1>5. PICK r \in TransitionRecord :
        /\ table'.transitions = Append(table.transitions, r)
        /\ r.target = Qualify(table, OpenBlock(table), p)
  BY <1>1, <1>4, TransitionAdded DEF TransitionsInv
<1>6. /\ \A k \in 1 .. n : table'.transitions[k] = table.transitions[k]
      /\ table'.transitions[n + 1] = r
  BY <1>4, <1>5 DEF TransitionsInv
<1>7. /\ KeepsStates(table.states, table'.states)
      /\ table.states \in Seq(StateRecord)
      /\ Around = OpenBlock(table) /\ OpenBlock(table) \in 1 .. Len(table.states)
  <2>1. KeepsStates(table.states, table'.states)
    <3>1. HsmNext
      BY DEF HsmNext
    <3> QED BY <3>1, StatesKept
  <2>2. table.states \in Seq(StateRecord)
    BY DEF ParserInv, TableInv, Linked
  <2>3. OpenBlock(table) \in 1 .. Len(table.states)
    BY <1>1, <1>4, TopIsState DEF ParserInv
  <2> QED BY <1>4, <2>1, <2>2, <2>3 DEF Around, OpenBlock
<1>8. CASE j \in 1 .. n
  <2>1. LookedUp(table.states, arrows[j], table.transitions[j].target)
    BY <1>4, <1>8 DEF TargetsInv
  <2>2. arrows[j].source \in Nat /\ arrows[j].declared \in Nat
    BY <1>8, ArrowTypes
  <2> QED BY <1>3, <1>6, <1>7, <1>8, <2>1, <2>2, LookedUpStays
<1>9. CASE j = n + 1
  <2>1. p \in Seq(STRING)
    BY ParserAssumption
  <2>2. LookedUp(table.states, arrow, r.target)
    BY <1>2, <1>5, <1>7, <2>1, QualifyFinds
  <2>3. arrow.source \in Nat /\ arrow.declared \in Nat
    BY <1>2, <1>7 DEF KeepsStates
  <2>4. LookedUp(table'.states, arrow, r.target)
    BY <1>7, <2>2, <2>3, LookedUpStays
  <2> QED BY <1>3, <1>6, <1>9, <2>4
<1> QED BY <1>3, <1>8, <1>9

\* After the last line each index of a target is what its path leads to.
LEMMA TargetsIndexed ==
  ASSUME ParserInv, TransitionsInv, TargetsInv, EndOfFile
  PROVE  TargetsInv'
<1> DEFINE m == Len(table.transitions)
           new(j) == [table.transitions[j] EXCEPT
                        !.sourceIndex = FindState(table, table.transitions[j].source),
                        !.targetIndex = TargetIndex(table, table.transitions[j].target)]
<1>1. /\ IsTable(table) /\ table' = ResolveTransitions(table)
      /\ arrows' = arrows /\ deepest' = deepest /\ oneLine' = oneLine
  BY DEF EndOfFile, ParserInv, TableInv
<1>2. /\ table'.states = table.states
      /\ table'.transitions = [j \in DOMAIN table.transitions |-> new(j)]
  BY <1>1 DEF ResolveTransitions, IsTable
<1>3. m \in Nat /\ DOMAIN table.transitions = 1 .. m
      /\ \A j \in 1 .. m : table.transitions[j] \in TransitionRecord
  BY DEF TransitionsInv
<1>4. ASSUME NEW j \in 1 .. m
      PROVE  /\ new(j).target = table.transitions[j].target
             /\ new(j).targetIndex = TargetIndex(table, table.transitions[j].target)
  <2> DEFINE a == FindState(table, table.transitions[j].source)
             b == TargetIndex(table, table.transitions[j].target)
             tr == table.transitions[j]
  <2>1. tr \in TransitionRecord
    BY <1>3
  <2>2. new(j) = [tr EXCEPT !.sourceIndex = a, !.targetIndex = b]
    OBVIOUS
  <2> HIDE DEF a, b, tr, new
  <2>3. new(j).target = tr.target /\ new(j).targetIndex = b
    BY <2>1, <2>2 DEF TransitionRecord
  <2> QED BY <2>3 DEF b, tr
<1> HIDE DEF new
<1>5. /\ DOMAIN table'.transitions = 1 .. m /\ Len(table'.transitions) = m
      /\ \A j \in 1 .. m : table'.transitions[j] = new(j)
  BY <1>2, <1>3
<1>6. \A target : TargetIndex(table', target) = TargetIndex(table, target)
  BY <1>2 DEF TargetIndex, FindState
<1>7. oneLine = 0 /\ deepest <= MaxDepth /\ Len(arrows) <= MaxTransitions => Len(arrows) = m
  BY DEF TransitionsInv, Sources
<1> QED BY <1>1, <1>2, <1>4, <1>5, <1>6, <1>7 DEF TargetsInv

LEMMA TargetsStep == ParserInv /\ TransitionsInv /\ TargetsInv /\ [HsmNext]_hsmVars => TargetsInv'
<1> SUFFICES ASSUME ParserInv, TransitionsInv, TargetsInv, [HsmNext]_hsmVars
             PROVE  TargetsInv'
  OBVIOUS
<1>1. CASE EndOfFile
  BY <1>1, TargetsIndexed
<1>2. ASSUME NEW e \in Events, NEW p \in Targets \ {<<>>}, TransitionLine(e, p)
      PROVE  TargetsInv'
  BY <1>2, TargetAdded
<1>3. CASE /\ table'.transitions = table.transitions /\ arrows' = arrows
           /\ phase' = "resolved" => phase = "resolved" /\ table' = table
  <2>1. /\ deepest \in Nat /\ deepest' \in Nat /\ deepest <= deepest'
        /\ oneLine \in Nat /\ oneLine' \in Nat /\ oneLine <= oneLine'
    BY TransitionSteps
  <2>2. KeepsStates(table.states, table'.states)
    BY StatesKept
  <2>3. ASSUME oneLine' = 0 /\ deepest' <= MaxDepth, Len(arrows) <= MaxTransitions,
               NEW j \in 1 .. Len(arrows)
        PROVE  LookedUp(table'.states, arrows[j], table.transitions[j].target)
    <3>1. oneLine = 0 /\ deepest <= MaxDepth
      BY <2>1, <2>3, LimitsAssumption
    <3>2. LookedUp(table.states, arrows[j], table.transitions[j].target)
      BY <2>3, <3>1 DEF TargetsInv
    <3> QED BY <2>2, <3>2, ArrowTypes, LookedUpStays
  <2>4. phase' = "resolved" =>
          \A j \in 1 .. Len(table'.transitions) :
            table'.transitions[j].targetIndex
              = TargetIndex(table', table'.transitions[j].target)
    BY <1>3 DEF TargetsInv
  <2> QED BY <1>3, <2>3, <2>4 DEF TargetsInv
<1>4. CASE /\ table'.transitions = table.transitions
           /\ ~OwnLines' /\ phase' # "resolved"
  BY <1>4 DEF TargetsInv, OwnLines
<1> QED BY <1>1, <1>2, <1>3, <1>4, TransitionSteps

\* A path with one name more.
LEMMA PathAndName ==
  ASSUME NEW S, NEW path \in Seq(S), NEW x \in S
  PROVE  /\ path \o <<x>> = Append(path, x) /\ Len(Append(path, x)) = Len(path) + 1
         /\ Last(Append(path, x)) = x /\ Len(path) \in Nat
BY DEF Last

\* The paths of states have a name each, of its own, after their parents'.
LEMMA PathShapes ==
  ASSUME ParserInv, PathsInv, NEW i \in HsmStates
  PROVE  LET s == table.states[i]
             parent == table.states[s.parent]
         IN  /\ s.path \in Seq(Names) /\ Len(s.path) >= 1
             /\ s.parent = 0 => Len(s.path) = 1
             /\ s.parent # 0 =>
                  /\ s.parent \in HsmStates /\ parent.path \in Seq(Names)
                  /\ \E n \in Names : s.path = Append(parent.path, n)
<1> DEFINE s == table.states[i]
           a == table.states[s.parent].path
<1>1. /\ s.path \in Seq(Names)
      /\ s.parent # 0 => s.parent \in HsmStates /\ a \in Seq(Names)
  <2>1. /\ s.parent \in 0 .. i - 1 /\ i \in 1 .. Len(table.states)
        /\ Len(table.states) \in Nat /\ HsmStates = 1 .. Len(table.states)
    BY StatesTyped
  <2>2. s.parent # 0 => s.parent \in HsmStates
    BY <2>1
  <2> QED BY <2>2, StatesTyped
<1>2. IF s.parent = 0 THEN \E n \in Names : s.path = <<n>>
      ELSE \E n \in Names : s.path = Append(a, n)
  BY StatesTyped DEF PathsInv
<1>3. CASE s.parent = 0
  <2>1. PICK n \in Names : s.path = <<n>>
    BY <1>2, <1>3
  <2>2. Len(s.path) = 1
    BY <2>1
  <2> QED BY <1>1, <1>3, <2>2
<1>4. CASE s.parent # 0
  <2>1. PICK n \in Names : s.path = Append(a, n)
    BY <1>2, <1>4
  <2>2. a \in Seq(Names) /\ s.parent \in HsmStates
    BY <1>1, <1>4
  <2>3. Len(s.path) >= 1
    <3> DEFINE path == s.path
    <3> HIDE DEF a
    <3>1. Len(Append(a, n)) = Len(a) + 1 /\ Len(a) \in Nat
      BY <2>2, PathLengths
    <3> QED BY <2>1, <3>1
  <2> QED BY <1>1, <1>4, <2>1, <2>2, <2>3
<1> QED BY <1>3, <1>4

\* The path of p and one name more.
ChildPath(p, x) == table.states[p].path \o <<x>>

\* A state's path is its parent's and its name, and a state with the path of another and
\* one name more is a child of that one.
LEMMA ChildPaths ==
  ASSUME ParserInv, PathsInv, UniquePaths, NEW p \in HsmStates, NEW i \in HsmStates, NEW x
  PROVE  table.states[i].path = ChildPath(p, x) <=>
           table.states[i].parent = p /\ Last(table.states[i].path) = x
<1> DEFINE a == table.states[i].path
           b == table.states[p].path
           q == table.states[i].parent
           c == table.states[q].path
           S == Names \union {x}
<1>1. /\ a \in Seq(Names) /\ b \in Seq(Names) /\ Len(b) >= 1 /\ p # 0
      /\ q = 0 => Len(a) = 1
      /\ q # 0 => q \in HsmStates /\ c \in Seq(Names) /\ \E n \in Names : a = Append(c, n)
  <2>1. p # 0
    BY StatesTyped
  <2> QED BY <2>1, PathShapes
<1>2. q # 0 /\ c = b => q = p
  BY <1>1 DEF UniquePaths
<1>3. q = p => c = b
  OBVIOUS
<1> HIDE DEF a, b, c, q
<1>4. b \in Seq(S) /\ x \in S /\ (q # 0 => c \in Seq(S)) /\ \A n \in Names : n \in S
  <2>1. \A path \in Seq(Names) : path \in Seq(S)
    OBVIOUS
  <2> QED BY <1>1, <2>1
<1> HIDE DEF S
<1>5. ASSUME a = b \o <<x>> PROVE q = p /\ Last(a) = x
  <2>1. a = Append(b, x) /\ Last(a) = x /\ Len(a) = Len(b) + 1 /\ Len(b) \in Nat
    <3>1. /\ b \o <<x>> = Append(b, x) /\ Len(Append(b, x)) = Len(b) + 1
          /\ Last(Append(b, x)) = x /\ Len(b) \in Nat
      BY <1>4, PathAndName
    <3> QED BY <1>5, <3>1
  <2>2. q # 0
    BY <1>1, <2>1
  <2>3. PICK n \in Names : a = Append(c, n)
    BY <1>1, <2>2
  <2>4. x \in Names
    <3>1. a \in Seq(Names) /\ Len(a) \in 1 .. Len(a) /\ a[Len(a)] = x
      BY <1>1, <2>1 DEF Last
    <3> QED BY <3>1
  <2>5. c \in Seq(Names) /\ b \in Seq(Names) /\ Append(c, n) = Append(b, x)
    BY <1>1, <2>1, <2>2, <2>3
  <2>6. c = b
    BY <2>4, <2>5, AppendIsOneToOne
  <2> QED BY <1>2, <2>1, <2>2, <2>6
<1>6. ASSUME q = p, Last(a) = x PROVE a = b \o <<x>>
  <2>1. PICK n \in Names : a = Append(b, n)
    BY <1>1, <1>3, <1>6
  <2>2. n = x
    <3>1. Last(Append(b, n)) = n
      BY <1>4, PathAndName
    <3> QED BY <1>6, <2>1, <3>1
  <2> QED BY <1>4, <2>1, <2>2, PathAndName
<1> QED BY <1>5, <1>6 DEF a, b, q, ChildPath

\* The target of a transition and the state its index leads to, after the last line.
LEMMA ResolvedTarget ==
  ASSUME ParserInv, TransitionsInv, TargetsInv, Parsed, NEW j \in DOMAIN arrows
  PROVE  /\ LookedUp(table.states, arrows[j], table.transitions[j].target)
         /\ table.transitions[j].targetIndex
              = TargetIndex(table, table.transitions[j].target)
<1>1. j \in 1 .. Len(arrows) /\ Len(table.transitions) = Len(arrows)
  BY ArrowTypes DEF Parsed, WithinDepth, OwnLines, TransitionsInv, Sources
<1> QED BY <1>1 DEF TargetsInv, Parsed, WithinDepth, OwnLines

\* What strstr finds in a target that names `history' last and nowhere else.
LEMMA PlainHistory ==
  ASSUME NEW p \in Seq(STRING), PlainTarget(p)
  PROVE  /\ IsHistory(p) <=> NamesHistory(p)
         /\ NamesHistory(p) => Composite(p) = Front(p)
<1>1. Len(p) \in Nat /\ DOMAIN p = 1 .. Len(p) /\ "history" \in HistoryNames
  BY LimitsAssumption
<1>2. ASSUME NEW k \in HistoryAt(p)
      PROVE  k = Len(p) /\ p[k] = "history" /\ Len(p) > 1
  <2>1. k \in 2 .. Len(p) /\ p[k] \in HistoryNames
    BY DEF HistoryAt
  <2>2. k \in DOMAIN p
    BY <1>1, <2>1
  <2>3. k = Len(p) /\ p[k] = "history"
    BY <2>1, <2>2 DEF PlainTarget
  <2> QED BY <1>1, <2>1, <2>3
<1>3. CASE NamesHistory(p)
  <2>1. HistoryAt(p) = {Len(p)}
    <3>1. Len(p) \in 2 .. Len(p) /\ p[Len(p)] = "history"
      BY <1>1, <1>3 DEF NamesHistory, Last
    <3> QED BY <1>1, <1>2, <3>1 DEF HistoryAt
  <2>2. Min(HistoryAt(p)) = Len(p)
    BY <1>1, <2>1, MinOfNumbers
  <2> QED BY <1>3, <2>1, <2>2 DEF IsHistory, Composite, Front
<1>4. CASE ~NamesHistory(p)
  BY <1>2, <1>4 DEF NamesHistory, Last, IsHistory
<1> QED BY <1>3, <1>4

\* The path of a state is not taken for a history.
LEMMA PlainIsNoHistory ==
  ASSUME NEW path, path \in Seq(Names), PlainPath(path)
  PROVE  ~IsHistory(path)
BY DEF PlainPath, IsHistory, HistoryAt

LEMMA DottedResolve ==
  ASSUME ParserInv, TransitionsInv, TargetsInv PROVE DottedTargetsResolve
<1> SUFFICES ASSUME Parsed, PlainNames, NEW j \in DOMAIN arrows,
                    Len(arrows[j].target) > 1, NEW i \in HsmStates,
                    table.states[i].path = IF NamesHistory(arrows[j].target)
                                           THEN Front(arrows[j].target)
                                           ELSE arrows[j].target
             PROVE  table.transitions[j].targetIndex = i
  BY DEF DottedTargetsResolve
<1>1. /\ LookedUp(table.states, arrows[j], table.transitions[j].target)
      /\ table.transitions[j].targetIndex = TargetIndex(table, table.transitions[j].target)
  BY ResolvedTarget
<1>2. ~IsOneName(arrows[j])
  <2> DEFINE n == Len(arrows[j].target)
  <2>1. n > 1 /\ (IsOneName(arrows[j]) => n = 1)
    BY DEF IsOneName
  <2> HIDE DEF n
  <2> QED BY <2>1
<1>3. table.transitions[j].target = arrows[j].target
  BY <1>1, <1>2 DEF LookedUp
<1>4. table.transitions[j].targetIndex = FindState(table, table.states[i].path)
  <2> DEFINE p == arrows[j].target
  <2>1. p \in Seq(STRING) /\ PlainTarget(p)
    BY ArrowTypes DEF PlainNames
  <2>2. /\ IsHistory(p) <=> NamesHistory(p)
        /\ NamesHistory(p) => Composite(p) = Front(p)
    BY <2>1, PlainHistory
  <2> QED BY <1>1, <1>3, <2>2 DEF TargetIndex
<1> QED BY <1>4, TheStateFound DEF Parsed

\* A bare name is that of a state among the first a.declared in the block p just when one
\* of them has p's path and that name.
LEMMA NamedIsDeclared ==
  ASSUME ParserInv, PathsInv, Parsed, NEW p \in HsmStates, NEW x,
         NEW n \in Nat, n <= Len(table.states), NEW i \in 1 .. n
  PROVE  table.states[i].path = ChildPath(p, x) <=>
           written[i] = p /\ Last(table.states[i].path) = x
<1>1. i \in HsmStates
  <2>1. Len(table.states) \in Nat /\ HsmStates = 1 .. Len(table.states)
    BY StatesTyped
  <2> QED BY <2>1
<1>2. table.states[i].parent = written[i]
  BY <1>1 DEF Parsed, ParserInv, ParentIsEnclosingBlock
<1>3. table.states[i].path = ChildPath(p, x) <=>
        table.states[i].parent = p /\ Last(table.states[i].path) = x
  <2>1. UniquePaths
    BY DEF Parsed
  <2> QED BY <1>1, <2>1, ChildPaths
<1> QED BY <1>2, <1>3

LEMMA EarlierResolve ==
  ASSUME ParserInv, PathsInv, TransitionsInv, TargetsInv PROVE EarlierTargetsResolve
<1> SUFFICES ASSUME Parsed, PlainNames, NEW j \in DOMAIN arrows, IsOneName(arrows[j]),
                    MeantBy(arrows[j], arrows[j].declared) # {}
             PROVE  table.transitions[j].targetIndex
                      \in MeantBy(arrows[j], arrows[j].declared)
  BY DEF EarlierTargetsResolve
<1> DEFINE a == arrows[j]
           n == a.declared
           x == a.target[1]
           p == a.source
           q == table.states[p].parent
           target == table.transitions[j].target
           Named(s) == {i \in 1 .. n : written[i] = s /\ Last(table.states[i].path) = x}
           Declared(path) == \E i \in 1 .. n : table.states[i].path = path
           child == ChildPath(p, x)
           sibling == ChildPath(q, x)
<1>1. /\ LookedUp(table.states, a, target)
      /\ table.transitions[j].targetIndex = TargetIndex(table, target)
  BY ResolvedTarget
<1>2. /\ p \in 1 .. n /\ n <= Len(table.states) /\ n \in Nat
      /\ p \in HsmStates /\ (q = 0 \/ q \in HsmStates) /\ q = written[p] /\ 0 \notin HsmStates
      /\ HsmStates = 1 .. Len(table.states) /\ Len(table.states) \in Nat
  <2>1. /\ p \in 1 .. n /\ n <= Len(table.states) /\ n \in Nat
    BY <1>1, ArrowTypes DEF LookedUp
  <2>2. HsmStates = 1 .. Len(table.states) /\ Len(table.states) \in Nat
    BY StatesTyped
  <2>3. p \in HsmStates
    BY <2>1, <2>2
  <2>4. q = 0 \/ q \in HsmStates
    BY <2>3, PathShapes
  <2>5. q = written[p]
    BY <2>3 DEF Parsed, ParserInv, ParentIsEnclosingBlock
  <2> QED BY <2>1, <2>2, <2>3, <2>4, <2>5
<1>3. a.target = <<x>> /\ x # "history"
  <2>1. a.target \in Seq(STRING) /\ Len(a.target) = 1
    BY ArrowTypes DEF IsOneName
  <2>2. a.target = <<x>>
    BY <2>1
  <2>3. a.target # <<"history">>
    BY DEF IsOneName
  <2> QED BY <2>2, <2>3
<1>4. /\ Declared(child) => target = child
      /\ ~Declared(child) /\ q # 0 /\ Declared(sibling) => target = sibling
  BY <1>1, <1>3 DEF LookedUp, ChildPath
<1>5. MeantBy(a, n) = IF Named(p) # {} THEN Named(p)
                    ELSE IF q # 0 THEN Named(q) ELSE {}
  BY <1>2 DEF MeantBy
<1>6. ASSUME NEW s \in HsmStates, NEW i \in 1 .. n
      PROVE  i \in Named(s) <=> table.states[i].path = ChildPath(s, x)
  <2> HIDE DEF n, x
  <2>1. table.states[i].path = ChildPath(s, x) <=>
          written[i] = s /\ Last(table.states[i].path) = x
    BY <1>2, NamedIsDeclared
  <2> QED BY <2>1
<1>7. ASSUME NEW s \in HsmStates, NEW i \in Named(s), target = ChildPath(s, x)
      PROVE  table.transitions[j].targetIndex = i
  <2>1. i \in HsmStates /\ i \in 1 .. n
    BY <1>2
  <2>2. target = table.states[i].path
    BY <1>6, <1>7, <2>1
  <2>3. ~IsHistory(target)
    BY <2>1, <2>2, StatesTyped, PlainIsNoHistory DEF PlainNames
  <2>4. TargetIndex(table, target) = FindState(table, table.states[i].path)
    BY <2>2, <2>3 DEF TargetIndex
  <2> QED BY <1>1, <2>1, <2>4, TheStateFound DEF Parsed
<1>8. CASE Named(p) # {}
  <2>1. PICK i \in Named(p) : TRUE
    BY <1>8
  <2>2. Declared(child)
    BY <1>2, <1>6, <2>1
  <2> HIDE DEF Declared, Named, child, target
  <2>3. target = child
    BY <1>4, <2>2
  <2>4. \A k \in Named(p) : table.transitions[j].targetIndex = k
    BY <1>2, <1>7, <2>3 DEF child
  <2> QED BY <1>5, <1>8, <2>1, <2>4
<1>9. CASE Named(p) = {}
  <2>1. q # 0 /\ Named(q) # {} /\ q \in HsmStates
    BY <1>2, <1>5, <1>9
  <2>2. PICK i \in Named(q) : TRUE
    BY <2>1
  <2>3. Declared(sibling)
    BY <1>6, <2>1, <2>2
  <2>4. ~Declared(child)
    BY <1>2, <1>6, <1>9
  <2> HIDE DEF Declared, Named, child, sibling, target, q
  <2>5. target = sibling
    BY <1>4, <2>1, <2>3, <2>4
  <2>6. \A k \in Named(q) : table.transitions[j].targetIndex = k
    BY <1>7, <2>1, <2>5 DEF sibling
  <2> QED BY <1>5, <1>9, <2>1, <2>2, <2>6
<1> QED BY <1>8, <1>9

LEMMA TargetsAlways == HsmSpec => [](ParserInv /\ PathsInv /\ TransitionsInv /\ TargetsInv)
<1>1. HsmInit => PathsInv
  BY DEF HsmInit, PathsInv, EmptyTable
<1>2. HsmInit => TargetsInv
  BY DEF HsmInit, TargetsInv, EmptyTable
<1> QED BY <1>1, <1>2, InitInv, NextInv, PathsNext, TransitionsInit, TransitionsStep,
           TargetsStep, PTL DEF HsmSpec

\* In a file within the limits, without states on one line, whose states have different
\* paths, a transition to a state that is declared leads there: a bare name among the
\* children, then the siblings, declared before it, a dotted path or a history target
\* wherever its state is declared.  The names of states must not begin with `history',
\* which strstr would take for a history target (hsmgen.c:207-243, :396-410).
THEOREM TargetsLead == HsmSpec => []TargetsResolve
<1>1. ParserInv /\ PathsInv /\ TransitionsInv /\ TargetsInv => TargetsResolve
  BY EarlierResolve, DottedResolve DEF TargetsResolve
<1> QED BY <1>1, TargetsAlways, PTL

-----------------------------------------------------------------------------
(* The tables of a whole file are a hierarchy, as HsmHierarchy assumes.    *)

Machine == INSTANCE HsmHierarchy
             WITH N <- Len(table.states), Parent <- ParentOf(table),
                  Cases <- DispatchCases(table), Initial <- InitialIndex(table)

\* What compiling the generated file takes: no label is in two cases of a switch.
OneCasePerLabel ==
  \A c, d \in DispatchCases(table) : c.source = d.source /\ c.event = d.event => c = d

\* Every transition has the path of a state as its source, also in a file nested
\* deeper than the parser's stack or with two states of one path.
OwnersInv ==
  \A j \in DOMAIN table.transitions :
    \E i \in 1 .. Len(table.states) :
      table.transitions[j].source = table.states[i].path

LEMMA OwnersStep ==
  ASSUME ParserInv, TransitionsInv, OwnersInv, [HsmNext]_hsmVars
  PROVE  OwnersInv'
<1>0. /\ KeepsStates(table.states, table'.states)
      /\ Len(table.transitions) \in Nat
      /\ DOMAIN table.transitions = 1 .. Len(table.transitions)
      /\ \A j \in 1 .. Len(table.transitions) : table.transitions[j] \in TransitionRecord
  BY StatesKept DEF TransitionsInv
<1>1. ASSUME NEW path, \E i \in 1 .. Len(table.states) : path = table.states[i].path
      PROVE  \E i \in 1 .. Len(table'.states) : path = table'.states[i].path
  BY <1>0, <1>1 DEF KeepsStates
<1>2. CASE table'.transitions = table.transitions
  BY <1>1, <1>2 DEF OwnersInv
<1>3. ASSUME NEW e \in Events, NEW p \in Targets \ {<<>>}, TransitionLine(e, p)
      PROVE  OwnersInv'
  <2> DEFINE line == [event |-> e, target |-> p,
                      guard |-> NoCallback, action |-> NoCallback]
  <2>1. table' = AddTransition(table, line)
    BY <1>3 DEF TransitionLine
  <2>2. CASE table.stack = <<>> \/ Len(table.transitions) >= MaxTransitions
    <3>1. table' = table
      BY <2>1, <2>2 DEF AddTransition
    <3> QED BY <1>2, <3>1
  <2>3. CASE table.stack # <<>> /\ Len(table.transitions) < MaxTransitions
    <3>1. PICK r \in TransitionRecord :
            /\ table'.transitions = Append(table.transitions, r)
            /\ r.source = table.states[OpenBlock(table)].path
      BY <2>1, <2>3, TransitionAdded DEF TransitionsInv
    <3>2. OpenBlock(table) \in 1 .. Len(table.states)
      BY <2>3, TopIsState DEF ParserInv
    <3> DEFINE m == Len(table.transitions)
    <3>3. /\ m \in Nat /\ DOMAIN table'.transitions = 1 .. m + 1
          /\ \A j \in 1 .. m : table'.transitions[j] = table.transitions[j]
          /\ table'.transitions[m + 1] = r
      BY <3>1 DEF TransitionsInv
    <3>4. ASSUME NEW j \in 1 .. m + 1
          PROVE  \E i \in 1 .. Len(table'.states) :
                   table'.transitions[j].source = table'.states[i].path
      <4>1. CASE j = m + 1
        BY <1>1, <3>1, <3>2, <3>3, <4>1
      <4>2. CASE j \in 1 .. m
        BY <1>0, <1>1, <3>3, <4>2 DEF OwnersInv
      <4> QED BY <3>3, <4>1, <4>2
    <3> QED BY <3>3, <3>4 DEF OwnersInv
  <2> QED BY <1>0, <2>2, <2>3, LimitsAssumption
<1>4. CASE EndOfFile
  <2>1. table' = ResolveTransitions(table) /\ IsTable(table)
    BY <1>4 DEF EndOfFile, ParserInv, TableInv
  <2>2. table'.transitions = [j \in DOMAIN table.transitions |->
          [table.transitions[j] EXCEPT
             !.sourceIndex = FindState(table, table.transitions[j].source),
             !.targetIndex = TargetIndex(table, table.transitions[j].target)]]
    BY <2>1 DEF ResolveTransitions, IsTable
  <2>3. DOMAIN table'.transitions = DOMAIN table.transitions
    BY <2>2
  <2>4. ASSUME NEW j \in DOMAIN table.transitions
        PROVE  table'.transitions[j].source = table.transitions[j].source
    BY <1>0, <2>2 DEF TransitionRecord
  <2> QED BY <1>1, <2>3, <2>4 DEF OwnersInv
<1> QED BY <1>2, <1>3, <1>4, TransitionSteps

\* One of the cases of dispatch.
LEMMA CaseTyped ==
  ASSUME ParserInv, TransitionsInv, OwnersInv, phase = "resolved",
         NEW c \in DispatchCases(table)
  PROVE  c \in Machine!Case
<1>1. PICK j \in 1 .. Len(table.transitions) :
        LET tr == table.transitions[j]
        IN  c = [source  |-> tr.sourceIndex,
                 event   |-> tr.event,
                 guard   |-> tr.guard # NoCallback,
                 action  |-> tr.action # NoCallback,
                 target  |-> tr.targetIndex,
                 history |-> IsHistory(tr.target)]
  <2>1. PICK tr \in ToSet(table.transitions) :
          c = [source  |-> tr.sourceIndex,
               event   |-> tr.event,
               guard   |-> tr.guard # NoCallback,
               action  |-> tr.action # NoCallback,
               target  |-> tr.targetIndex,
               history |-> IsHistory(tr.target)]
    BY DEF DispatchCases
  <2>2. DOMAIN table.transitions = 1 .. Len(table.transitions)
    BY DEF TransitionsInv
  <2>3. PICK j \in 1 .. Len(table.transitions) : tr = table.transitions[j]
    BY <2>2 DEF ToSet
  <2> QED BY <2>1, <2>3
<1> DEFINE tr == table.transitions[j]
<1>2. /\ tr \in TransitionRecord /\ Len(table.states) \in Nat
      /\ tr.sourceIndex \in 0 .. Len(table.states)
      /\ tr.targetIndex \in 0 .. Len(table.states)
      /\ tr.sourceIndex = FindState(table, tr.source)
  BY StatesTyped DEF TransitionsInv, Indices
<1>3. tr.sourceIndex # 0
  <2>1. table.states \in Seq(StateRecord)
    BY DEF ParserInv, TableInv, Linked
  <2>2. j \in DOMAIN table.transitions
    BY DEF TransitionsInv
  <2>3. \E i \in 1 .. Len(table.states) : tr.source = table.states[i].path
    BY <2>2 DEF OwnersInv
  <2> QED BY <1>2, <2>1, <2>3, FindStateFinds
<1>4. tr.event \in Events /\ IsHistory(tr.target) \in BOOLEAN
  BY <1>2 DEF TransitionRecord, IsHistory
<1> HIDE DEF tr
<1>5. /\ tr.sourceIndex \in 1 .. Len(table.states)
      /\ c = [source  |-> tr.sourceIndex,
              event   |-> tr.event,
              guard   |-> tr.guard # NoCallback,
              action  |-> tr.action # NoCallback,
              target  |-> tr.targetIndex,
              history |-> IsHistory(tr.target)]
  BY <1>1, <1>2, <1>3 DEF tr
<1> QED BY <1>2, <1>4, <1>5 DEF Machine!Case, Machine!State

\* Whatever the file, once it is accepted with a state in it and compiles, its
\* tables are all that HsmHierarchy assumes: what is proved of the generated
\* machine holds of the machine of every such file.
THEOREM FilesMakeHierarchies ==
  ASSUME Events # {}
  PROVE  HsmSpec => [](phase = "resolved" /\ HsmStates # {} /\ OneCasePerLabel =>
                      Machine!IsHierarchy)
<1>1. ASSUME ParserInv, TransitionsInv, OwnersInv, phase = "resolved", HsmStates # {},
             OneCasePerLabel
      PROVE  Machine!IsHierarchy
  <2> DEFINE n == Len(table.states)
  <2>1. /\ n \in Nat \ {0} /\ HsmStates = 1 .. n
        /\ \A i \in 1 .. n : table.states[i].parent \in 0 .. i - 1
    BY <1>1, StatesTyped
  <2>2. /\ ParentOf(table) \in [1 .. n -> 0 .. n]
        /\ \A s \in 1 .. n : ParentOf(table)[s] < s
    BY <2>1 DEF ParentOf, HsmStates
  <2>3. InitialIndex(table) \in 1 .. n
    <3>1. table.states \in Seq(StateRecord)
      BY <1>1 DEF ParserInv, TableInv, Linked
    <3>2. FindState(table, table.initial) \in 0 .. n
      BY <3>1, FindStateFinds
    <3> QED BY <2>1, <3>2 DEF InitialIndex
  <2>4. DispatchCases(table) \subseteq Machine!Case
    BY <1>1, CaseTyped
  <2> QED BY <1>1, <2>1, <2>2, <2>3, <2>4
          DEF Machine!IsHierarchy, Machine!State, OneCasePerLabel
<1>2. HsmInit => OwnersInv
  BY DEF HsmInit, EmptyTable, OwnersInv
<1>3. ParserInv /\ TransitionsInv /\ OwnersInv /\ [HsmNext]_hsmVars => OwnersInv'
  BY OwnersStep
<1>4. ParserInv /\ TransitionsInv /\ OwnersInv =>
        (phase = "resolved" /\ HsmStates # {} /\ OneCasePerLabel => Machine!IsHierarchy)
  BY <1>1
<1> QED BY <1>2, <1>3, <1>4, TransitionsInvariant, PTL DEF HsmSpec

-----------------------------------------------------------------------------
(* What is said of a state: the attribute lines of its block, and          *)
(* transitions to its history.                                             *)

\* What the table says of a state is what is written of it, where `targeted` tells
\* whether its history is a transition's target.
AsWritten(s, i, lineMarks, targeted) ==
  /\ (s.initialChild # <<>>) <=> (<<i, "initial">> \in lineMarks)
  /\ (s.entry # NoCallback)  <=> (<<i, "entry">> \in lineMarks)
  /\ (s.exit # NoCallback)   <=> (<<i, "exit">> \in lineMarks)
  /\ s.history = (<<i, "history">> \in lineMarks \/ targeted)

\* A path is that of one state, and `.history' stands for a history.
ClearNames == UniquePaths /\ PlainNames

\* A line marks the state it is written in, and a target is looked up among the states
\* there are.
MarksInv ==
  oneLine = 0 /\ deepest <= MaxDepth /\ Len(arrows) <= MaxTransitions =>
    /\ \A i, k : <<i, k>> \in marks => i \in 0 .. Len(table.states)
    /\ \A j \in 1 .. Len(arrows) : arrows[j].declared <= Len(table.states)
    /\ ClearNames =>
         /\ (table.initial # <<>>) <=> (<<0, "initial">> \in marks)
         /\ \A i \in 1 .. Len(table.states) :
              AsWritten(table.states[i], i, marks, HistoryTarget(i))

\* A state with one more of its lines.
LEMMA StateMarked ==
  ASSUME NEW s \in StateRecord, NEW i, NEW lineMarks, NEW targeted,
         AsWritten(s, i, lineMarks, targeted), NEW kind, kind # NoCallback
  PROVE  /\ AsWritten([s EXCEPT !.initialChild = <<"A">>], i,
                      lineMarks \union {<<i, "initial">>}, targeted)
         /\ AsWritten([s EXCEPT !.entry = kind], i, lineMarks \union {<<i, "entry">>}, targeted)
         /\ AsWritten([s EXCEPT !.exit = kind], i, lineMarks \union {<<i, "exit">>}, targeted)
         /\ AsWritten([s EXCEPT !.history = TRUE], i,
                      lineMarks \union {<<i, "history">>}, targeted)
<1> DEFINE yes == TRUE
           path == <<"A">>
<1>1. path # <<>> /\ (yes <=> TRUE)
  OBVIOUS
<1> HIDE DEF yes, path
<1>2. /\ [s EXCEPT !.initialChild = path].initialChild = path
      /\ [s EXCEPT !.initialChild = path].entry = s.entry
      /\ [s EXCEPT !.initialChild = path].exit = s.exit
      /\ [s EXCEPT !.initialChild = path].history = s.history
      /\ [s EXCEPT !.entry = kind].initialChild = s.initialChild
      /\ [s EXCEPT !.entry = kind].entry = kind
      /\ [s EXCEPT !.entry = kind].exit = s.exit
      /\ [s EXCEPT !.entry = kind].history = s.history
  BY DEF StateRecord
<1>3. /\ [s EXCEPT !.exit = kind].initialChild = s.initialChild
      /\ [s EXCEPT !.exit = kind].entry = s.entry
      /\ [s EXCEPT !.exit = kind].exit = kind
      /\ [s EXCEPT !.exit = kind].history = s.history
      /\ [s EXCEPT !.history = yes].initialChild = s.initialChild
      /\ [s EXCEPT !.history = yes].entry = s.entry
      /\ [s EXCEPT !.history = yes].exit = s.exit
      /\ [s EXCEPT !.history = yes].history = yes
  BY DEF StateRecord
<1>4. AsWritten([s EXCEPT !.initialChild = path], i, lineMarks \union {<<i, "initial">>}, targeted)
  BY <1>1, <1>2 DEF AsWritten
<1>5. AsWritten([s EXCEPT !.entry = kind], i, lineMarks \union {<<i, "entry">>}, targeted)
  BY <1>2 DEF AsWritten
<1>6. AsWritten([s EXCEPT !.exit = kind], i, lineMarks \union {<<i, "exit">>}, targeted)
  BY <1>3 DEF AsWritten
<1>7. AsWritten([s EXCEPT !.history = yes], i, lineMarks \union {<<i, "history">>}, targeted)
  BY <1>1, <1>3 DEF AsWritten, yes
<1> QED BY <1>4, <1>5, <1>6, <1>7 DEF yes, path

\* A line between the braces of a state sets one entry of that state.
LEMMA AttributeSet ==
  ASSUME ParserInv, table.stack # <<>>, NEW k \in Attributes, AttributeLine(k)
  PROVE  LET e == OpenBlock(table)
             s == table.states[e]
         IN  /\ table'.initial = table.initial
             /\ \A i \in 1 .. Len(table.states) \ {e} : table'.states[i] = table.states[i]
             /\ k = "initial" => table'.states[e] = [s EXCEPT !.initialChild = <<"A">>]
             /\ k = "entry"   => table'.states[e] = [s EXCEPT !.entry = k]
             /\ k = "exit"    => table'.states[e] = [s EXCEPT !.exit = k]
             /\ k = "history" => table'.states[e] = [s EXCEPT !.history = TRUE]
<1> DEFINE line == [kind |-> k, path |-> <<"A">>, callback |-> k]
           e == OpenBlock(table)
           s == table.states[e]
           set(r) == [table EXCEPT !.states = [@ EXCEPT ![e] = r]]
<1>1. table' = ParseLine(table, line) /\ ~table.failed
  BY DEF AttributeLine, NextLine, ParserInv, Reading
<1>2. line.kind = k /\ line.path = <<"A">> /\ line.callback = k
  OBVIOUS
<1>3. /\ IsTable(table) /\ table.states \in Seq(StateRecord)
      /\ e \in 1 .. Len(table.states)
  BY TopIsState DEF ParserInv, TableInv, Linked
<1> HIDE DEF line
<1>4. /\ k = "initial" => table' = SetInitial(table, <<"A">>)
      /\ k = "entry" => table' = SetEntry(table, k)
      /\ k = "exit" => table' = SetExit(table, k)
      /\ k = "history" => table' = MarkHistory(table)
  BY <1>1, <1>2 DEF ParseLine
<1>5. /\ SetInitial(table, <<"A">>) = set([s EXCEPT !.initialChild = <<"A">>])
      /\ SetEntry(table, k) = set([s EXCEPT !.entry = k])
      /\ SetExit(table, k) = set([s EXCEPT !.exit = k])
      /\ MarkHistory(table) = set([s EXCEPT !.history = TRUE])
  BY <1>3 DEF SetInitial, SetEntry, SetExit, MarkHistory, IsTable
<1>6. ASSUME NEW r
      PROVE  /\ set(r).initial = table.initial /\ set(r).states[e] = r
             /\ \A i \in 1 .. Len(table.states) \ {e} : set(r).states[i] = table.states[i]
  BY <1>3 DEF IsTable
<1>7. k \in {"initial", "entry", "exit", "history"}
  BY ParserAssumption DEF AttributeKinds
<1> HIDE DEF set, s, e
<1> QED BY <1>4, <1>5, <1>6, <1>7 DEF s, e

\* Where names are clear after a step they were before it.
LEMMA NamesWereClear ==
  ASSUME ParserInv, KeepsStates(table.states, table'.states), ClearNames',
         HsmStates' = 1 .. Len(table'.states), NEW n \in Nat, DOMAIN arrows = 1 .. n,
         \A j \in 1 .. n : j \in DOMAIN arrows' /\ arrows'[j] = arrows[j]
  PROVE  ClearNames
<1>1. HsmStates = 1 .. Len(table.states) /\ Len(table.states) \in Nat
  BY StatesTyped
<1>2. \A i \in HsmStates :
        table'.states[i].path = table.states[i].path /\ i \in HsmStates'
  BY <1>1 DEF KeepsStates
<1>3. UniquePaths
  BY <1>2 DEF ClearNames, UniquePaths
<1>4. PlainNames
  BY <1>2 DEF ClearNames, PlainNames, PlainPath, PlainTarget
<1> QED BY <1>3, <1>4 DEF ClearNames

\* A step that writes no attribute and no transition, but may add a state without any.
LEMMA NoMarkStep ==
  ASSUME ParserInv, TransitionsInv, MarksInv,
         KeepsStates(table.states, table'.states), HsmStates' = 1 .. Len(table'.states),
         marks' = marks, arrows' = arrows, table'.initial = table.initial,
         deepest \in Nat, deepest' \in Nat, deepest <= deepest',
         oneLine \in Nat, oneLine' \in Nat, oneLine <= oneLine',
         \A i \in 1 .. Len(table.states) : \A targeted, lineMarks :
           AsWritten(table.states[i], i, lineMarks, targeted) =>
             AsWritten(table'.states[i], i, lineMarks, targeted),
         \A i \in (Len(table.states) + 1) .. Len(table'.states) :
           /\ table'.states[i].initialChild = <<>> /\ table'.states[i].entry = NoCallback
           /\ table'.states[i].exit = NoCallback /\ table'.states[i].history = FALSE
  PROVE  MarksInv'
<1> DEFINE n == Len(table.states)
<1> SUFFICES ASSUME oneLine' = 0 /\ deepest' <= MaxDepth, Len(arrows) <= MaxTransitions
             PROVE  /\ \A i, k : <<i, k>> \in marks => i \in 0 .. Len(table'.states)
                    /\ \A j \in 1 .. Len(arrows) : arrows[j].declared <= Len(table'.states)
                    /\ ClearNames' =>
                         /\ (table.initial # <<>>) <=> (<<0, "initial">> \in marks)
                         /\ \A i \in 1 .. Len(table'.states) :
                              AsWritten(table'.states[i], i, marks, HistoryTarget(i)')
  BY DEF MarksInv
<1>1. oneLine = 0 /\ deepest <= MaxDepth
  BY LimitsAssumption
<1>2. /\ \A i, k : <<i, k>> \in marks => i \in 0 .. n
      /\ \A j \in 1 .. Len(arrows) : arrows[j].declared <= n
      /\ ClearNames =>
           /\ (table.initial # <<>>) <=> (<<0, "initial">> \in marks)
           /\ \A i \in 1 .. n : AsWritten(table.states[i], i, marks, HistoryTarget(i))
  BY <1>1 DEF MarksInv
<1>3. n \in Nat /\ Len(table'.states) \in Nat /\ n <= Len(table'.states)
  BY DEF KeepsStates
<1>10. ClearNames' => ClearNames
  BY ArrowTypes, NamesWereClear
<1>4. \A i, k : <<i, k>> \in marks => i \in 0 .. Len(table'.states)
  BY <1>2, <1>3
<1>5. \A j \in 1 .. Len(arrows) : arrows[j].declared <= Len(table'.states)
  <2> SUFFICES ASSUME NEW j \in 1 .. Len(arrows) PROVE arrows[j].declared <= Len(table'.states)
    OBVIOUS
  <2>1. arrows[j].declared \in Nat /\ arrows[j].declared <= n
    BY <1>2, ArrowTypes
  <2> QED BY <1>3, <2>1
<1>6. ASSUME ClearNames', NEW i \in 1 .. n
      PROVE  AsWritten(table'.states[i], i, marks, HistoryTarget(i)')
  <2>1. ClearNames
    BY <1>6, <1>10
  <2>2. AsWritten(table.states[i], i, marks, HistoryTarget(i))
    BY <1>2, <2>1
  <2>3. HistoryTarget(i)' <=> HistoryTarget(i)
    BY DEF KeepsStates, HistoryTarget
  <2>4. AsWritten(table.states[i], i, marks, HistoryTarget(i)')
    BY <2>2, <2>3 DEF AsWritten
  <2> QED BY <2>4
<1>7. ASSUME NEW i \in (n + 1) .. Len(table'.states)
      PROVE  AsWritten(table'.states[i], i, marks, HistoryTarget(i)')
  <2>1. \A k : <<i, k>> \notin marks
    BY <1>2, <1>3
  <2>2. ~HistoryTarget(i)'
    <3> SUFFICES ASSUME NEW j \in DOMAIN arrows, i <= arrows[j].declared PROVE FALSE
      BY DEF HistoryTarget
    <3>1. arrows[j].declared \in Nat /\ arrows[j].declared <= n
      BY <1>2, ArrowTypes
    <3> QED BY <1>3, <3>1
  <2> QED BY <2>1, <2>2 DEF AsWritten
<1>8. ClearNames' => ((table.initial # <<>>) <=> (<<0, "initial">> \in marks))
  BY <1>2, <1>10
<1>9. \A i \in 1 .. Len(table'.states) : i \in 1 .. n \/ i \in (n + 1) .. Len(table'.states)
  BY <1>3
<1> QED BY <1>4, <1>5, <1>6, <1>7, <1>8, <1>9

\* An attribute line marks the state whose block is open.
LEMMA MarkAdded ==
  ASSUME ParserInv, TransitionsInv, MarksInv, NEW k \in Attributes, AttributeLine(k)
  PROVE  MarksInv'
<1> DEFINE n == Len(table.states)
           e == Around
<1>1. /\ marks' = marks \union {<<e, k>>} /\ arrows' = arrows
      /\ deepest' = deepest /\ oneLine' = oneLine
      /\ k # "initial" => blocks # <<>>
  BY DEF AttributeLine
<1>2. /\ SameTree(table', table) /\ TableInv(table')
      /\ n \in Nat /\ Len(table'.states) = n
      /\ HsmStates = 1 .. n /\ HsmStates' = 1 .. n
      /\ \A i \in 1 .. n : table.states[i] \in StateRecord
  <2>1. SameTree(table', table) /\ TableInv(table')
    BY AttributeKept DEF ParserInv
  <2>2. n \in Nat /\ HsmStates = 1 .. n /\ \A i \in 1 .. n : table.states[i] \in StateRecord
    BY StatesTyped
  <2>3. HsmStates' = 1 .. Len(table'.states) /\ Len(table'.states) = n
    BY <2>1 DEF HsmStates, TableInv, Linked, SameTree
  <2> QED BY <2>1, <2>2, <2>3
<1>3. KeepsStates(table.states, table'.states)
  <2>1. HsmNext
    BY DEF HsmNext
  <2> QED BY <2>1, StatesKept
<1> SUFFICES ASSUME oneLine = 0 /\ deepest <= MaxDepth, Len(arrows) <= MaxTransitions
             PROVE  /\ \A i, kind : <<i, kind>> \in marks' => i \in 0 .. n
                    /\ \A j \in 1 .. Len(arrows) : arrows[j].declared <= n
                    /\ ClearNames' =>
                         /\ (table'.initial # <<>>) <=> (<<0, "initial">> \in marks')
                         /\ \A i \in 1 .. n :
                              AsWritten(table'.states[i], i, marks', HistoryTarget(i)')
  BY <1>1, <1>2 DEF MarksInv
<1>4. /\ \A i, kind : <<i, kind>> \in marks => i \in 0 .. n
      /\ \A j \in 1 .. Len(arrows) : arrows[j].declared <= n
      /\ ClearNames =>
           /\ (table.initial # <<>>) <=> (<<0, "initial">> \in marks)
           /\ \A i \in 1 .. n : AsWritten(table.states[i], i, marks, HistoryTarget(i))
  BY DEF MarksInv
<1>5. table.stack = blocks /\ e = OpenBlock(table)
  BY DEF ParserInv, ParentIsEnclosingBlock, WithinDepth, OwnLines, Around, OpenBlock
<1>6. ClearNames' => ClearNames
  BY <1>1, <1>2, <1>3, ArrowTypes, NamesWereClear
<1>7. \A i \in 1 .. n : HistoryTarget(i)' <=> HistoryTarget(i)
  BY <1>1, <1>3 DEF KeepsStates, HistoryTarget
<1>8. \A i \in 1 .. n : \A s, lineMarks :
        AsWritten(s, i, lineMarks, HistoryTarget(i)')
          <=> AsWritten(s, i, lineMarks, HistoryTarget(i))
  BY <1>7 DEF AsWritten
<1>9. CASE table.stack = <<>>
  <2>1. e = 0 /\ k = "initial"
    BY <1>1, <1>5, <1>9 DEF OpenBlock
  <2>2. table'.initial = <<"A">> /\ table'.states = table.states
    <3> DEFINE line == [kind |-> k, path |-> <<"A">>, callback |-> k]
    <3>1. table' = ParseLine(table, line) /\ ~table.failed /\ IsTable(table)
      BY DEF AttributeLine, NextLine, ParserInv, Reading, TableInv
    <3>2. line.kind = "initial" /\ line.path = <<"A">>
      BY <2>1
    <3> HIDE DEF line
    <3>3. table' = SetInitial(table, <<"A">>)
      BY <3>1, <3>2 DEF ParseLine
    <3> QED BY <1>9, <3>1, <3>3 DEF SetInitial, IsTable
  <2>3. table'.initial # <<>>
    BY <2>2
  <2>4. \A i \in 1 .. n : AsWritten(table.states[i], i, marks, HistoryTarget(i)) =>
                            AsWritten(table.states[i], i, marks', HistoryTarget(i))
    BY <1>1, <2>1 DEF AsWritten
  <2> HIDE DEF e
  <2>5. \A i, kind : <<i, kind>> \in marks' => i \in 0 .. n
    BY <1>1, <1>2, <1>4, <2>1
  <2>6. <<0, "initial">> \in marks'
    BY <1>1, <2>1
  <2>7. ASSUME ClearNames', NEW i \in 1 .. n
        PROVE  AsWritten(table'.states[i], i, marks', HistoryTarget(i)')
    BY <1>4, <1>6, <1>8, <2>2, <2>4, <2>7
  <2> QED BY <1>4, <2>3, <2>5, <2>6, <2>7
<1>10. CASE table.stack # <<>>
  <2> DEFINE s == table.states[e]
  <2>1. /\ table'.initial = table.initial
        /\ \A i \in 1 .. n \ {e} : table'.states[i] = table.states[i]
        /\ k = "initial" => table'.states[e] = [s EXCEPT !.initialChild = <<"A">>]
        /\ k = "entry"   => table'.states[e] = [s EXCEPT !.entry = k]
        /\ k = "exit"    => table'.states[e] = [s EXCEPT !.exit = k]
        /\ k = "history" => table'.states[e] = [s EXCEPT !.history = TRUE]
    BY <1>5, <1>10, AttributeSet
  <2>2. e \in 1 .. n /\ s \in StateRecord
    BY <1>5, <1>10, TopIsState DEF ParserInv
  <2>3. k \in {"initial", "entry", "exit", "history"} /\ k # NoCallback
    BY ParserAssumption DEF AttributeKinds, NoCallback
  <2>4. ASSUME AsWritten(s, e, marks, HistoryTarget(e))
        PROVE  AsWritten(table'.states[e], e, marks', HistoryTarget(e))
    <3> DEFINE h == HistoryTarget(e)
    <3> HIDE DEF s, e, h
    <3>1. /\ AsWritten([s EXCEPT !.initialChild = <<"A">>], e, marks \union {<<e, "initial">>}, h)
          /\ AsWritten([s EXCEPT !.entry = k], e, marks \union {<<e, "entry">>}, h)
          /\ AsWritten([s EXCEPT !.exit = k], e, marks \union {<<e, "exit">>}, h)
          /\ AsWritten([s EXCEPT !.history = TRUE], e, marks \union {<<e, "history">>}, h)
      BY <2>2, <2>3, <2>4, StateMarked DEF h
    <3>2. CASE k = "initial"
      BY <1>1, <2>1, <3>1, <3>2 DEF h
    <3>3. CASE k = "entry"
      BY <1>1, <2>1, <3>1, <3>3 DEF h
    <3>4. CASE k = "exit"
      BY <1>1, <2>1, <3>1, <3>4 DEF h
    <3>5. CASE k = "history"
      BY <1>1, <2>1, <3>1, <3>5 DEF h
    <3> QED BY <2>3, <3>2, <3>3, <3>4, <3>5 DEF h
  <2>5. ASSUME NEW i \in 1 .. n \ {e}, AsWritten(table.states[i], i, marks, HistoryTarget(i))
        PROVE  AsWritten(table'.states[i], i, marks', HistoryTarget(i))
    BY <1>1, <2>1, <2>5 DEF AsWritten
  <2> HIDE DEF e, s
  <2>6. \A i, kind : <<i, kind>> \in marks' => i \in 0 .. n
    BY <1>1, <1>2, <1>4, <2>2
  <2>7. <<0, "initial">> \in marks' <=> <<0, "initial">> \in marks
    BY <1>1, <1>2, <2>2
  <2>8. ASSUME ClearNames', NEW i \in 1 .. n
        PROVE  AsWritten(table'.states[i], i, marks', HistoryTarget(i)')
    BY <1>4, <1>6, <1>8, <2>4, <2>5, <2>8 DEF s
  <2>9. ClearNames' => ((table'.initial # <<>>) <=> (<<0, "initial">> \in marks'))
    BY <1>4, <1>6, <2>1, <2>7
  <2> QED BY <1>4, <2>6, <2>8, <2>9
<1> QED BY <1>9, <1>10

\* A target of several names is as it is written, and a bare name does not become a
\* history.
LEMMA QualifyHistory ==
  ASSUME ParserInv, table.stack # <<>>, NEW p \in Seq(STRING), p # <<>>,
         \A i \in HsmStates : PlainPath(table.states[i].path)
  PROVE  LET target == Qualify(table, OpenBlock(table), p)
         IN  /\ IsHistory(target) <=> IsHistory(p)
             /\ IsHistory(p) => target = p
<1> DEFINE e == OpenBlock(table)
           target == Qualify(table, e, p)
           child == table.states[e].path \o p
           sibling == table.states[table.states[e].parent].path \o p
           h == p = <<"history">>
<1>1. CASE target = p
  BY <1>1
<1>2. CASE target # p
  <2>1. /\ ~(Len(p) > 1 \/ h)
        /\ \/ target = child /\ FindState(table, child) # 0
           \/ target = sibling /\ FindState(table, sibling) # 0
    BY <1>2 DEF Qualify
  <2> HIDE DEF child, sibling, h, target
  <2>2. ~IsHistory(p)
    <3>1. Len(p) \in Nat /\ ~(Len(p) > 1)
      BY <2>1
    <3> QED BY <3>1 DEF IsHistory, HistoryAt
  <2>3. PICK path : target = path /\ FindState(table, path) # 0
    BY <2>1
  <2>4. PICK i \in HsmStates : table.states[i].path = path
    <3>1. table.states \in Seq(StateRecord) /\ HsmStates = 1 .. Len(table.states)
      BY StatesTyped DEF ParserInv, TableInv, Linked
    <3>2. /\ FindState(table, path) \in 0 .. Len(table.states)
          /\ table.states[FindState(table, path)].path = path
      BY <2>3, <3>1, FindStateFinds
    <3>3. FindState(table, path) \in HsmStates
      BY <2>3, <3>1, <3>2
    <3> QED BY <3>2, <3>3
  <2>5. ~IsHistory(path)
    BY <2>4, StatesTyped, PlainIsNoHistory
  <2> QED BY <2>2, <2>3, <2>5 DEF target
<1> QED BY <1>1, <1>2

\* A state whose history is marked.
LEMMA HistoryWritten ==
  ASSUME NEW s \in StateRecord, NEW i, NEW lineMarks, NEW targeted,
         AsWritten(s, i, lineMarks, targeted)
  PROVE  AsWritten([s EXCEPT !.history = TRUE], i, lineMarks, TRUE)
<1> DEFINE yes == TRUE
           r == [s EXCEPT !.history = yes]
<1>1. yes <=> TRUE
  OBVIOUS
<1> HIDE DEF yes
<1>2. /\ r.initialChild = s.initialChild /\ r.entry = s.entry
      /\ r.exit = s.exit /\ r.history = yes
  BY DEF StateRecord
<1> HIDE DEF r
<1>3. AsWritten(r, i, lineMarks, TRUE)
  BY <1>1, <1>2 DEF AsWritten, yes
<1> QED BY <1>3 DEF r, yes

\* What a transition's line does to the states: a history target marks the state it
\* names, whose path comes first in the table.
LEMMA HistorySet ==
  ASSUME ParserInv, table.stack # <<>>, Len(table.transitions) < MaxTransitions,
         Len(table.transitions) \in Nat, NEW line, NEW p \in Seq(STRING), p # <<>>,
         line.target = p, PlainTarget(p),
         \A i \in HsmStates : PlainPath(table.states[i].path)
  PROVE  LET u == AddTransition(table, line)
         IN  /\ u.initial = table.initial
             /\ \A i \in 1 .. Len(table.states) :
                  u.states[i] = IF NamesHistory(p) /\ i = FindState(table, Front(p))
                                THEN [table.states[i] EXCEPT !.history = TRUE]
                                ELSE table.states[i]
<1> DEFINE t == table
           target == Qualify(t, OpenBlock(t), p)
           owner == IF IsHistory(target) THEN FindState(t, Composite(target)) ELSE 0
           new == [event |-> line.event, source |-> t.states[OpenBlock(t)].path,
                   target |-> target, guard |-> line.guard,
                   action |-> line.action, sourceIndex |-> 0, targetIndex |-> 0]
           noted == [t EXCEPT !.events = FindOrAddEvent(@, line.event)]
           marked == [j \in DOMAIN t.states |->
                        IF j = owner THEN [t.states[j] EXCEPT !.history = TRUE]
                        ELSE t.states[j]]
           u == AddTransition(t, line)
<1>1. IsTable(t) /\ HsmStates = 1 .. Len(t.states)
  BY StatesTyped DEF ParserInv, TableInv
<1>2. /\ noted.initial = t.initial /\ noted.states = t.states /\ noted.transitions = t.transitions
      /\ {"initial", "transitions", "states"} \subseteq DOMAIN noted
  BY <1>1 DEF IsTable
<1>3. ~(t.stack = <<>> \/ Len(t.transitions) >= MaxTransitions)
  BY LimitsAssumption
<1>4. u = [noted EXCEPT !.transitions = Append(t.transitions, new), !.states = marked]
  BY <1>2, <1>3 DEF AddTransition
<1> HIDE DEF noted, marked, new, u
<1>5. u.initial = t.initial /\ u.states = marked
  BY <1>2, <1>4
<1>6. owner = IF NamesHistory(p) THEN FindState(t, Front(p)) ELSE 0
  <2>1. IsHistory(target) <=> IsHistory(p)
    BY QualifyHistory
  <2>2. IsHistory(p) => target = p
    BY QualifyHistory
  <2>3. IsHistory(p) <=> NamesHistory(p)
    BY PlainHistory
  <2>4. NamesHistory(p) => Composite(p) = Front(p)
    BY PlainHistory
  <2> HIDE DEF target
  <2> QED BY <2>1, <2>2, <2>3, <2>4
<1>7. \A i \in 1 .. Len(t.states) : i # 0
  BY StatesTyped
<1> HIDE DEF owner, target
<1>8. ASSUME NEW i \in 1 .. Len(t.states)
      PROVE  marked[i] = IF NamesHistory(p) /\ i = FindState(t, Front(p))
                         THEN [t.states[i] EXCEPT !.history = TRUE] ELSE t.states[i]
  BY <1>1, <1>6, <1>7 DEF marked, HsmStates
<1> QED BY <1>5, <1>8 DEF u

\* The history of a state is a target after the line if it was or the line's target is.
LEMMA TargetCounts ==
  ASSUME TransitionsInv, NEW arrow, arrows' = Append(arrows, arrow), NEW i,
         table'.states[i].path = table.states[i].path
  PROVE  HistoryTarget(i)' <=>
           \/ HistoryTarget(i)
           \/ /\ NamesHistory(arrow.target) /\ Front(arrow.target) = table.states[i].path
              /\ i <= arrow.declared
<1> DEFINE n == Len(arrows)
           Hits(a) == /\ NamesHistory(a.target) /\ Front(a.target) = table.states[i].path
                      /\ i <= a.declared
<1>1. /\ n \in Nat /\ DOMAIN arrows = 1 .. n /\ DOMAIN arrows' = 1 .. (n + 1)
      /\ arrows'[n + 1] = arrow /\ \A j \in 1 .. n : arrows'[j] = arrows[j]
  BY DEF TransitionsInv
<1>2. HistoryTarget(i) <=> \E j \in 1 .. n : Hits(arrows[j])
  BY <1>1 DEF HistoryTarget
<1>3. HistoryTarget(i)' <=> \E j \in 1 .. (n + 1) : Hits(arrows'[j])
  BY <1>1 DEF HistoryTarget
<1> HIDE DEF Hits
<1>4. (\E j \in 1 .. (n + 1) : Hits(arrows'[j])) <=> (\E j \in 1 .. n : Hits(arrows[j])) \/ Hits(arrow)
  <2>1. \A j \in 1 .. (n + 1) : j \in 1 .. n \/ j = n + 1
    BY <1>1
  <2>2. n + 1 \in 1 .. (n + 1) /\ \A j \in 1 .. n : j \in 1 .. (n + 1)
    BY <1>1
  <2> QED BY <1>1, <2>1, <2>2
<1> QED BY <1>2, <1>3, <1>4 DEF Hits

\* on Event -> Target
LEMMA HistoryMarked ==
  ASSUME ParserInv, TransitionsInv, MarksInv,
         NEW e \in Events, NEW p \in Targets, p # <<>>, TransitionLine(e, p)
  PROVE  MarksInv'
<1> DEFINE n == Len(table.states)
           line == [event |-> e, target |-> p, guard |-> NoCallback, action |-> NoCallback]
           arrow == [source |-> Around, target |-> p, declared |-> n]
<1>1. /\ table' = AddTransition(table, line) /\ arrows' = Append(arrows, arrow)
      /\ marks' = marks /\ deepest' = deepest /\ oneLine' = oneLine /\ blocks # <<>>
      /\ line.target = p /\ arrow.target = p /\ arrow.declared = n
  BY DEF TransitionLine
<1> HIDE DEF line, arrow
<1>2. /\ KeepsStates(table.states, table'.states) /\ Len(table'.states) = n
      /\ HsmStates' = 1 .. n /\ HsmStates = 1 .. n /\ n \in Nat
      /\ \A i \in 1 .. n : table.states[i] \in StateRecord
  <2>1. SameTree(table', table) /\ TableInv(table')
    BY <1>1, TransitionLinked DEF ParserInv
  <2>2. KeepsStates(table.states, table'.states)
    <3>1. HsmNext
      BY DEF HsmNext
    <3> QED BY <3>1, StatesKept
  <2>3. HsmStates' = 1 .. Len(table'.states) /\ Len(table'.states) = n
    BY <2>1 DEF HsmStates, TableInv, Linked, SameTree
  <2> QED BY <2>2, <2>3, StatesTyped
<1>3. /\ Len(arrows) \in Nat /\ Len(arrows') = Len(arrows) + 1
      /\ arrows'[Len(arrows) + 1] = arrow
      /\ \A j \in 1 .. Len(arrows) : arrows'[j] = arrows[j]
  BY <1>1 DEF TransitionsInv
<1> SUFFICES ASSUME oneLine = 0 /\ deepest <= MaxDepth, Len(arrows) + 1 <= MaxTransitions
             PROVE  /\ \A i, k : <<i, k>> \in marks => i \in 0 .. n
                    /\ \A j \in 1 .. (Len(arrows) + 1) : arrows'[j].declared <= n
                    /\ ClearNames' =>
                         /\ (table'.initial # <<>>) <=> (<<0, "initial">> \in marks)
                         /\ \A i \in 1 .. n :
                              AsWritten(table'.states[i], i, marks, HistoryTarget(i)')
  BY <1>1, <1>2, <1>3 DEF MarksInv
<1>4. Len(arrows) <= MaxTransitions
  BY <1>3, LimitsAssumption
<1>5. /\ \A i, k : <<i, k>> \in marks => i \in 0 .. n
      /\ \A j \in 1 .. Len(arrows) : arrows[j].declared <= n
      /\ ClearNames =>
           /\ (table.initial # <<>>) <=> (<<0, "initial">> \in marks)
           /\ \A i \in 1 .. n : AsWritten(table.states[i], i, marks, HistoryTarget(i))
  BY <1>4 DEF MarksInv
<1>6. /\ table.stack # <<>> /\ Len(table.transitions) < MaxTransitions
      /\ Len(table.transitions) \in Nat
  <2>1. table.stack = blocks
    BY DEF ParserInv, ParentIsEnclosingBlock, WithinDepth, OwnLines
  <2>2. Len(table.transitions) = Len(arrows)
    BY <1>4 DEF TransitionsInv, Sources
  <2> QED BY <1>1, <1>3, <2>1, <2>2, LimitsAssumption
<1>7. p \in Seq(STRING)
  BY ParserAssumption
<1> DEFINE owner == FindState(table, Front(p))
<1>10. ASSUME ClearNames'
       PROVE  /\ ClearNames /\ PlainTarget(p)
              /\ \A i \in HsmStates : PlainPath(table.states[i].path)
  <2>1. DOMAIN arrows = 1 .. Len(arrows) /\ DOMAIN arrows' = 1 .. Len(arrows) + 1
    BY <1>1 DEF TransitionsInv
  <2>2. \A j \in 1 .. Len(arrows) : j \in DOMAIN arrows'
    BY <1>3, <2>1
  <2>3. ClearNames
    BY <1>2, <1>3, <1>10, <2>1, <2>2, NamesWereClear
  <2>4. PlainTarget(p)
    <3>1. Len(arrows) + 1 \in DOMAIN arrows'
      BY <1>3, <2>1
    <3>2. PlainTarget(arrows'[Len(arrows) + 1].target)
      BY <1>10, <3>1 DEF ClearNames, PlainNames, PlainTarget
    <3> QED BY <1>1, <1>3, <3>2
  <2> QED BY <2>3, <2>4 DEF ClearNames, PlainNames
<1>8. ASSUME ClearNames'
      PROVE  /\ table'.initial = table.initial
             /\ \A i \in 1 .. n :
                  table'.states[i] = IF NamesHistory(p) /\ i = owner
                                     THEN [table.states[i] EXCEPT !.history = TRUE]
                                     ELSE table.states[i]
  BY <1>1, <1>6, <1>7, <1>8, <1>10, HistorySet
<1>9. \A j \in 1 .. (Len(arrows) + 1) : arrows'[j].declared <= n
  <2> SUFFICES ASSUME NEW j \in 1 .. (Len(arrows) + 1) PROVE arrows'[j].declared <= n
    OBVIOUS
  <2>1. CASE j = Len(arrows) + 1
    BY <1>1, <1>2, <1>3, <2>1
  <2>2. CASE j # Len(arrows) + 1
    <3>1. j \in 1 .. Len(arrows)
      BY <1>3, <2>2
    <3> QED BY <1>3, <1>5, <3>1
  <2> QED BY <2>1, <2>2
<1>11. ASSUME ClearNames', NEW i \in 1 .. n
       PROVE  AsWritten(table'.states[i], i, marks, HistoryTarget(i)')
  <2> DEFINE named == NamesHistory(p) /\ Front(p) = table.states[i].path
  <2>1. AsWritten(table.states[i], i, marks, HistoryTarget(i))
    BY <1>5, <1>10, <1>11
  <2>2. HistoryTarget(i)' <=> HistoryTarget(i) \/ named
    <3>1. table'.states[i].path = table.states[i].path
      BY <1>2 DEF KeepsStates
    <3>2. i <= n
      BY <1>2
    <3> QED BY <1>1, <3>1, <3>2, TargetCounts
  <2>3. i = owner <=> Front(p) = table.states[i].path
    <3>1. Front(p) = table.states[i].path => i = owner
      BY <1>2, <1>10, <1>11, TheStateFound DEF ClearNames
    <3>2. owner # 0 => table.states[owner].path = Front(p)
      BY FindStateFinds DEF ParserInv, TableInv, Linked
    <3>3. i # 0
      BY <1>2
    <3> QED BY <3>1, <3>2, <3>3
  <2>4. CASE named
    <3>1. table'.states[i] = [table.states[i] EXCEPT !.history = TRUE]
      BY <1>8, <1>11, <2>3, <2>4
    <3>2. AsWritten([table.states[i] EXCEPT !.history = TRUE], i, marks, TRUE)
      BY <1>2, <2>1, HistoryWritten
    <3> QED BY <2>2, <2>4, <3>1, <3>2 DEF AsWritten
  <2>5. CASE ~named
    <3>1. table'.states[i] = table.states[i]
      BY <1>8, <1>11, <2>3, <2>5
    <3> QED BY <2>1, <2>2, <2>5, <3>1 DEF AsWritten
  <2> QED BY <2>4, <2>5
<1> QED BY <1>5, <1>8, <1>9, <1>10, <1>11

\* state Name {: the states there are keep their attributes and the new one has none.
LEMMA AddedWithout ==
  ASSUME ParserInv, NEW name \in Names, ~(Len(table.states) >= MaxStates)
  PROVE  LET u == AddState(table, name)
             n == Len(table.states)
             s == u.states[n + 1]
         IN  /\ u.initial = table.initial
             /\ s.initialChild = <<>> /\ s.entry = NoCallback
             /\ s.exit = NoCallback /\ s.history = FALSE
             /\ \A j \in 1 .. n :
                  /\ u.states[j].initialChild = table.states[j].initialChild
                  /\ u.states[j].entry = table.states[j].entry
                  /\ u.states[j].exit = table.states[j].exit
                  /\ u.states[j].history = table.states[j].history
<1> DEFINE t      == table
           n      == Len(t.states)
           i      == n + 1
           parent == OpenBlock(t)
           no     == FALSE
           new    == [path         |-> IF parent = 0 THEN <<name>>
                                       ELSE Append(t.states[parent].path, name),
                      parent       |-> parent,
                      depth        |-> Len(t.stack),
                      entry        |-> NoCallback,
                      exit         |-> NoCallback,
                      initialChild |-> <<>>,
                      history      |-> no,
                      childStart   |-> 0,
                      childCount   |-> 0]
           linked == [j \in DOMAIN t.states |->
                        IF j # parent THEN t.states[j]
                        ELSE [t.states[j] EXCEPT
                                !.childCount = @ + 1,
                                !.childStart = IF @ = 0 THEN i ELSE @]]
           stack  == IF Len(t.stack) < MaxDepth THEN Append(t.stack, i)
                     ELSE t.stack
           u      == AddState(t, name)
<1>1. /\ IsTable(t) /\ n \in Nat /\ DOMAIN t.states = 1 .. n
      /\ \A j \in 1 .. n : t.states[j] \in StateRecord
  BY StatesTyped DEF ParserInv, TableInv, HsmStates
<1>2. u = [t EXCEPT !.states = Append(linked, new), !.stack  = stack]
  BY DEF AddState
<1>3. u.initial = t.initial /\ u.states = Append(linked, new)
  <2> HIDE DEF linked, new, stack, u
  <2> QED BY <1>1, <1>2 DEF IsTable
<1>4. /\ new.initialChild = <<>> /\ new.entry = NoCallback
      /\ new.exit = NoCallback /\ new.history = no
  <2> HIDE DEF no
  <2> QED OBVIOUS
<1>5. ASSUME NEW j \in 1 .. n
      PROVE  /\ linked[j].initialChild = t.states[j].initialChild
             /\ linked[j].entry = t.states[j].entry
             /\ linked[j].exit = t.states[j].exit
             /\ linked[j].history = t.states[j].history
  <2>1. t.states[j] \in StateRecord
    BY <1>1
  <2>2. CASE j # parent
    BY <1>1, <2>2
  <2>3. CASE j = parent
    <3> DEFINE s == t.states[j]
               count == s.childCount + 1
               start == IF s.childStart = 0 THEN i ELSE s.childStart
    <3>1. linked[j] = [s EXCEPT !.childCount = count, !.childStart = start]
      BY <1>1, <2>3
    <3> HIDE DEF count, start, linked, s
    <3>2. s \in StateRecord
      BY <2>1 DEF s
    <3>3. /\ linked[j].initialChild = s.initialChild /\ linked[j].entry = s.entry
          /\ linked[j].exit = s.exit /\ linked[j].history = s.history
      BY <3>1, <3>2 DEF StateRecord
    <3> QED BY <3>3 DEF s
  <2> QED BY <2>2, <2>3
<1>6. /\ Append(linked, new)[n + 1] = new
      /\ \A j \in 1 .. n : Append(linked, new)[j] = linked[j]
  <2>1. linked = [j \in 1 .. n |-> linked[j]]
    BY <1>1
  <2> HIDE DEF linked, new
  <2>2. linked \in Seq({linked[j] : j \in 1 .. n}) /\ Len(linked) = n
    BY <1>1, <2>1
  <2> QED BY <1>1, <2>2
<1> HIDE DEF linked, new, u
<1> QED BY <1>3, <1>4, <1>5, <1>6 DEF u

LEMMA StateWithout ==
  ASSUME ParserInv, TransitionsInv, MarksInv, NEW name \in Names, StateLine(name)
  PROVE  MarksInv'
<1> DEFINE n == Len(table.states)
<1>1. HsmNext
  BY DEF HsmNext
<1>2. /\ KeepsStates(table.states, table'.states) /\ ParserInv'
      /\ HsmStates' = 1 .. Len(table'.states)
      /\ deepest \in Nat /\ deepest' \in Nat /\ deepest <= deepest'
      /\ oneLine \in Nat /\ oneLine' \in Nat /\ oneLine <= oneLine'
      /\ marks' = marks /\ arrows' = arrows /\ table' = AddState(table, name)
      /\ n \in Nat
  <2>1. KeepsStates(table.states, table'.states)
    BY <1>1, StatesKept
  <2>2. ParserInv'
    BY StateInv
  <2>3. HsmStates' = 1 .. Len(table'.states)
    BY <2>2 DEF HsmStates, ParserInv, TableInv, Linked
  <2>4. /\ deepest \in Nat /\ deepest' \in Nat /\ deepest <= deepest'
        /\ oneLine \in Nat /\ oneLine' \in Nat /\ oneLine <= oneLine'
    BY <1>1, TransitionSteps
  <2> QED BY <2>1, <2>2, <2>3, <2>4, StatesTyped DEF StateLine, AddsState
<1>3. CASE n >= MaxStates
  <2>1. table'.states = table.states /\ table'.initial = table.initial
    BY <1>2, <1>3 DEF AddState, ParserInv, TableInv, IsTable
  <2>2. \A i \in (n + 1) .. Len(table'.states) : FALSE
    BY <1>2, <2>1
  <2> QED BY <1>2, <2>1, <2>2, NoMarkStep
<1>4. CASE ~(n >= MaxStates)
  <2>1. /\ table'.initial = table.initial
        /\ table'.states[n + 1].initialChild = <<>> /\ table'.states[n + 1].entry = NoCallback
        /\ table'.states[n + 1].exit = NoCallback /\ table'.states[n + 1].history = FALSE
        /\ \A j \in 1 .. n :
             /\ table'.states[j].initialChild = table.states[j].initialChild
             /\ table'.states[j].entry = table.states[j].entry
             /\ table'.states[j].exit = table.states[j].exit
             /\ table'.states[j].history = table.states[j].history
    BY <1>2, <1>4, AddedWithout
  <2>2. Len(table'.states) = n + 1
    <3>1. ~table'.failed
      BY <1>2, <1>4 DEF AddState, StateLine, AddsState, NextLine, ParserInv, Reading,
                        TableInv, IsTable
    <3> QED BY <1>2, <3>1, AddLinked DEF ParserInv, GrownTree
  <2>3. \A i \in (n + 1) .. Len(table'.states) : i = n + 1
    BY <1>2, <2>2
  <2>4. \A i \in 1 .. n : \A targeted, lineMarks :
          AsWritten(table.states[i], i, lineMarks, targeted) =>
            AsWritten(table'.states[i], i, lineMarks, targeted)
    BY <2>1 DEF AsWritten
  <2> QED BY <1>2, <2>1, <2>3, <2>4, NoMarkStep
<1> QED BY <1>3, <1>4

\* A line without a state, an attribute or a target.
LEMMA SameStates ==
  ASSUME ParserInv, TransitionsInv, MarksInv, [HsmNext]_hsmVars,
         table'.states = table.states, table'.initial = table.initial,
         marks' = marks, arrows' = arrows
  PROVE  MarksInv'
<1> DEFINE n == Len(table.states)
<1>1. /\ KeepsStates(table.states, table'.states)
      /\ HsmStates' = 1 .. Len(table'.states) /\ n \in Nat
      /\ deepest \in Nat /\ deepest' \in Nat /\ deepest <= deepest'
      /\ oneLine \in Nat /\ oneLine' \in Nat /\ oneLine <= oneLine'
  <2>1. HsmStates' = 1 .. Len(table'.states) /\ n \in Nat
    BY StatesTyped DEF HsmStates
  <2>2. KeepsStates(table.states, table'.states)
    BY StatesKept
  <2> QED BY <2>1, <2>2, TransitionSteps
<1>2. \A i \in (n + 1) .. Len(table'.states) : FALSE
  BY <1>1
<1> QED BY <1>1, <1>2, NoMarkStep

LEMMA MarksStep == ParserInv /\ TransitionsInv /\ MarksInv /\ [HsmNext]_hsmVars => MarksInv'
<1> SUFFICES ASSUME ParserInv, TransitionsInv, MarksInv, [HsmNext]_hsmVars
             PROVE  MarksInv'
  OBVIOUS
<1>0. IsTable(table)
  BY DEF ParserInv, TableInv
<1>1. ASSUME NEW name \in Names, StateLine(name) PROVE MarksInv'
  BY <1>1, StateWithout
<1>7. ASSUME NEW name \in Names, NEW p \in OnLine, StateOnLine(name, p) PROVE MarksInv'
  <2>1. ~OwnLines'
    BY <1>7, OnLineInv
  <2> QED BY <2>1 DEF MarksInv, OwnLines
<1>2. CASE CloseStateLine
  <2>1. table'.states = table.states /\ table'.initial = table.initial
    BY <1>0, <1>2 DEF CloseStateLine, CloseBlock, IsTable
  <2>2. marks' = marks /\ arrows' = arrows
    BY <1>2 DEF CloseStateLine
  <2> QED BY <2>1, <2>2, SameStates
<1>3. ASSUME NEW e \in Events, NEW p \in Targets, TransitionLine(e, p) PROVE MarksInv'
  <2>1. CASE p = <<>>
    <3>1. table'.states = table.states /\ table'.initial = table.initial
      BY <1>0, <1>3, <2>1 DEF TransitionLine, AddTransition, IsTable
    <3>2. marks' = marks /\ arrows' = arrows
      BY <1>3, <2>1 DEF TransitionLine
    <3> QED BY <3>1, <3>2, SameStates
  <2>2. CASE p # <<>>
    BY <1>3, <2>2, HistoryMarked
  <2> QED BY <2>1, <2>2
<1>4. ASSUME NEW k \in Attributes, AttributeLine(k) PROVE MarksInv'
  BY <1>4, MarkAdded
<1>5. CASE EndOfFile
  <2>1. table'.states = table.states /\ table'.initial = table.initial
    BY <1>0, <1>5 DEF EndOfFile, ResolveTransitions, IsTable
  <2>2. marks' = marks /\ arrows' = arrows
    BY <1>5 DEF EndOfFile
  <2> QED BY <2>1, <2>2, SameStates
<1>6. CASE UNCHANGED hsmVars
  <2>1. table' = table /\ marks' = marks /\ arrows' = arrows
    BY <1>6 DEF hsmVars
  <2> QED BY <2>1, SameStates
<1> QED BY <1>1, <1>2, <1>3, <1>4, <1>5, <1>6, <1>7 DEF HsmNext

\* In a file within the limits, without states on one line, whose states have different
\* paths and no names that begin with `history', the tables give a state an initial
\* child, an entry or an exit callback just when that line stands in its own block, and
\* mark its history just when that line stands there or a transition after it targets
\* the history (hsmgen.c:207-243, :300-394).
THEOREM AttributesAreKept == HsmSpec => []AttributesStayWithTheirState
<1>1. HsmInit => MarksInv
  BY DEF HsmInit, MarksInv, EmptyTable
<1>2. ParserInv /\ MarksInv => AttributesStayWithTheirState
  <2> SUFFICES ASSUME ParserInv, MarksInv, WithinDepth, OwnLines, UniquePaths,
                      PlainNames, Len(arrows) <= MaxTransitions
               PROVE  /\ (table.initial # <<>>) <=> (<<0, "initial">> \in marks)
                      /\ \A i \in HsmStates : AsWritten(table.states[i], i, marks, HistoryTarget(i))
    BY DEF AttributesStayWithTheirState, AsWritten
  <2> QED BY StatesTyped DEF MarksInv, ClearNames, WithinDepth, OwnLines
<1> QED BY <1>1, <1>2, InitInv, NextInv, TransitionsInit, TransitionsStep, MarksStep,
           PTL DEF HsmSpec
=============================================================================
