---------------------------- MODULE HsmHierarchy ----------------------------
(***************************************************************************)
(* The tables of one .hsm file as the generated code sees them, and the    *)
(* tree they describe.  States are numbered from 1; 0 stands for -1.       *)
(***************************************************************************)
EXTENDS Integers

CONSTANTS
  N,        \* number of states
  Events,
  Parent,   \* state_info[].parent, 0 for a root
  Cases,    \* the cases of dispatch, one per state and event
  Initial   \* the state init leaves the machine in

State == 1 .. N

Case == [source: State, event: Events, guard: BOOLEAN, action: BOOLEAN,
         target: 0 .. N, history: BOOLEAN]

\* ParentsClimb of HsmParser, and what compiling the file takes: no switch has
\* two cases with one label.
IsHierarchy ==
  /\ N \in Nat \ {0}
  /\ Events # {}
  /\ Parent \in [State -> 0 .. N]
  /\ \A s \in State : Parent[s] < s
  /\ Cases \subseteq Case
  /\ \A c, d \in Cases : c.source = d.source /\ c.event = d.event => c = d
  /\ Initial \in State

ASSUME HierarchyAssumption == IsHierarchy

\* The states of the subtree of p: every set that holds p and the children of
\* its members holds them.
Below ==
  [p \in State |->
     {s \in State :
        \A S \in SUBSET State :
          /\ p \in S
          /\ \A c \in State : Parent[c] \in S => c \in S
          => s \in S}]

HasCase(s, e) == \E c \in Cases : c.source = s /\ c.event = e
CaseOf(s, e)  == CHOOSE c \in Cases : c.source = s /\ c.event = e

-----------------------------------------------------------------------------
(* What the writer of a .hsm file has to see to.                           *)

\* Every root has a case for every event, without a guard.
RootsTakeAll ==
  \A r \in State : Parent[r] = 0 =>
    \A e \in Events : HasCase(r, e) /\ ~CaseOf(r, e).guard

\* The states a case may lead to; to a history, those inside the composite.
LeadsTo(c) == IF c.target = 0 THEN {}
              ELSE IF c.history THEN Below[c.target] ELSE {c.target}

\* A state with a case to the history of a composite is reached, from outside
\* it, by cases of that composite's children only: they are the ones that save
\* the history.
HistoryIsKept ==
  \A c \in Cases : c.history /\ c.target # 0 =>
    /\ Initial \notin Below[c.source]
    /\ \A d \in Cases :
         LeadsTo(d) \cap Below[c.source] # {} =>
           d.source \in Below[c.source] \/ Parent[d.source] = c.target

\* The history of a composite is asked for from outside it.
HistoryFromOutside ==
  \A c \in Cases : c.history /\ c.target # 0 =>
    Below[c.source] \cap Below[c.target] = {}
=============================================================================
