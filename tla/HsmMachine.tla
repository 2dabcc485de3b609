----------------------------- MODULE HsmMachine -----------------------------
(***************************************************************************)
(* What a dispatch of the generated state machine promises, as one step:   *)
(* the innermost case for the event whose guard allows it is carried out,  *)
(* and an event that no case takes changes nothing.                        *)
(***************************************************************************)
EXTENDS HsmHierarchy

VARIABLES current, history

vars == <<current, history>>

Init ==
  /\ current = Initial
  /\ history = [s \in State |-> 0]

\* c is a case of an active state, and the cases nearer to the current state
\* have guards, which may refuse.
MayTake(c) ==
  /\ current \in Below[c.source]
  /\ \A d \in Cases :
       /\ d.event = c.event
       /\ d.source \in Below[c.source] \ {c.source}
       /\ current \in Below[d.source]
       => d.guard

\* Leave the state that owns the case for its target; a history target is the
\* state saved for the composite or, when there is none, the composite.
Take(c) ==
  /\ MayTake(c)
  /\ history' = [s \in State |-> IF s = Parent[c.source] THEN current
                                 ELSE history[s]]
  /\ current' = IF c.target = 0 THEN current
                ELSE IF c.history /\ history'[c.target] # 0
                     THEN history'[c.target]
                     ELSE c.target

Next == \E c \in Cases : Take(c)

Spec == Init /\ [][Next]_vars
=============================================================================
