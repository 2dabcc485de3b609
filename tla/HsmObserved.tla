----------------------------- MODULE HsmObserved ----------------------------
(***************************************************************************)
(* HsmRuntime with an observer that remembers what the generated code does *)
(* not: where the machine was when it last left each composite state.      *)
(***************************************************************************)
EXTENDS HsmRuntime

VARIABLE lastLeft  \* for each composite, the state current when it was left

observed == <<current, history, depth, frame, alive, lastLeft>>

ObservedInit ==
  /\ Init
  /\ lastLeft = [p \in State |-> 0]

ObservedMove ==
  /\ Move
  /\ lastLeft' = [p \in State |->
                    IF current \in Below[p] \ {p} /\ current' \notin Below[p]
                    THEN current ELSE lastLeft[p]]

ObservedNext ==
  \/ ObservedMove
  \/ /\ \/ \E e \in Events : Dispatch(e)
        \/ TakeCase \/ Ascend \/ PassRoot \/ GuardAllows \/ GuardRefuses
        \/ SaveHistory \/ Finish
     /\ UNCHANGED lastLeft

ObservedSpec == ObservedInit /\ [][ObservedNext]_observed

\* The usage text of hsmgen promises shallow history: a transition to the
\* history of a composite state goes back to the child in which the machine was
\* when it last left that composite, whichever case it left by.  (A history
\* that was never saved is left out: the generated code has a branch for it.)
ShallowHistory ==
  [][\A c \in Cases :
       /\ ObservedMove /\ Chosen = c /\ c.history /\ c.target # 0
       /\ lastLeft[c.target] # 0 /\ history[c.target] # 0
       => \E s \in State : /\ Parent[s] = c.target
                           /\ lastLeft[c.target] \in Below[s]
                           /\ current' \in Below[s]]_observed
=============================================================================
