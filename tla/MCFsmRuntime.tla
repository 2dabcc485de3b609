---------------------------- MODULE MCFsmRuntime ----------------------------
(***************************************************************************)
(* An instance of FsmRuntime: a door with guards, a lock that turns twice  *)
(* and a transition from a state to itself.  States: 1 open, 2 closed,     *)
(* 3 locked, 4 bolted.                                                     *)
(***************************************************************************)
EXTENDS FsmRuntime

DoorCase(source, event, guard, action, target) ==
  [source |-> source, event |-> event, guard |-> guard, action |-> action,
   target |-> target]

DoorEvents == {"push", "pull", "turn", "ring"}

DoorN == 4

DoorCases ==
  {DoorCase(1, "push", FALSE, TRUE,  2),
   DoorCase(2, "pull", FALSE, FALSE, 1),
   DoorCase(2, "turn", TRUE,  TRUE,  3),
   DoorCase(3, "turn", TRUE,  FALSE, 4),
   DoorCase(4, "turn", FALSE, FALSE, 2),
   DoorCase(3, "ring", FALSE, TRUE,  3)}
=============================================================================
