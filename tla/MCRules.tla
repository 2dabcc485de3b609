------------------------------ MODULE MCRules ------------------------------
(***************************************************************************)
(* clipsgen on two facts: rules which make one true, make it false again,  *)
(* or make the other true.                                                 *)
(***************************************************************************)
EXTENDS Rules

MCRuleActions ==
  {[fact |-> "f", value |-> TRUE], [fact |-> "f", value |-> FALSE],
   [fact |-> "g", value |-> TRUE]}
=============================================================================
