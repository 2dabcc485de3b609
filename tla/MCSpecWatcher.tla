---------------------------- MODULE MCSpecWatcher ----------------------------
(***************************************************************************)
(* Instances of Regen and SpecWatcher: a state machine with a header and a *)
(* source file, which is watched, and a hierarchical one, which is not.    *)
(***************************************************************************)
EXTENDS SpecWatcher

MCSpecs == {"door.sm", "light.hsm"}

MCOutputsOf ==
  [f \in MCSpecs |-> IF f = "door.sm" THEN <<"door_sm.h", "door_sm.c">>
                     ELSE <<"light_hsm.c">>]

MCOrder == <<"door.sm", "light.hsm">>

\* door.sm accepted or refused by its generator, with a source file that is
\* right, edited by hand or not committed; light.hsm with its output or deleted.
MCCommits ==
  [spec : {[f \in MCSpecs |-> IF f = "door.sm" THEN d ELSE l] :
             d \in {1, 2}, l \in {0, 1}},
   gen  : {[o \in {"door_sm.h", "door_sm.c", "light_hsm.c"} |->
             IF o = "door_sm.c" THEN c ELSE 1] : c \in {0, 1, -2}}]

\* A clean checkout in which every output is current.
MCCurrent ==
  {[spec |-> [f \in MCSpecs |-> 1],
    gen  |-> [o \in {"door_sm.h", "door_sm.c", "light_hsm.c"} |-> 1]]}
=============================================================================
