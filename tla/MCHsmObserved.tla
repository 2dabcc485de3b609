---------------------------- MODULE MCHsmObserved ---------------------------
(***************************************************************************)
(* Instances of HsmObserved over the files of HsmExamples.                 *)
(***************************************************************************)
EXTENDS HsmObserved, HsmExamples
=============================================================================
