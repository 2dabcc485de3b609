----------------------------- MODULE MCHsmParser ----------------------------
(***************************************************************************)
(* Instances of HsmParser: every file of up to MaxLines lines over two     *)
(* state names, with bare, dotted and history targets.                     *)
(***************************************************************************)
EXTENDS HsmParser

MCTargets == {<<>>, <<"A">>, <<"A", "B">>, <<"A", "history">>, <<"A", "historyX">>}

MCOnLine == {<<"A">>}
=============================================================================
