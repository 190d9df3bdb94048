------------------------------ MODULE MCRefine ------------------------------
(***************************************************************************)
(* Refine on circuits of Gadgets that refinement can and cannot settle.    *)
(***************************************************************************)
EXTENDS Refine, Gadgets

MCModels == {Squares, FreeAndUnique, Division, ProvedCall, Vacuous}
=============================================================================
