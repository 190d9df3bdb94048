--------------------------- MODULE MCSolveTarget ---------------------------
(***************************************************************************)
(* SolveTarget on the circuits of Gadgets.                                 *)
(***************************************************************************)
EXTENDS SolveTarget, Gadgets

MCModels ==
  {Division, IsZero, Root, Chain, HashPinned, HashCollides, Bit, Pin, ProvedCall,
   CurveBeyondInput, Contradiction, DeadElsewhere, Vacuous}
=============================================================================
