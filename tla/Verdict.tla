------------------------------ MODULE Verdict ------------------------------
(***************************************************************************)
(* What a verdict of the scanner promises its reader, whatever solver,     *)
(* slice or timeout produced it: `verified` means the target really is     *)
(* determined by the fixed inputs, `unsafe` on a target all of whose       *)
(* opcodes were translated (or re-checked) means it really is not, and a   *)
(* verdict is given once.  docs/SOUNDNESS.md states the same contract in   *)
(* words; the code that has to keep it is solve_target in src/src/solver.rs*)
(***************************************************************************)
EXTENDS Circuit

VARIABLES
  circuit,     \* the model whose target is judged
  wire,        \* the target
  status,      \* "pending" or the verdict
  certificate  \* "none" or the status of the certificate

Statuses == {"verified", "unsafe", "unknown", "error"}

Init ==
  /\ circuit \in Models
  /\ wire \in circuit.wires
  /\ status = "pending"
  /\ certificate = "none"

Decide(s) ==
  /\ status = "pending"
  /\ status' = s
  /\ certificate' \in {"none", "certified", "incomplete", "refuted"}
  /\ Justified(circuit, wire, s, certificate')
  /\ UNCHANGED <<circuit, wire>>

Next == \E s \in Statuses : Decide(s)

Spec == Init /\ [][Next]_<<circuit, wire, status, certificate>>
=============================================================================
