------------------------------ MODULE Outcomes ------------------------------
(***************************************************************************)
(* What solve_target (src/src/solver.rs) can return for a target, and the  *)
(* certificate of src/src/dynamic/certify.rs that a counterexample gets.   *)
(* Module SolveTarget computes the same answers step by step; module Scan  *)
(* uses them as one step of the scan.                                      *)
(***************************************************************************)
EXTENDS Circuit

(* check_opcode: the opcode is evaluated on the values of its own wires. *)
Passes(o, a) == Holds(o, a) /\ [w \in o.wires |-> a[w]] \notin o.rejected

FailsAt(o, p) == ~o.evaluable \/ ~Passes(o, p[1]) \/ ~Passes(o, p[2])

(* certify: the shared inputs and the target first, then the opcodes that
   touch the component, in order; the first that does not pass decides.     *)
Certificate(md, cone, t, p) ==
  LET checked == {i \in DOMAIN md.opcodes : Touches(md.opcodes[i], cone)}
      failing == {i \in checked : FailsAt(md.opcodes[i], p)}
      first == CHOOSE i \in failing : \A j \in failing : i <= j
  IN  IF ~SameOn(md.inputs, p[1], p[2]) \/ p[1][t] = p[2][t] THEN "refuted"
      ELSE IF failing # {} THEN IF md.opcodes[first].evaluable THEN "refuted" ELSE "incomplete"
      ELSE IF checked = {} THEN "incomplete"
      ELSE "certified"

(* exact_component: the loop of layered_component run to its fixpoint, which
   cuts at constants only.                                                   *)
ExactComponent(md, t) == DependencyComponentCut(md, t, HardCut(md))

(* scan.rs hands a target to solve_target when it is trivially determined or
   when no untranslated opcode lies in its component.                        *)
Admitted(md, t) ==
  IsTriviallyDetermined(md, t) \/ UnsupportedReasonsForTarget(md, t) = {}

(* layered_component at depth 0: cut at every determined wire. *)
RelaxedComponent(md, t) == DependencyComponentCut(md, t, HardCut(md) \cup (md.known \ {t}))

Outcome(s, c) == [status |-> s, cert |-> c]

(* No counterexample on either slice verifies; one on the exact slice is
   reported unless its certificate refutes it; the solver may always give up
   or fail.                                                                  *)
SolveOutcomes(md, t, certify) ==
  IF IsTriviallyDetermined(md, t) THEN {Outcome("verified", "none")}
  ELSE LET exact == ExactComponent(md, t)
           pairs == QueryPairs(md, exact, md.known, t)
           certificates == {IF certify THEN Certificate(md, exact, t, p) ELSE "none" : p \in pairs}
       IN  {Outcome("unknown", "none"), Outcome("error", "none")}
             \cup {Outcome("verified", "none") :
                      s \in {c \in {exact, RelaxedComponent(md, t)} : QueryPairs(md, c, md.known, t) = {}}}
             \cup {Outcome(IF c = "refuted" THEN "unknown" ELSE "unsafe", c) : c \in certificates}
=============================================================================
