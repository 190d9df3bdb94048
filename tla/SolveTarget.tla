---------------------------- MODULE SolveTarget ----------------------------
(***************************************************************************)
(* solve_target of src/src/solver.rs: one target, decided by short-cut, by *)
(* a relaxed query whose cone is cut at every determined wire, or by the   *)
(* exact query, with the counterexample of the exact query re-checked      *)
(* against ACIR (src/src/dynamic/certify.rs).                              *)
(*                                                                         *)
(* The slicing loop of layered_component is a step per round. The solver   *)
(* is the environment: it may answer UNSAT only when the query has no      *)
(* solution, SAT only with one of its solutions, and it may give up or     *)
(* fail at any time.                                                       *)
(***************************************************************************)
EXTENDS Outcomes

VARIABLES
  m,          \* the model
  target,     \* the wire to decide
  certify,    \* SolverOptions.certify
  pc,         \* "start", "slice", "query", "done"
  depth,      \* 0 or MaxDepth (usize::MAX)
  softCut,    \* determined wires the current round still cuts at
  component,  \* the component of the last round
  isExact,    \* what layered_component returned with it
  queries,    \* queries answered so far
  status,     \* "pending" or the verdict of the report
  decidedBy,  \* "none", "fixed_input", "linear_propagation", "solver"
  certificate \* "none" or the CertificateStatus in the report

vars == <<m, target, certify, pc, depth, softCut, component, isExact, queries,
          status, decidedBy, certificate>>

input == <<m, target, certify>>
slice == <<depth, softCut, component, isExact>>
report == <<status, decidedBy, certificate>>

MaxDepth == 1   \* stands for usize::MAX: any depth but 0 runs to the fixpoint

-----------------------------------------------------------------------------
Init ==
  /\ m \in Models
  /\ target \in {t \in m.wires : Admitted(m, t)}
  /\ certify \in BOOLEAN
  /\ pc = "start"
  /\ depth = 0
  /\ softCut = {}
  /\ component = {}
  /\ isExact = FALSE
  /\ queries = 0
  /\ status = "pending"
  /\ decidedBy = "none"
  /\ certificate = "none"

Report(s, by, c) ==
  /\ pc' = "done"
  /\ status' = s
  /\ decidedBy' = by
  /\ certificate' = c
  /\ UNCHANGED <<input, slice>>

FixedInput ==
  /\ pc = "start"
  /\ target \in m.inputs
  /\ Report("verified", "fixed_input", "none")
  /\ UNCHANGED queries

LinearPropagation ==
  /\ pc = "start"
  /\ target \notin m.inputs
  /\ target \in m.known
  /\ Report("verified", "linear_propagation", "none")
  /\ UNCHANGED queries

(* layered_component is entered with the determined wires as the soft cut. *)
StartSlice(d) ==
  /\ pc' = "slice"
  /\ depth' = d
  /\ softCut' = (m.known \ HardCut(m)) \ {target}
  /\ component' = {}
  /\ isExact' = FALSE
  /\ UNCHANGED <<input, report>>

Begin ==
  /\ pc = "start"
  /\ ~IsTriviallyDetermined(m, target)
  /\ StartSlice(0)
  /\ UNCHANGED queries

(* Mutant: only determined wires already inside the cone. *)
BoundaryInside(md, cone, soft) == soft \cap cone

(* The determined wires on the edge of the cone, admitted in the next round. *)
Boundary(md, cone, soft) ==
  {w \in soft : \E e \in Edges(md) : e \cap cone # {} /\ w \in e}

(* Mutant: every round starts again from the whole determined set. *)
SliceRoundRestart ==
  /\ pc = "slice"
  /\ component' = DependencyComponentCut(m, target, HardCut(m) \cup softCut)
  /\ LET boundary == Boundary(m, component', softCut)
     IN  /\ isExact' = (softCut = {} \/ boundary = {})
         /\ softCut' = (m.known \ {target}) \ boundary
         /\ pc' = IF isExact' \/ depth = 0 THEN "query" ELSE "slice"
  /\ UNCHANGED <<input, depth, queries, report>>

(* One round of the loop: exact when there was nothing left to cut at, or when
   nothing determined touches the cone; otherwise the boundary is admitted,
   and a loop of depth 0 ends there.                                          *)
SliceRound ==
  /\ pc = "slice"
  /\ component' = DependencyComponentCut(m, target, HardCut(m) \cup softCut)
  /\ LET boundary == Boundary(m, component', softCut)
     IN  /\ isExact' = (softCut = {} \/ boundary = {})
         /\ softCut' = softCut \ boundary
         /\ pc' = IF isExact' \/ depth = 0 THEN "query" ELSE "slice"
  /\ UNCHANGED <<input, depth, queries, report>>

-----------------------------------------------------------------------------
(* The answers of the solver to the query of the current slice. *)

Pairs == QueryPairs(m, component, m.known, target)

Answered == pc = "query" /\ queries' = queries + 1

Unsat ==
  /\ Answered
  /\ Pairs = {}
  /\ Report("verified", "solver", "none")

(* Mutant: a counterexample of the relaxed slice is reported as well. *)
SatAnySlice ==
  /\ Answered
  /\ \E p \in Pairs :
       LET c == IF certify THEN Certificate(m, ExactComponent(m, target), target, p) ELSE "none"
       IN  Report(IF c = "refuted" THEN "unknown" ELSE "unsafe", "solver", c)

(* A counterexample on the exact slice: reported unless ACIR refutes it. *)
SatExact ==
  /\ Answered
  /\ isExact
  /\ \E p \in Pairs :
       LET c == IF certify THEN Certificate(m, ExactComponent(m, target), target, p) ELSE "none"
       IN  Report(IF c = "refuted" THEN "unknown" ELSE "unsafe", "solver", c)

UnknownExact ==
  /\ Answered
  /\ isExact
  /\ Report("unknown", "solver", "none")

(* Mutant: the query is repeated on the slice that was too coarse. *)
EscalateNowhere ==
  /\ Answered
  /\ ~isExact
  /\ StartSlice(0)

(* SAT or unknown on a relaxed slice proves nothing: escalate to exact. *)
Escalate ==
  /\ Answered
  /\ ~isExact
  /\ StartSlice(MaxDepth)

(* The backend cannot be created or fails: scan.rs records the error. *)
SolverError ==
  /\ Answered
  /\ Report("error", "none", "none")

Answer == Unsat \/ SatExact \/ UnknownExact \/ Escalate \/ SolverError

Done == pc = "done" /\ UNCHANGED vars

Next == FixedInput \/ LinearPropagation \/ Begin \/ SliceRound \/ Answer \/ Done

Spec == Init /\ [][Next]_vars

(* solve_target is one thread of straight-line code: it is always running, and
   the solver's answer comes back within its time limit.                      *)
FairSpec == Spec /\ WF_vars(Next)

-----------------------------------------------------------------------------
(* Properties *)

CertificateStatuses == {"certified", "refuted", "incomplete"}

(* The type invariant. *)
TypeOK ==
  /\ m \in Models
  /\ target \in m.wires
  /\ certify \in BOOLEAN
  /\ pc \in {"start", "slice", "query", "done"}
  /\ depth \in {0, MaxDepth}
  /\ softCut \subseteq m.known
  /\ component \subseteq m.wires
  /\ isExact \in BOOLEAN
  /\ queries \in 0..2
  /\ status \in {"pending", "verified", "unsafe", "unknown", "error"}
  /\ decidedBy \in {"none", "fixed_input", "linear_propagation", "solver"}
  /\ certificate \in {"none"} \cup CertificateStatuses

V == INSTANCE Verdict WITH circuit <- m, wire <- target

(* `verified` is never wrong: not after a short-cut, not on a relaxed slice,
   not under the determinism abstraction, not with a RANGE dropped (solver.rs
   72-77, translate.rs 627-632).                                             *)
VerifiedUnique == status = "verified" => Unique(m, target)

(* `unsafe` is never an artefact of slicing: when every opcode of the exact
   cone was translated exactly, or re-checked by a certificate, the circuit
   really has two runs that differ on the target, although constraints outside
   the cone were never looked at (certify.rs 9-23).                          *)
UnsafeReal ==
  status = "unsafe" /\ V!Conclusive(m, target, certificate) => ~Unique(m, target)

(* Every level over-approximates: a genuine divergence of the circuit is a
   solution of whatever query is being asked (translate.rs 627-632).         *)
OverApproximates ==
  pc = "query" =>
    \A a, b \in Solutions(m) :
      SameOn(m.inputs, a, b) /\ a[target] # b[target] => <<a, b>> \in Pairs

(* The slice that is called exact is the whole cone of the target, also when
   the loop stops early because nothing determined touches it (translate.rs
   850-853); a certificate is checked on the same cone (solver.rs 214).      *)
ExactIsCone ==
  /\ component \subseteq V!Cone(m, target)
  /\ isExact => component = V!Cone(m, target)

(* Each round of one slicing loop keeps what the round before had: "the
   sequence is monotone" (translate.rs 624-625).                             *)
SliceGrows ==
  [][pc = "slice" => component \subseteq component' /\ softCut' \subseteq softCut]_vars

(* The answer is one of those that module Outcomes lists for the target, from
   the two slices alone: what module Scan takes solve_target to return.       *)
AnswersAsListed ==
  pc = "done" => [status |-> status, cert |-> certificate] \in SolveOutcomes(m, target, certify)

(* A verdict is given once and satisfies the contract of module Verdict. *)
ImplementsVerdict == V!Spec

(* The escalation ends: every target gets its verdict, after at most the two
   queries that TypeOK allows (solver.rs 80-149).                            *)
Terminates == <>(pc = "done")
=============================================================================
