-------------------------- MODULE SolveTargetProofs --------------------------
(***************************************************************************)
(* Safety of solve_target for every field, every set of well-formed        *)
(* circuits with a sound propagation result, and every slicing. The        *)
(* argument has three parts: the slicing loop ends on the whole cone when  *)
(* it says "exact" (SliceInv), the query loses no divergence, and what the *)
(* exact slice finds is there (module CircuitTheorems).                    *)
(***************************************************************************)
EXTENDS SolveTarget, CircuitTheorems

Cut == HardCut(m) \cup softCut

(* What the slicing loop keeps: the soft cut holds determined wires other than
   the target; the component of the last round lies inside the one the current
   cut would give, and that inside the exact cone; a slice called exact is the
   cone.                                                                      *)
SliceInv ==
  /\ softCut \subseteq m.known \ {target}
  /\ component \subseteq ExactComponent(m, target)
  /\ pc = "slice" => component \subseteq DependencyComponentCut(m, target, Cut)
  /\ isExact => component = ExactComponent(m, target)

(* What a report says once it is given. *)
ReportInv ==
  /\ pc \in {"start", "slice", "query"} =>
       status = "pending" /\ certificate = "none"
  /\ pc = "done" => status # "pending"
  /\ VerifiedUnique
  /\ UnsafeReal

(* At most one query per depth. *)
QueriesInv ==
  /\ pc = "start" => queries = 0
  /\ pc \in {"slice", "query"} => queries = IF depth = 0 THEN 0 ELSE 1
  /\ depth = MaxDepth /\ pc = "query" => isExact

IInv == TypeOK /\ SliceInv /\ QueriesInv /\ ReportInv

(* A model of the run is as ModelsWellFormed and ModelsSound assume it. *)
LEMMA ModelFacts ==
  ASSUME TypeOK
  PROVE  WellFormed(m) /\ SoundModel(m) /\ m \in Models /\ target \in m.wires
BY ModelsWellFormed, ModelsSound DEF TypeOK

(* A larger cut gives a smaller component. *)
LEMMA CutAntitone ==
  ASSUME NEW md, WellFormed(md), NEW t \in md.wires,
         NEW small, NEW large, small \subseteq large, t \notin large \ small
  PROVE  DependencyComponentCut(md, t, large) \subseteq DependencyComponentCut(md, t, small)
<1> DEFINE C == DependencyComponentCut(md, t, small)
<1>1. CASE t \in small
  <2>1. t \in large
    BY <1>1
  <2> QED BY <1>1, <2>1 DEF DependencyComponentCut
<1>2. CASE t \notin small
  <2>1. t \notin large
    BY <1>2
  <2>2. C \subseteq md.wires /\ t \in C /\ Closed(md, C, small)
    BY <1>2, ComponentFacts
  <2>3. Closed(md, C, large)
    BY <2>2 DEF Closed
  <2> QED BY <2>1, <2>2, <2>3, ComponentLeast
<1> QED BY <1>1, <1>2

(* When no determined wire touches the component of a round, the component is
   the exact one: there was nothing the soft cut kept out.                    *)
LEMMA NoBoundaryIsExact ==
  ASSUME NEW md, WellFormed(md), NEW t \in md.wires, NEW soft, t \notin soft,
         NEW C, C = DependencyComponentCut(md, t, HardCut(md) \cup soft),
         soft = {} \/ Boundary(md, C, soft) = {}
  PROVE  C = ExactComponent(md, t)
<1>1. C \subseteq ExactComponent(md, t)
  BY CutAntitone DEF ExactComponent
<1>2. CASE soft = {}
  <2>1. HardCut(md) \cup soft = HardCut(md)
    BY <1>2
  <2> QED BY <2>1 DEF ExactComponent
<1>3. CASE t \in HardCut(md)
  BY <1>3 DEF ExactComponent, DependencyComponentCut
<1>4. CASE t \notin HardCut(md) /\ Boundary(md, C, soft) = {}
  <2>1. C \subseteq md.wires /\ t \in C /\ Closed(md, C, HardCut(md) \cup soft)
    BY <1>4, ComponentFacts
  <2>2. Closed(md, C, HardCut(md))
    <3> SUFFICES ASSUME NEW e \in Edges(md), e \cap C # {}, NEW v \in e \ HardCut(md)
                 PROVE  v \in C
      BY DEF Closed
    <3>1. v \notin soft
      BY <1>4 DEF Boundary
    <3> QED BY <2>1, <3>1 DEF Closed
  <2>3. ExactComponent(md, t) \subseteq C
    BY <1>4, <2>1, <2>2, ComponentLeast DEF ExactComponent
  <2> QED BY <1>1, <2>3
<1> QED BY <1>2, <1>3, <1>4

(* UNSAT is believed on any slice: the divergence would have solved it. *)
LEMMA UnsatSound ==
  ASSUME TypeOK, Pairs = {}
  PROVE  Unique(m, target)
BY ModelFacts, UnsatIsUnique DEF Pairs, SoundModel

(* SAT is believed on the exact slice: a counterexample whose opcodes were all
   translated or certified is completed to two runs of the circuit.           *)
LEMMA SatSound ==
  ASSUME TypeOK, SliceInv, isExact, NEW p \in Pairs, NEW c,
         c = IF certify THEN Certificate(m, ExactComponent(m, target), target, p) ELSE "none",
         V!Conclusive(m, target, c)
  PROVE  ~Unique(m, target)
<1> DEFINE C == ExactComponent(m, target)
<1>1. WellFormed(m) /\ SoundModel(m) /\ target \in m.wires
  BY ModelFacts
<1>2. component = C /\ V!Cone(m, target) = C
  BY DEF SliceInv, V!Cone, ExactComponent, V!DependencyComponentCut, DependencyComponentCut,
         V!Closed, Closed, V!Edges, Edges, V!Ops, Ops, V!HardCut, HardCut
<1>3. PICK a, b : p = <<a, b>>
  BY DEF Pairs, QueryPairs
<1>4. ASSUME c = "certified", NEW o \in Ops(m), Touches(o, C)
      PROVE  Holds(o, a) /\ Holds(o, b)
  <2>1. PICK i \in DOMAIN m.opcodes : o = m.opcodes[i]
    BY <1>4 DEF Ops
  <2>2. c = Certificate(m, C, target, p)
    BY <1>4
  <2>3. ~FailsAt(o, p)
    <3> DEFINE checked == {j \in DOMAIN m.opcodes : Touches(m.opcodes[j], C)}
               failing == {j \in checked : FailsAt(m.opcodes[j], p)}
    <3>1. failing = {}
      BY <1>4, <2>2 DEF Certificate
    <3> QED BY <1>4, <2>1, <3>1
  <2> QED BY <1>3, <2>3 DEF FailsAt, Passes
<1>5. \A o \in Ops(m) : Touches(o, C) =>
        \/ Treatment(m, o) \in {"exact", "hint"}
        \/ /\ Treatment(m, o) \in {"functional", "dropped"}
           /\ Holds(o, a) /\ Holds(o, b)
  BY <1>2, <1>4 DEF V!Conclusive, V!Ops, Ops, V!Touches, Touches, V!Treatment, Treatment
<1>6. Solutions(m) # {} /\ target \notin HardCut(m)
  BY DEF V!Conclusive, V!Solutions, Solutions, V!HardCut, HardCut, V!Ops, Ops,
         V!Assignments, Assignments
<1>7. <<a, b>> \in QueryPairs(m, C, m.known, target)
  BY <1>2, <1>3 DEF Pairs
<1> QED BY <1>1, <1>5, <1>6, <1>7, ExactSliceIsReal DEF ExactComponent

-----------------------------------------------------------------------------
(* The inductive step: what each action leaves behind. *)

(* The first report and the first slice. *)
LEMMA InitInv == Init => IInv
<1> SUFFICES ASSUME Init PROVE IInv
  OBVIOUS
<1>1. TypeOK
  <2>1. queries \in 0..2 /\ depth \in {0, MaxDepth}
    BY DEF Init
  <2>2. isExact \in BOOLEAN /\ certify \in BOOLEAN
    BY DEF Init
  <2>3. m \in Models /\ target \in m.wires
    BY DEF Init
  <2>4. softCut \subseteq m.known /\ component \subseteq m.wires
    BY DEF Init
  <2> QED BY <2>1, <2>2, <2>3, <2>4 DEF Init, TypeOK
<1>2. SliceInv /\ QueriesInv /\ ReportInv
  BY <1>1 DEF Init, SliceInv, QueriesInv, ReportInv, VerifiedUnique, UnsafeReal, MaxDepth
<1> QED BY <1>1, <1>2 DEF IInv

(* A report that ends the run from the query keeps the slice and the counts. *)
LEMMA ReportKeepsSlice ==
  ASSUME IInv, NEW s \in {"verified", "unsafe", "unknown", "error"},
         NEW by \in {"none", "fixed_input", "linear_propagation", "solver"},
         NEW c \in {"none"} \cup CertificateStatuses, Report(s, by, c),
         queries' \in 0..2
  PROVE  TypeOK' /\ SliceInv' /\ QueriesInv'
<1>1. TypeOK'
  BY DEF IInv, TypeOK, Report, input, slice
<1>2. SliceInv'
  <2>1. UNCHANGED <<m, target, softCut, component, isExact>> /\ pc' = "done"
    BY DEF Report, input, slice
  <2> QED BY <2>1 DEF IInv, SliceInv, ExactComponent
<1>3. QueriesInv'
  BY DEF QueriesInv, Report
<1> QED BY <1>1, <1>2, <1>3

(* A certificate has one of its three statuses. *)
LEMMA CertificateType ==
  ASSUME NEW md, NEW cone, NEW t, NEW p
  PROVE  Certificate(md, cone, t, p) \in CertificateStatuses
BY DEF Certificate, CertificateStatuses

LEMMA FixedInputInv == IInv /\ FixedInput => IInv'
<1> SUFFICES ASSUME IInv, FixedInput PROVE IInv'
  OBVIOUS
<1>1. Report("verified", "fixed_input", "none") /\ queries' \in 0..2
  BY DEF FixedInput, IInv, TypeOK
<1>2. TypeOK' /\ SliceInv' /\ QueriesInv'
  BY <1>1, ReportKeepsSlice DEF CertificateStatuses
<1>3. Unique(m, target)
  BY DEF Unique, SameOn, FixedInput
<1>4. ReportInv'
  BY <1>1, <1>3 DEF ReportInv, VerifiedUnique, UnsafeReal, Report, input
<1> QED BY <1>2, <1>4 DEF IInv

LEMMA LinearPropagationInv == IInv /\ LinearPropagation => IInv'
<1> SUFFICES ASSUME IInv, LinearPropagation PROVE IInv'
  OBVIOUS
<1>1. Report("verified", "linear_propagation", "none") /\ queries' \in 0..2
  BY DEF LinearPropagation, IInv, TypeOK
<1>2. TypeOK' /\ SliceInv' /\ QueriesInv'
  BY <1>1, ReportKeepsSlice DEF CertificateStatuses
<1>3. Unique(m, target)
  BY ModelFacts DEF SoundModel, LinearPropagation, IInv
<1>4. ReportInv'
  BY <1>1, <1>3 DEF ReportInv, VerifiedUnique, UnsafeReal, Report, input
<1> QED BY <1>2, <1>4 DEF IInv

(* A slicing loop starts with an empty cone and the determined wires cut. *)
LEMMA StartSliceInv ==
  ASSUME IInv, NEW d \in {0, MaxDepth}, StartSlice(d),
         pc # "done", queries' = IF d = 0 THEN 0 ELSE 1
  PROVE  IInv'
<1>1. TypeOK'
  <2>1. queries' \in 0..2 /\ depth' \in {0, MaxDepth}
    BY DEF StartSlice
  <2>2. isExact' \in BOOLEAN
    BY DEF StartSlice
  <2>3. softCut' \subseteq m.known /\ component' \subseteq m.wires
    BY DEF StartSlice
  <2>4. UNCHANGED <<m, target, certify, status, decidedBy, certificate>> /\ pc' = "slice"
    BY DEF StartSlice, input, report
  <2> QED BY <2>1, <2>2, <2>3, <2>4 DEF IInv, TypeOK
<1>2. SliceInv'
  BY DEF IInv, SliceInv, StartSlice, input
<1>3. QueriesInv'
  BY DEF QueriesInv, StartSlice, MaxDepth
<1>4. ReportInv'
  <2>1. status = "pending" /\ certificate = "none"
    BY DEF IInv, ReportInv, TypeOK
  <2> QED BY <2>1 DEF ReportInv, VerifiedUnique, UnsafeReal, StartSlice, report
<1> QED BY <1>1, <1>2, <1>3, <1>4 DEF IInv

LEMMA BeginInv == IInv /\ Begin => IInv'
BY StartSliceInv DEF Begin, IInv, QueriesInv, MaxDepth

(* One round of layered_component. *)
LEMMA SliceRoundInv == IInv /\ SliceRound => IInv'
<1> SUFFICES ASSUME IInv, SliceRound PROVE IInv'
  OBVIOUS
<1> DEFINE boundary == Boundary(m, component', softCut)
<1>1. /\ pc = "slice"
      /\ component' = DependencyComponentCut(m, target, Cut)
      /\ isExact' = (softCut = {} \/ boundary = {})
      /\ softCut' = softCut \ boundary
      /\ pc' = IF isExact' \/ depth = 0 THEN "query" ELSE "slice"
      /\ UNCHANGED <<m, target, certify, depth, queries, status, decidedBy, certificate>>
  BY DEF SliceRound, input, report, Cut
<1>2. WellFormed(m) /\ target \in m.wires
  BY ModelFacts DEF IInv
<1>3. target \notin softCut
  BY DEF IInv, SliceInv
<1>4. component' \subseteq m.wires
  BY <1>1 DEF DependencyComponentCut
<1>5. TypeOK'
  BY <1>1, <1>4 DEF IInv, TypeOK
<1>6. SliceInv'
  <2>1. softCut' \subseteq m.known \ {target}
    BY <1>1 DEF IInv, SliceInv
  <2>2. component' \subseteq ExactComponent(m, target)
    BY <1>1, <1>2, <1>3, CutAntitone DEF ExactComponent, Cut
  <2>3. component' \subseteq DependencyComponentCut(m, target, HardCut(m) \cup softCut')
    BY <1>1, <1>2, <1>3, CutAntitone DEF Cut
  <2>4. isExact' => component' = ExactComponent(m, target)
    BY <1>1, <1>2, <1>3, NoBoundaryIsExact DEF Cut
  <2> QED BY <1>1, <2>1, <2>2, <2>3, <2>4 DEF SliceInv, Cut
<1>7. QueriesInv'
  BY <1>1 DEF IInv, QueriesInv, TypeOK, MaxDepth
<1>8. ReportInv'
  BY <1>1 DEF IInv, ReportInv, VerifiedUnique, UnsafeReal
<1> QED BY <1>5, <1>6, <1>7, <1>8 DEF IInv

(* The answers. *)
LEMMA UnsatInv == IInv /\ Unsat => IInv'
<1> SUFFICES ASSUME IInv, Unsat PROVE IInv'
  OBVIOUS
<1>1. Report("verified", "solver", "none") /\ queries' \in 0..2
  BY DEF Unsat, Answered, IInv, TypeOK, QueriesInv, MaxDepth
<1>2. TypeOK' /\ SliceInv' /\ QueriesInv'
  BY <1>1, ReportKeepsSlice DEF CertificateStatuses
<1>3. Unique(m, target)
  BY UnsatSound DEF Unsat, IInv
<1>4. ReportInv'
  BY <1>1, <1>3 DEF ReportInv, VerifiedUnique, UnsafeReal, Report, input
<1> QED BY <1>2, <1>4 DEF IInv

LEMMA SatExactInv == IInv /\ SatExact => IInv'
<1> SUFFICES ASSUME IInv, SatExact PROVE IInv'
  OBVIOUS
<1>1. PICK p \in Pairs :
        LET c == IF certify THEN Certificate(m, ExactComponent(m, target), target, p) ELSE "none"
        IN  Report(IF c = "refuted" THEN "unknown" ELSE "unsafe", "solver", c)
  BY DEF SatExact
<1> DEFINE c == IF certify THEN Certificate(m, ExactComponent(m, target), target, p) ELSE "none"
           s == IF c = "refuted" THEN "unknown" ELSE "unsafe"
<1>2. c \in {"none"} \cup CertificateStatuses
  BY CertificateType
<1>3. queries' \in 0..2
  BY DEF SatExact, Answered, IInv, TypeOK, QueriesInv, MaxDepth
<1>4. Report(s, "solver", c)
  BY <1>1
<1>5. TypeOK' /\ SliceInv' /\ QueriesInv'
  <2> HIDE DEF c
  <2> QED BY <1>2, <1>3, <1>4, ReportKeepsSlice
<1>6. V!Conclusive(m, target, c) => ~Unique(m, target)
  BY SatSound DEF IInv, SatExact
<1>7. ReportInv'
  <2> HIDE DEF c
  <2> QED BY <1>4, <1>6 DEF ReportInv, VerifiedUnique, UnsafeReal, Report, input
<1> QED BY <1>5, <1>7 DEF IInv

LEMMA GiveUpInv ==
  ASSUME IInv, NEW s \in {"unknown", "error"}, NEW by \in {"none", "solver"},
         Answered, Report(s, by, "none")
  PROVE  IInv'
<1>1. queries' \in 0..2
  BY DEF Answered, IInv, TypeOK, QueriesInv, MaxDepth
<1>2. TypeOK' /\ SliceInv' /\ QueriesInv'
  BY <1>1, ReportKeepsSlice DEF CertificateStatuses
<1>3. ReportInv'
  BY DEF ReportInv, VerifiedUnique, UnsafeReal, Report
<1> QED BY <1>2, <1>3 DEF IInv

LEMMA EscalateInv == IInv /\ Escalate => IInv'
<1> SUFFICES ASSUME IInv, Escalate PROVE IInv'
  OBVIOUS
<1>1. pc = "query" /\ ~isExact /\ queries' = queries + 1 /\ StartSlice(MaxDepth)
  BY DEF Escalate, Answered
<1>2. queries' = 1
  BY <1>1 DEF IInv, QueriesInv, TypeOK, MaxDepth
<1> QED BY <1>1, <1>2, StartSliceInv DEF MaxDepth

(* Nothing moves in a stuttering step. *)
LEMMA StutterInv == IInv /\ UNCHANGED vars => IInv'
<1> SUFFICES ASSUME IInv, UNCHANGED vars PROVE IInv'
  OBVIOUS
<1>1. UNCHANGED <<m, target, certify, pc, depth, softCut, component, isExact, queries,
                  status, decidedBy, certificate>>
  BY DEF vars
<1> QED BY <1>1 DEF IInv, TypeOK, SliceInv, Cut, QueriesInv, ReportInv, VerifiedUnique, UnsafeReal

LEMMA NextInv == IInv /\ [Next]_vars => IInv'
<1> SUFFICES ASSUME IInv, [Next]_vars PROVE IInv'
  OBVIOUS
<1>1. CASE FixedInput
  BY <1>1, FixedInputInv
<1>2. CASE LinearPropagation
  BY <1>2, LinearPropagationInv
<1>3. CASE Begin
  BY <1>3, BeginInv
<1>4. CASE SliceRound
  BY <1>4, SliceRoundInv
<1>5. CASE Unsat
  BY <1>5, UnsatInv
<1>6. CASE SatExact
  BY <1>6, SatExactInv
<1>7. CASE UnknownExact
  BY <1>7, GiveUpInv DEF UnknownExact
<1>8. CASE Escalate
  BY <1>8, EscalateInv
<1>9. CASE SolverError
  BY <1>9, GiveUpInv DEF SolverError
<1>10. CASE Done \/ UNCHANGED vars
  BY <1>10, StutterInv DEF Done
<1> QED BY <1>1, <1>2, <1>3, <1>4, <1>5, <1>6, <1>7, <1>8, <1>9, <1>10 DEF Next, Answer

-----------------------------------------------------------------------------
(* The theorems of the specification. *)

(* The inductive invariant. *)
THEOREM SpecInv == Spec => []IInv
BY InitInv, NextInv, PTL DEF Spec

(* Types, with at most two queries per target. *)
THEOREM TypeCorrect == Spec => []TypeOK
<1>1. IInv => TypeOK
  BY DEF IInv
<1> QED BY <1>1, SpecInv, PTL

(* A `verified` report is never wrong. *)
THEOREM VerifiedIsUnique == Spec => []VerifiedUnique
<1>1. IInv => VerifiedUnique
  BY DEF IInv, ReportInv
<1> QED BY <1>1, SpecInv, PTL

(* An `unsafe` report whose cone was translated or certified is never wrong. *)
THEOREM UnsafeIsReal == Spec => []UnsafeReal
<1>1. IInv => UnsafeReal
  BY DEF IInv, ReportInv
<1> QED BY <1>1, SpecInv, PTL

(* No query of the loop loses a divergence. *)
THEOREM QueriesOverApproximate == Spec => []OverApproximates
<1>1. IInv => OverApproximates
  BY ModelFacts, QueryOverApproximates DEF IInv, OverApproximates, Pairs, SoundModel
<1> QED BY <1>1, SpecInv, PTL

(* The slice called exact is the whole cone. *)
THEOREM ExactSliceIsCone == Spec => []ExactIsCone
<1>1. V!Cone(m, target) = ExactComponent(m, target)
  BY DEF V!Cone, ExactComponent, V!DependencyComponentCut, DependencyComponentCut,
         V!Closed, Closed, V!Edges, Edges, V!Ops, Ops, V!HardCut, HardCut
<1>2. IInv => ExactIsCone
  BY <1>1 DEF IInv, SliceInv, ExactIsCone
<1> QED BY <1>2, SpecInv, PTL

(* The slices of one loop grow, and its soft cut shrinks. *)
THEOREM SlicesGrow == Spec => SliceGrows
<1>1. IInv /\ [Next]_vars => [pc = "slice" => component \subseteq component' /\ softCut' \subseteq softCut]_vars
  <2> SUFFICES ASSUME IInv, Next, pc = "slice"
               PROVE  component \subseteq component' /\ softCut' \subseteq softCut
    OBVIOUS
  <2>1. SliceRound
    BY DEF Next, FixedInput, LinearPropagation, Begin, Answer, Unsat, SatExact, UnknownExact,
           Escalate, SolverError, Answered, Done
  <2> QED BY <2>1 DEF SliceRound, IInv, SliceInv, Cut
<1> QED BY <1>1, SpecInv, PTL DEF Spec, SliceGrows

-----------------------------------------------------------------------------
(* solve_target implements the contract of module Verdict. *)

(* The contract speaks of the same circuits. *)
LEMMA SameUnique ==
  ASSUME NEW md, NEW t
  PROVE  V!Unique(md, t) <=> Unique(md, t)
BY DEF V!Unique, Unique, V!Solutions, Solutions, V!Assignments, Assignments, V!Ops, Ops,
       V!SameOn, SameOn

(* Every step of the code is one decision, or is not seen at all. *)
LEMMA StepRefines ==
  ASSUME IInv, IInv', [Next]_vars
  PROVE  V!Next \/ UNCHANGED <<m, target, status, certificate>>
<1>1. ASSUME pc # "done", pc' = "done", UNCHANGED <<m, target>>
      PROVE  V!Next
  <2>1. status = "pending" /\ status' \in V!Statuses
    BY <1>1 DEF IInv, TypeOK, ReportInv, V!Statuses
  <2>2. certificate' \in {"none", "certified", "incomplete", "refuted"}
    BY DEF IInv, TypeOK, CertificateStatuses
  <2>3. V!Justified(m, target, status', certificate')
    <3>1. status' = "verified" => Unique(m, target)
      BY <1>1 DEF IInv, ReportInv, VerifiedUnique
    <3>2. status' = "unsafe" /\ V!Conclusive(m, target, certificate') => ~Unique(m, target)
      BY <1>1 DEF IInv, ReportInv, UnsafeReal
    <3> QED BY <3>1, <3>2, SameUnique DEF V!Justified
  <2>4. V!Decide(status')
    BY <1>1, <2>1, <2>2, <2>3 DEF V!Decide
  <2> QED BY <2>1, <2>4 DEF V!Next
<1>2. CASE FixedInput \/ LinearPropagation
  <2>1. pc = "start" /\ pc' = "done" /\ UNCHANGED <<m, target>>
    BY <1>2 DEF FixedInput, LinearPropagation, Report, input
  <2> QED BY <1>1, <2>1
<1>3. CASE Unsat \/ SatExact \/ UnknownExact \/ SolverError
  <2>1. pc = "query" /\ pc' = "done" /\ UNCHANGED <<m, target>>
    BY <1>3 DEF Unsat, SatExact, UnknownExact, SolverError, Answered, Report, input
  <2> QED BY <1>1, <2>1
<1>4. CASE Begin \/ SliceRound \/ Escalate
  BY <1>4 DEF Begin, SliceRound, Escalate, StartSlice, input, report
<1>5. CASE Done \/ UNCHANGED vars
  BY <1>5 DEF Done, vars
<1> QED BY <1>2, <1>3, <1>4, <1>5 DEF Next, Answer

(* The code implements the contract: one verdict per target, and justified. *)
THEOREM SolverImplementsVerdict == Spec => ImplementsVerdict
<1>1. Init => V!Init
  BY DEF Init, V!Init
<1>2. IInv /\ IInv' /\ [Next]_vars => [V!Next]_<<m, target, status, certificate>>
  BY StepRefines
<1> QED BY <1>1, <1>2, SpecInv, PTL DEF Spec, V!Spec, ImplementsVerdict

-----------------------------------------------------------------------------
(* The answers are those module Outcomes lists, which is what module Scan takes
   one target to cost. The list names the two slices; the loop must end on one
   of them.                                                                    *)

ListedInv ==
  /\ pc \in {"slice", "query"} => ~IsTriviallyDetermined(m, target)
  /\ pc = "slice" /\ depth = 0 => softCut = (m.known \ HardCut(m)) \ {target}
  /\ pc = "query" => component \in {ExactComponent(m, target), RelaxedComponent(m, target)}
  /\ AnswersAsListed

(* A step that ends the run with a listed answer keeps the list. *)
LEMMA ReportIsListed ==
  ASSUME NEW s, NEW by, NEW c, Report(s, by, c), Outcome(s, c) \in SolveOutcomes(m, target, certify)
  PROVE  ListedInv'
<1>1. pc' = "done" /\ status' = s /\ certificate' = c /\ UNCHANGED <<m, target, certify>>
  BY DEF Report, input
<1>2. [status |-> status', cert |-> certificate'] \in SolveOutcomes(m', target', certify')
  BY <1>1 DEF Outcome
<1> QED BY <1>1, <1>2 DEF ListedInv, AnswersAsListed

(* The answers to a query of either slice. *)
LEMMA QueryAnswersListed ==
  ASSUME ~IsTriviallyDetermined(m, target)
  PROVE  /\ Outcome("unknown", "none") \in SolveOutcomes(m, target, certify)
         /\ Outcome("error", "none") \in SolveOutcomes(m, target, certify)
         /\ \A slice_ \in {ExactComponent(m, target), RelaxedComponent(m, target)} :
              QueryPairs(m, slice_, m.known, target) = {} =>
                Outcome("verified", "none") \in SolveOutcomes(m, target, certify)
         /\ \A p \in QueryPairs(m, ExactComponent(m, target), m.known, target) :
              LET c == IF certify THEN Certificate(m, ExactComponent(m, target), target, p) ELSE "none"
              IN  Outcome(IF c = "refuted" THEN "unknown" ELSE "unsafe", c)
                    \in SolveOutcomes(m, target, certify)
BY Zenon DEF SolveOutcomes

LEMMA ListedNext == IInv /\ ListedInv /\ [Next]_vars => ListedInv'
<1> SUFFICES ASSUME IInv, ListedInv, [Next]_vars PROVE ListedInv'
  OBVIOUS
<1>1. CASE FixedInput \/ LinearPropagation
  <2>1. IsTriviallyDetermined(m, target) /\ \E by : Report("verified", by, "none")
    BY <1>1 DEF FixedInput, LinearPropagation, IsTriviallyDetermined
  <2>2. Outcome("verified", "none") \in SolveOutcomes(m, target, certify)
    BY <2>1 DEF SolveOutcomes
  <2> QED BY <2>1, <2>2, ReportIsListed
<1>2. CASE Begin \/ Escalate
  <2>1. /\ ~IsTriviallyDetermined(m, target) /\ pc' = "slice"
        /\ softCut' = (m.known \ HardCut(m)) \ {target} /\ UNCHANGED <<m, target>>
    BY <1>2 DEF ListedInv, Begin, Escalate, Answered, StartSlice, input
  <2> QED BY <2>1 DEF ListedInv, AnswersAsListed, IsTriviallyDetermined
<1>3. CASE SliceRound
  <2>1. /\ pc = "slice" /\ component' = DependencyComponentCut(m, target, HardCut(m) \cup softCut)
        /\ pc' = IF isExact' \/ depth = 0 THEN "query" ELSE "slice"
        /\ UNCHANGED <<m, target, depth>>
    BY <1>3 DEF SliceRound, input
  <2>2. isExact' => component' = ExactComponent(m, target)
    BY <1>3, <2>1, NextInv DEF IInv, SliceInv, ExactComponent
  <2>3. depth = 0 => component' = RelaxedComponent(m, target)
    <3> SUFFICES ASSUME depth = 0
                 PROVE  component' = RelaxedComponent(m, target)
      OBVIOUS
    <3>1. HardCut(m) \cup softCut = HardCut(m) \cup (m.known \ {target})
      <4>1. softCut = (m.known \ HardCut(m)) \ {target}
        BY <2>1 DEF ListedInv
      <4>2. HardCut(m) \cup ((m.known \ HardCut(m)) \ {target}) = HardCut(m) \cup (m.known \ {target})
        OBVIOUS
      <4> QED BY <4>1, <4>2
    <3> QED BY <2>1, <3>1 DEF RelaxedComponent
  <2>4. pc' = "slice" => depth' # 0
    BY <2>1
  <2>5. pc' \in {"slice", "query"}
    BY <2>1
  <2> QED BY <2>1, <2>2, <2>3, <2>4, <2>5
       DEF ListedInv, AnswersAsListed, IsTriviallyDetermined, ExactComponent, RelaxedComponent
<1>4. CASE Unsat \/ UnknownExact \/ SolverError
  <2>1. pc = "query" /\ ~IsTriviallyDetermined(m, target)
    BY <1>4 DEF ListedInv, Unsat, UnknownExact, SolverError, Answered
  <2>2. CASE Unsat
    BY <2>1, <2>2, ReportIsListed, QueryAnswersListed DEF Unsat, Pairs, ListedInv
  <2>3. CASE UnknownExact \/ SolverError
    BY <2>1, <2>3, ReportIsListed, QueryAnswersListed DEF UnknownExact, SolverError
  <2> QED BY <1>4, <2>2, <2>3
<1>5. CASE SatExact
  <2>1. pc = "query" /\ isExact /\ ~IsTriviallyDetermined(m, target)
    BY <1>5 DEF ListedInv, SatExact, Answered
  <2>2. PICK p \in Pairs :
          LET c == IF certify THEN Certificate(m, ExactComponent(m, target), target, p) ELSE "none"
          IN  Report(IF c = "refuted" THEN "unknown" ELSE "unsafe", "solver", c)
    BY <1>5 DEF SatExact
  <2>3. p \in QueryPairs(m, ExactComponent(m, target), m.known, target)
    BY <2>1 DEF Pairs, IInv, SliceInv
  <2> QED BY <2>1, <2>2, <2>3, ReportIsListed, QueryAnswersListed
<1>6. CASE Done \/ UNCHANGED vars
  BY <1>6 DEF Done, vars, ListedInv, AnswersAsListed, IsTriviallyDetermined
<1> QED BY <1>1, <1>2, <1>3, <1>4, <1>5, <1>6 DEF Next, Answer

(* What module Scan takes for one step is what the step-by-step solver does. *)
THEOREM AnswersAreListed == Spec => []AnswersAsListed
<1>1. Init => ListedInv
  BY DEF Init, ListedInv, AnswersAsListed
<1>2. ListedInv => AnswersAsListed
  BY DEF ListedInv
<1> QED BY <1>1, <1>2, ListedNext, SpecInv, PTL DEF Spec
=============================================================================
