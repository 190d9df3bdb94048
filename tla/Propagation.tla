---------------------------- MODULE Propagation ----------------------------
(***************************************************************************)
(* The two passes that run before any solver: infer_uniqueness of          *)
(* src/src/translate/uniqueness.rs, which determines wires by lemmas, and  *)
(* infer_constant_signals of src/src/translate/known.rs, which folds       *)
(* constants.  Both are `while changed` loops over the opcodes; a step of  *)
(* the specification is one loop body.  What they return is the known and  *)
(* the consts of a model of module Circuit, whose soundness is what every  *)
(* verdict rests on.                                                       *)
(***************************************************************************)
EXTENDS Circuit, Acir, FiniteSetsExt

CONSTANT LemmaSets    \* the values of NOIR_PICUS_LEMMAS under study

Lemmas == {"single", "euclid", "condzero", "blackbox"}
ASSUME LemmaSetsAreLemmas == LemmaSets \subseteq SUBSET Lemmas

(* circuit.opcodes is a vector. *)
ASSUME OpcodesAreListed == \A m \in Models : m.opcodes \in Seq(Ops(m))

(* A product of elements of the field is zero only if one of them is. *)
ASSUME FieldIsPrime ==
  /\ P \in Nat \ {0, 1} /\ Values = Field
  /\ \A x, y \in 1..P-1 : (x * y) % P # 0

(* What ACIR accepts at an AssertZero is a root of its expression, at a RANGE a
   number below its limit, and a black box, AND and XOR among them, is a function. *)
MeansWhatItSays(m, o) ==
  /\ o.type = "AssertZero" =>
       /\ o.mul \in Seq(Field \X m.wires \X m.wires) /\ o.lin \in Seq(Field \X m.wires) /\ o.q \in Field
       /\ o.wires = ExpressionWires(o.mul, o.lin)
       /\ \A a \in Assignments(m) : Holds(o, a) => Evaluate(o.mul, o.lin, o.q, a) = 0
  /\ o.type = "RANGE" =>
       /\ 2^o.bits \in Nat \ {0}
       /\ \A a \in Assignments(m) : Holds(o, a) => \A w \in o.wires : a[w] < 2^o.bits
  /\ o.type \in {"BlackBox", "Bitwise"} => IsFunction(m, o)

ASSUME OpcodesMeanWhatTheySay ==
  \A m \in Models : IsFiniteSet(m.wires) /\ \A o \in Ops(m) : MeansWhatItSays(m, o)

VARIABLES
  circuit,      \* the circuit and its inputs; never changes
  lemmas,       \* LemmaSet::from_env(); never changes
  phase,        \* the loop that runs
  pc,           \* the opcode the loop body looks at
  changed,      \* the loop's flag
  determined, nonzero, bounds,    \* struct Uniqueness
  zeros,        \* conditional_zeros of the running pass
  constants     \* the result of infer_constant_signals

vars == <<circuit, lemmas, phase, pc, changed, determined, nonzero, bounds, zeros, constants>>

-----------------------------------------------------------------------------
(* Expressions.  Terms with a zero coefficient are skipped everywhere. *)

Half == P \div 2
Live(terms) == {i \in DOMAIN terms : terms[i][1] # 0}
Magnitude(c) == IF c > Half THEN P - c ELSE c
IsUnit(c) == c \in {1, P - 1}

IsAssertZero(o) == o.type = "AssertZero"
Factors(o, i) == {o.mul[i][2], o.mul[i][3]}

(* The mul and lin terms that are not fixed once D is, and their wires. *)
OpenMul(o, D) == {i \in Live(o.mul) : ~ Factors(o, i) \subseteq D}
OpenLin(o, D) == {i \in Live(o.lin) : o.lin[i][2] \notin D}

CoefficientOnce(o, w) ==      \* mutant: repeated occurrences do not accumulate
  LET at == {i \in DOMAIN o.lin : o.lin[i][2] = w} IN IF at = {} THEN 0 ELSE o.lin[Min(at)][1]

(* The accumulated linear coefficient of a wire. *)
Coefficients(terms) == [i \in DOMAIN terms |-> terms[i][1]]
Coefficient(o, w) == SumFunctionOnSet(Coefficients(o.lin), {i \in DOMAIN o.lin : o.lin[i][2] = w}) % P

-----------------------------------------------------------------------------
(* Upper bounds. *)

RangeBounds(m) ==
  LET of(w) == {o.bits : o \in {r \in Ops(m) : r.type = "RANGE" /\ w \in r.wires}}
  IN  [w \in {v \in m.wires : of(v) # {}} |-> Min({2^b - 1 : b \in of(w)})]

(* The terms of a linear expression whose coefficient is positive, or negative,
   as a signed integer, and the constant of that side.                        *)
Side(o, positive) == {i \in Live(o.lin) : (o.lin[i][1] <= Half) = positive}
SideConstant(o, positive) == IF (o.q <= Half) = positive THEN Magnitude(o.q) ELSE 0
SideMaximum(o, B, positive) ==
  LET most == [i \in Side(o, positive) |-> Magnitude(o.lin[i][1]) * B[o.lin[i][2]]]
  IN  SideConstant(o, positive) + SumFunction(most)

(* Mutant: the sides may wrap around the field. *)
IsWrappingEquation(o, B) ==
  /\ IsAssertZero(o) /\ o.mul = <<>>
  /\ \A i \in Live(o.lin) : o.lin[i][2] \in DOMAIN B

(* Neither side can reach P, so the congruence is an equation over the integers. *)
IsIntegerEquation(o, B) ==
  /\ IsAssertZero(o) /\ o.mul = <<>>
  /\ \A i \in Live(o.lin) : o.lin[i][2] \in DOMAIN B
  /\ \A s \in BOOLEAN : SideMaximum(o, B, s) < P

HasRoom(o, B, s) == SideMaximum(o, B, ~s) >= SideConstant(o, s)

(* propagate_bounds: every term is bounded by the other side's maximum. *)
Tightened(o, B) ==
  LET room(s) == SideMaximum(o, B, ~s) - SideConstant(o, s)
      at(w, s) == {i \in Side(o, s) : o.lin[i][2] = w /\ HasRoom(o, B, s)}
      new(w) == UNION {{room(s) \div Magnitude(o.lin[i][1]) : i \in at(w, s)} : s \in BOOLEAN}
  IN  IF IsIntegerEquation(o, B) THEN [w \in DOMAIN B |-> Min({B[w]} \cup new(w))] ELSE B

-----------------------------------------------------------------------------
(* The lemmas: the wires each adds, given what is determined (D), known to be
   non-zero (N) and bounded (B).                                              *)

LearnNonzero(o) ==
  IF IsAssertZero(o) /\ Len(o.mul) = 1 /\ o.lin = <<>> /\ o.q # 0 /\ o.mul[1][1] # 0
  THEN Factors(o, 1) ELSE {}

InvertibleIfDetermined(D, N) == D     \* mutant: without the non-zero facts
Invertible(D, N) == D \cap N

(* One occurrence of one unknown, with a coefficient that is a non-zero
   constant or a multiple of a wire known to be non-zero.               *)
SolveSingleUnknown(o, D, N) ==
  IF ~IsAssertZero(o) THEN {}
  ELSE {u \in o.wires \ D :
          \/ /\ OpenMul(o, D) = {}
             /\ \E i \in OpenLin(o, D) : OpenLin(o, D) = {i} /\ o.lin[i][2] = u
          \/ /\ OpenLin(o, D) = {}
             /\ \E i \in OpenMul(o, D), v \in Invertible(D, N) :
                  OpenMul(o, D) = {i} /\ Factors(o, i) = {u, v}}

(* Whether r and q are the remainder and the quotient of a division by c. *)
EuclideanSplit(o, B, r, q) ==
  LET c == Magnitude(Coefficient(o, q))
  IN  /\ IsUnit(Coefficient(o, r)) /\ c >= 2
      /\ {r, q} \subseteq DOMAIN B
      /\ B[r] < c
      /\ c * B[q] + B[r] < P

SolveEuclidean(o, D, B) ==
  IF ~IsAssertZero(o) \/ OpenMul(o, D) # {} THEN {}
  ELSE LET unknowns == {o.lin[i][2] : i \in OpenLin(o, D)}
       IN  IF \E r, q \in unknowns : unknowns = {r, q} /\ r # q /\ EuclideanSplit(o, B, r, q)
           THEN unknowns ELSE {}

ApplyBlackBox(o, D) == IF o.type \in {"BlackBox", "Bitwise"} /\ o.ins \subseteq D THEN o.outs ELSE {}

-----------------------------------------------------------------------------
(* solve_conditional_zero.  A form is linear over determined wires. *)

Form(terms, constant, opaque) ==
  [terms |-> [w \in DOMAIN terms |-> terms[w] % P], constant |-> constant % P, opaque |-> opaque]

ZeroForm(m) == Form([w \in m.wires |-> 0], 0, FALSE)

(* The form that multiplies the unknown u, and the form that is left over. *)
UnknownForm(m, o, D, u) ==
  LET beside(w) == {i \in OpenMul(o, D) : w \in D /\ Factors(o, i) = {u, w}}
      terms == [w \in m.wires |-> SumFunctionOnSet(Coefficients(o.mul), beside(w))]
  IN  Form(terms, Coefficient(o, u), FALSE)

ConstantForm(m, o, D) ==
  Form([w \in m.wires |-> IF w \in D THEN Coefficient(o, w) ELSE 0], o.q, Live(o.mul) # OpenMul(o, D))

(* decompose returns None at a product of two unknowns. *)
Decomposes(o, D) ==
  IsAssertZero(o) /\ \A i \in OpenMul(o, D) : Factors(o, i) \cap D # {}

Unknowns(m, o, D) == {u \in o.wires \ D : UnknownForm(m, o, D, u) # ZeroForm(m)}

(* Whether f = lambda * g for some lambda, g not zero (and neither opaque). *)
IsMultipleOf(m, f, g) ==
  /\ ~f.opaque /\ ~g.opaque /\ g # ZeroForm(m)
  /\ \E lambda \in Field : /\ f.constant = (lambda * g.constant) % P
                           /\ \A w \in m.wires : f.terms[w] = (lambda * g.terms[w]) % P

(* A * u = 0: u with its witnessing form A. *)
ConditionalZeros(m, D) ==
  UNION {{<<u, UnknownForm(m, o, D, u)>> : u \in {v \in m.wires : Unknowns(m, o, D) = {v}}} :
           o \in {p \in Ops(m) : Decomposes(p, D) /\ ConstantForm(m, p, D) = ZeroForm(m)}}

IsConstant(m, f) == f.constant # 0 /\ \A w \in m.wires : f.terms[w] = 0

(* e*u + (multiples of A) + rest = 0, e a non-zero constant, pins u when A = 0. *)
SolveConditionalZero(m, o, D, Z) ==
  IF ~Decomposes(o, D) THEN {}
  ELSE {u \in Unknowns(m, o, D) :
          \E z \in Z :
            /\ z[1] = u
            /\ IsConstant(m, UnknownForm(m, o, D, u))
            /\ \A v \in Unknowns(m, o, D) \ {u} : IsMultipleOf(m, UnknownForm(m, o, D, v), z[2])}

-----------------------------------------------------------------------------
(* known.rs: the value of the one wire without a value, or nothing. *)

FoldConstant(o, C) ==
  LET D == DOMAIN C
      unknowns == {o.lin[i][2] : i \in OpenLin(o, D)}
      values == [i \in Live(o.lin) \ OpenLin(o, D) |-> o.lin[i][1] * C[o.lin[i][2]]]
      products == [i \in Live(o.mul) |-> o.mul[i][1] * C[o.mul[i][2]] * C[o.mul[i][3]]]
      rest == o.q + SumFunction(values) + SumFunction(products)
  IN  IF IsAssertZero(o) /\ OpenMul(o, D) = {}
      THEN {f \in unknowns \X Field : /\ unknowns = {f[1]} /\ Coefficient(o, f[1]) # 0
                                      /\ (Coefficient(o, f[1]) * f[2] + rest) % P = 0}
      ELSE {}

-----------------------------------------------------------------------------
Init ==
  /\ circuit \in Models
  /\ lemmas \in LemmaSets
  /\ phase = "bounds" /\ pc = 1 /\ changed = FALSE
  /\ determined = circuit.inputs
  /\ nonzero = {}
  /\ bounds = RangeBounds(circuit)
  /\ zeros = {}
  /\ constants = << >>

InSweep == pc <= Len(circuit.opcodes)
opcode == circuit.opcodes[pc]

RepeatOnce(loop, next) ==      \* mutant: one sweep
  ~InSweep /\ phase' = next /\ pc' = 1 /\ changed' = FALSE

(* At the end of a sweep: another one if anything changed, else the next loop. *)
Repeat(loop, next) ==
  /\ ~InSweep
  /\ phase' = IF changed THEN loop ELSE next
  /\ pc' = 1
  /\ changed' = FALSE

(* Mutant: an equal bound counts as a change. *)
PropagateBoundsEagerly ==
  /\ phase = "bounds" /\ InSweep
  /\ bounds' = Tightened(opcode, bounds)
  /\ changed' = (changed \/ IsIntegerEquation(opcode, bounds))
  /\ pc' = pc + 1
  /\ UNCHANGED <<circuit, lemmas, phase, determined, nonzero, zeros, constants>>

PropagateBounds ==
  /\ phase = "bounds" /\ InSweep
  /\ bounds' = Tightened(opcode, bounds)
  /\ changed' = (changed \/ bounds' # bounds)
  /\ pc' = pc + 1
  /\ UNCHANGED <<circuit, lemmas, phase, determined, nonzero, zeros, constants>>

EndBoundsSweep ==
  /\ phase = "bounds"
  /\ Repeat("bounds", "lemmas")
  /\ UNCHANGED <<circuit, lemmas, determined, nonzero, bounds, zeros, constants>>

If(lemma, S) == IF lemma \in lemmas THEN S ELSE {}

(* apply: the lemmas of one opcode, each on what the one before it left.
   learn_nonzero is not a lemma NOIR_PICUS_LEMMAS can turn off.           *)
Apply ==
  /\ phase = "lemmas" /\ InSweep
  /\ nonzero' = nonzero \cup LearnNonzero(opcode)
  /\ LET single == determined \cup If("single", SolveSingleUnknown(opcode, determined, nonzero'))
         euclid == single \cup If("euclid", SolveEuclidean(opcode, single, bounds))
     IN  determined' = euclid \cup If("blackbox", ApplyBlackBox(opcode, euclid))
  /\ changed' = (changed \/ <<determined, nonzero>>' # <<determined, nonzero>>)
  /\ pc' = pc + 1
  /\ UNCHANGED <<circuit, lemmas, phase, bounds, zeros, constants>>

(* The candidates are collected once; the pass over the opcodes uses these
   forms although it determines wires as it goes.                           *)
CollectConditionalZeros ==
  /\ phase = "lemmas" /\ ~InSweep
  /\ zeros' = If("condzero", ConditionalZeros(circuit, determined))
  /\ phase' = "condzero"
  /\ pc' = IF zeros' = {} THEN Len(circuit.opcodes) + 1 ELSE 1
  /\ UNCHANGED <<circuit, lemmas, changed, determined, nonzero, bounds, constants>>

ApplyConditionalZero ==
  /\ phase = "condzero" /\ InSweep
  /\ determined' = determined \cup SolveConditionalZero(circuit, opcode, determined, zeros)
  /\ changed' = (changed \/ determined' # determined)
  /\ pc' = pc + 1
  /\ UNCHANGED <<circuit, lemmas, phase, nonzero, bounds, zeros, constants>>

EndLemmaSweep ==
  /\ phase = "condzero"
  /\ Repeat("lemmas", "constants")
  /\ zeros' = {}
  /\ UNCHANGED <<circuit, lemmas, determined, nonzero, bounds, constants>>

FoldConstants ==
  /\ phase = "constants" /\ InSweep
  /\ LET folded == FoldConstant(opcode, constants)
     IN  /\ constants' = [w \in DOMAIN constants \cup {f[1] : f \in folded} |->
                            IF w \in DOMAIN constants THEN constants[w]
                            ELSE (CHOOSE f \in folded : TRUE)[2]]
         /\ changed' = (changed \/ folded # {})
  /\ pc' = pc + 1
  /\ UNCHANGED <<circuit, lemmas, phase, determined, nonzero, bounds, zeros>>

EndConstantsSweep ==
  /\ phase = "constants"
  /\ Repeat("constants", "done")
  /\ UNCHANGED <<circuit, lemmas, determined, nonzero, bounds, zeros, constants>>

Next ==
  \/ PropagateBounds \/ EndBoundsSweep
  \/ Apply \/ CollectConditionalZeros \/ ApplyConditionalZero \/ EndLemmaSweep
  \/ FoldConstants \/ EndConstantsSweep

(* The passes run alone, to their end. *)
Spec == Init /\ [][Next]_vars /\ WF_vars(Next)

(* The model the translator builds from the two results. *)
Result == [circuit EXCEPT !.known = determined, !.consts = constants]

-----------------------------------------------------------------------------
(* Types: the determined and non-zero wires and the domains of the two maps
   are wires of the circuit.                                                 *)
TypeOK ==
  /\ circuit \in Models /\ lemmas \in LemmaSets
  /\ phase \in {"bounds", "lemmas", "condzero", "constants", "done"}
  /\ pc \in 1..Len(circuit.opcodes) + 1
  /\ changed \in BOOLEAN
  /\ determined \subseteq circuit.wires /\ nonzero \subseteq circuit.wires
  /\ bounds \in [DOMAIN bounds -> Nat] /\ DOMAIN bounds \subseteq circuit.wires
  /\ \A z \in zeros : z[1] \in circuit.wires
  /\ constants \in [DOMAIN constants -> Field] /\ DOMAIN constants \subseteq circuit.wires

SolutionsOf == [m \in Models |-> Solutions(m)]
UniqueWires == [m \in Models |-> {w \in m.wires : Unique(m, w)}]

(* Every bound and every non-zero fact that the lemmas divide by, or rule out
   wrap-around with, holds in every run of the circuit (uniqueness.rs:304, 424);
   types included.                                                            *)
FactsHold ==
  /\ TypeOK
  /\ \A a \in SolutionsOf[circuit] :
       /\ \A w \in nonzero : a[w] # 0
       /\ \A w \in DOMAIN bounds : a[w] <= bounds[w]

(* What the two passes hand over is what module Circuit assumes of a model:
   constant wires have their value in every run, and every wire that is called
   determined has, once the fixed inputs are fixed, a single value, whatever
   lemma added it, on whatever stale conditional-zero form (translate.rs:523).  *)
ResultIsSound ==
  phase = "done" =>
    /\ determined \subseteq UniqueWires[circuit]
    /\ \A w \in DOMAIN constants : \A a \in SolutionsOf[circuit] : a[w] = constants[w]

(* One round of every lemma in L adds nothing to S. *)
LemmaClosed(m, L, S, N, B) ==
  \A o \in Ops(m) :
    /\ "single" \in L => SolveSingleUnknown(o, S, N) = {}
    /\ "euclid" \in L => SolveEuclidean(o, S, B) = {}
    /\ "blackbox" \in L => ApplyBlackBox(o, S) \subseteq S
    /\ "condzero" \in L => SolveConditionalZero(m, o, S, ConditionalZeros(m, S)) \subseteq S

(* The loops stop at a fixpoint of the lemmas that are on, although the bounds
   are settled beforehand, a lemma may fire on what a later opcode learns, and
   the conditional-zero forms are a pass old.                                  *)
StopsAtFixpoint ==
  phase = "done" => /\ LemmaClosed(circuit, lemmas, determined, nonzero, bounds)
                    /\ \A o \in Ops(circuit) : /\ LearnNonzero(o) \subseteq nonzero
                                               /\ Tightened(o, bounds) = bounds
                                               /\ FoldConstant(o, constants) = {}

(* The three loops end, also the one over bounds, which can take very many
   sweeps to tighten a bound one unit at a time (uniqueness.rs:112).         *)
Terminates == <>(phase = "done")
=============================================================================
