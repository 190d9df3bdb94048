------------------------------ MODULE Unpinned ------------------------------
(***************************************************************************)
(* The `unpinned` command (src/src/commands/unpinned.rs): which hints can   *)
(* nothing in the circuit pin?  It takes the wires that propagation         *)
(* determines (module Propagation), extends them with rules of its own      *)
(* (refine_determined of src/src/dynamic/explain.rs), and explains every    *)
(* hint left over by the opcodes that mention it.                           *)
(*                                                                         *)
(* The circuits are those of AcirCheck: they have memory, and their hints   *)
(* and returns are known.  A step is the body of a loop for one opcode.     *)
(***************************************************************************)
EXTENDS AcirCheck, SequencesExt

CONSTANTS
  Circuits,
  SmallBits,        \* the width of small_value
  DeriveRounds      \* how often derived_bounds goes over the opcodes

VARIABLES
  circuit, includeBits,    \* the circuit, --include-bits; they never change
  phase, pc,               \* the loop that runs, and the opcode it looks at
  round,                   \* the rounds of derived_bounds
  boundsBefore, before,    \* what a loop over the bounds, or over a set of wires, compares with
  bounds, nonzero,
  determined, gadgets,     \* gadgets: the <<flag, inverse>> pairs found so far
  reached,                 \* reachable_from_outputs
  candidates               \* the reported hints, with their verdict

facts == <<bounds, nonzero>>
vars == <<circuit, includeBits, phase, pc, round, boundsBefore, before, facts, determined, gadgets, reached, candidates>>

opcode == circuit.opcodes[pc]
InSweep == pc <= Len(circuit.opcodes)

(* Opcodes that nothing here looks into. *)
BlackBoxes == {"Bitwise", "BlackBox", "Curve", "Recursion", "Call"}

(* The fields of an opcode, and what it accepts.  An expression has one linear
   term for a wire, and AND and XOR stay within the bits of their operands.   *)
MeansWhatItSays(c, o) ==
  /\ o.type \in {"AssertZero", "RANGE", "MemoryInit", "Read", "Write", "BrilligCall"} \cup BlackBoxes
  /\ o.outs \subseteq o.wires /\ o.wires \subseteq c.wires
  /\ o.accepts \subseteq [o.wires -> Field]
  /\ o.type = "AssertZero" =>
       /\ o.mul \in Seq(Int \X o.wires \X o.wires) /\ o.lin \in Seq(Int \X o.wires) /\ o.q \in Int
       /\ \A i, j \in DOMAIN o.lin : o.lin[i][2] = o.lin[j][2] => i = j
       /\ \A a \in o.accepts : Evaluate(o.mul, o.lin, o.q, a) = 0
  /\ o.type \in {"RANGE", "Bitwise"} =>
       2^o.bits \in Nat \ {0} /\ \A a \in o.accepts : \A w \in o.wires : a[w] < 2^o.bits
  /\ o.type = "RANGE" => \A a \in [o.wires -> Field] : (\A w \in o.wires : a[w] < 2^o.bits) => a \in o.accepts
  /\ o.type \in {"Read", "Write"} => o.wires = {o.index, o.value}
  /\ o.type = "MemoryInit" => o.init \in Seq(o.wires)
  /\ o.type = "BrilligCall" => o.wires = {}

ASSUME CircuitsMeanWhatTheySay ==
  /\ P \in Nat \ {0, 1} /\ DeriveRounds \in Nat \ {0}
  /\ \A c \in Circuits :
       /\ IsFiniteSet(c.wires) /\ c.inputs \cup c.hints \cup c.returns \subseteq c.wires
       /\ c.opcodes \in Seq(Range(c.opcodes))
       /\ \A o \in Range(c.opcodes) : MeansWhatItSays(c, o)

-----------------------------------------------------------------------------
(* Expressions.  A coefficient in the upper half of the field is negative. *)

IsAssertZero(o) == o.type = "AssertZero"
Asserts(c) == {o \in Range(c.opcodes) : IsAssertZero(o)}

Live(terms) == {i \in DOMAIN terms : terms[i][1] % P # 0}
IsNonneg(v) == 2 * (v % P) < P
Minus(v) == (P - (v % P)) % P
Small(v) == v % P < 2^SmallBits

(* Insert a bound, or lower the one that is there. *)
Lower(B, w, v) ==
  [x \in DOMAIN B \cup {w} |-> IF x # w THEN B[x] ELSE IF w \in DOMAIN B THEN Min({B[w], v}) ELSE v]

-----------------------------------------------------------------------------
(* value_bounds: RANGE, AND and XOR bound their wires, then a shifted copy
   hands its bound on in both directions.                                   *)

NotedBounds(c) ==
  LET noted(w) == {2^o.bits - 1 : o \in {p \in Range(c.opcodes) : p.type \in {"RANGE", "Bitwise"} /\ w \in p.wires}}
  IN  [w \in {v \in c.wires : noted(v) # {}} |-> Min(noted(w))]

(* plus - minus + q = 0 with a small q or -q, as [larger, smaller, offset]. *)
Copies(o) ==
  IF ~IsAssertZero(o) \/ o.mul # <<>> \/ Len(o.lin) # 2 THEN {}
  ELSE {[larger |-> IF Small(o.q) THEN o.lin[3-k][2] ELSE o.lin[k][2],
         smaller |-> IF Small(o.q) THEN o.lin[k][2] ELSE o.lin[3-k][2],
         offset |-> IF Small(o.q) THEN o.q % P ELSE Minus(o.q)] :
           k \in {l \in {1, 2} : /\ o.lin[l][1] % P = 1 /\ o.lin[3-l][1] % P = P - 1
                                 /\ Small(o.q) \/ Small(Minus(o.q))}}

CarryDown(B, s) ==
  IF s.larger \in DOMAIN B THEN Lower(B, s.smaller, Max({0, B[s.larger] - s.offset})) ELSE B
CarryUp(B, s) ==
  IF s.smaller \in DOMAIN B THEN Lower(B, s.larger, B[s.smaller] + s.offset) ELSE B

Carried(o, B) == IF Copies(o) = {} THEN B ELSE LET s == CHOOSE t \in Copies(o) : TRUE IN CarryUp(CarryDown(B, s), s)

-----------------------------------------------------------------------------
(* derived_bounds and provably_nonzero.  w = sum of bounded non-negative terms,
   where w has coefficient 1 or -1.                                            *)

(* The coefficients as they stand when w is brought to the other side. *)
Signed(o, i, v) == IF o.lin[i][1] % P = 1 THEN Minus(v) ELSE v % P
Rest(o, i) == {j \in DOMAIN o.lin : o.lin[j][2] # o.lin[i][2]}

IsSumOf(o, i, B) ==
  /\ o.lin[i][1] % P \in {1, P - 1}
  /\ IsNonneg(Signed(o, i, o.q))
  /\ \A j \in DOMAIN o.mul : IsNonneg(Signed(o, i, o.mul[j][1])) /\ {o.mul[j][2], o.mul[j][3]} \subseteq DOMAIN B
  /\ \A j \in Rest(o, i) : IsNonneg(Signed(o, i, o.lin[j][1])) /\ o.lin[j][2] \in DOMAIN B

Total(o, i, B) ==
  LET products == [j \in DOMAIN o.mul |-> Signed(o, i, o.mul[j][1]) * B[o.mul[j][2]] * B[o.mul[j][3]]]
      terms == [j \in Rest(o, i) |-> Signed(o, i, o.lin[j][1]) * B[o.lin[j][2]]]
  IN  Signed(o, i, o.q) + SumFunction(products) + SumFunction(terms)

DerivedTerm(o, i, B) ==
  IF o.lin[i][2] \notin DOMAIN B /\ IsSumOf(o, i, B) /\ Total(o, i, B) < P
  THEN Lower(B, o.lin[i][2], Total(o, i, B)) ELSE B

(* Each term sees the bounds that the terms before it brought. *)
Derived(o, B) ==
  LET Upto[i \in 0..Len(o.lin)] == IF i = 0 THEN B ELSE DerivedTerm(o, i, Upto[i-1])
  IN  IF IsAssertZero(o) THEN Upto[Len(o.lin)] ELSE B

(* The sum of the bounded terms with a positive coefficient is a constant. *)
IsSumToConstant(o, B) ==
  /\ IsAssertZero(o) /\ o.mul = <<>> /\ o.lin # <<>>
  /\ IsNonneg(Minus(o.q))
  /\ \A i \in DOMAIN o.lin : i \in Live(o.lin) /\ IsNonneg(o.lin[i][1]) /\ o.lin[i][2] \in DOMAIN B
  /\ SumFunction([i \in DOMAIN o.lin |-> (o.lin[i][1] % P) * B[o.lin[i][2]]]) < P

Narrowed(o, B) ==
  LET NarrowedTerm(i, C) == Lower(C, o.lin[i][2], Minus(o.q) \div (o.lin[i][1] % P))
      Upto[i \in 0..Len(o.lin)] == IF i = 0 THEN B ELSE NarrowedTerm(i, Upto[i-1])
  IN  IF IsSumToConstant(o, B) THEN Upto[Len(o.lin)] ELSE B

(* Mutant: a sum without a constant may be zero. *)
ProvablyNonzeroAny(c, B) ==
  UNION {{o.lin[i][2] : i \in {j \in DOMAIN o.lin : IsSumOf(o, j, B) /\ Total(o, j, B) < P}} : o \in Asserts(c)}

ProvablyNonzero(c, B) ==
  UNION {{o.lin[i][2] : i \in {j \in DOMAIN o.lin : /\ Signed(o, j, o.q) >= 1
                                                    /\ IsSumOf(o, j, B) /\ Total(o, j, B) < P}} : o \in Asserts(c)}

-----------------------------------------------------------------------------
(* is_zero_gadgets: y*flag = 0 and y*inverse + flag - 1 = 0, where y may be an
   expression over determined wires D.                                         *)

FactorsOut(mul, lin, w, D) ==
  /\ mul # <<>>
  /\ \A i \in Live(mul) : (mul[i][2] = w /\ mul[i][3] \in D) \/ (mul[i][3] = w /\ mul[i][2] \in D)
  /\ \A i \in Live(lin) : lin[i][2] = w

Flags(c, D) ==
  UNION {{w \in {o.mul[1][2], o.mul[1][3]} \ D : FactorsOut(o.mul, o.lin, w, D)} :
           o \in {p \in Asserts(c) : p.q % P = 0 /\ p.mul # <<>>}}

(* The first term that is a flag, with coefficient one, and the first factor
   that everything else factors through.                                       *)
FlagTerm(o, flags) == {i \in DOMAIN o.lin : o.lin[i][1] % P = 1 /\ o.lin[i][2] \in flags}

InverseFactor(o, flag, D) ==
  {k \in {2, 3} : /\ o.mul[1][k] \notin D \cup {flag}
                  /\ FactorsOut(o.mul, SelectSeq(o.lin, LAMBDA t : t[2] # flag), o.mul[1][k], D)}

GadgetOf(o, flags, D) ==
  IF o.q % P # P - 1 \/ o.mul = <<>> \/ FlagTerm(o, flags) = {} THEN {}
  ELSE LET flag == o.lin[Min(FlagTerm(o, flags))][2]
           at == InverseFactor(o, flag, D)
       IN  IF at = {} THEN {} ELSE {<<flag, o.mul[1][Min(at)]>>}

IsZeroGadgets(c, D) == UNION {GadgetOf(o, Flags(c, D), D) : o \in Asserts(c)}

-----------------------------------------------------------------------------
(* The rules of refine_determined: the wires one opcode adds to D. *)

OpenMul(o, D) == {i \in Live(o.mul) : ~ {o.mul[i][2], o.mul[i][3]} \subseteq D}
OpenLin(o, D) == {i \in DOMAIN o.lin : o.lin[i][2] \notin D}

(* The last initialisation of a block; writes to it are not looked at. *)
BlockCells(c, b) ==
  LET inits == {i \in DOMAIN c.opcodes : c.opcodes[i].type = "MemoryInit" /\ c.opcodes[i].block = b}
  IN  IF inits = {} THEN {} ELSE {Range(c.opcodes[Max(inits)].init)}

ReadDetermines(c, o, D) ==
  IF IsAccess(o) /\ \E cells \in BlockCells(c, o.block) : {o.index} \cup cells \subseteq D THEN {o.value} ELSE {}

(* unknown_factor_solvable: every open product is the same unknown times a
   determined wire that is known to be non-zero.                              *)
FactorDetermines(o, D, N) ==
  IF ~IsAssertZero(o) \/ OpenMul(o, D) = {} \/ OpenLin(o, D) \cap Live(o.lin) # {} THEN {}
  ELSE {u \in o.wires \ D :
          \A i \in OpenMul(o, D) : \E v \in D \cap N : {o.mul[i][2], o.mul[i][3]} = {u, v}}

TermDetermines(o, D) ==
  IF ~IsAssertZero(o) \/ OpenMul(o, D) # {} THEN {}
  ELSE {o.lin[i][2] : i \in {j \in Live(o.lin) : OpenLin(o, D) = {j}}}

(* pinned_by_positional_split for the free wires F: in the order of their
   weights, each weight is larger than all that the lighter digits add up to. *)
Weight(c) == IF Small(c) THEN c % P ELSE Minus(c)
Digits(o, F) == {i \in Live(o.lin) : o.lin[i][2] \in F}
Lighter(o, F, i) ==
  {j \in Digits(o, F) : Weight(o.lin[j][1]) < Weight(o.lin[i][1])
                          \/ (Weight(o.lin[j][1]) = Weight(o.lin[i][1]) /\ j < i)}
Reach(o, digits, B) == SumFunction([i \in digits |-> Weight(o.lin[i][1]) * B[o.lin[i][2]]])

IsSuperincreasing(o, F, B) ==
  /\ \A i \in Live(o.mul) : {o.mul[i][2], o.mul[i][3]} \cap F = {}
  /\ Digits(o, F) # {}
  /\ \A i \in Digits(o, F) : /\ o.lin[i][2] \in DOMAIN B
                             /\ Small(o.lin[i][1]) \/ Small(Minus(o.lin[i][1]))
  /\ \A i \in Digits(o, F) : Weight(o.lin[i][1]) > Reach(o, Lighter(o, F, i), B)

(* Mutant: the sum of the digits may wrap around the field. *)
IsPositionalSplitWrapping(o, F, B) == IsSuperincreasing(o, F, B)

IsPositionalSplit(o, F, B) == IsSuperincreasing(o, F, B) /\ Reach(o, Digits(o, F), B) < P

SplitDetermines(o, D, B) ==
  IF /\ IsAssertZero(o) /\ OpenMul(o, D) = {} /\ Cardinality(OpenLin(o, D)) >= 2
     /\ IsPositionalSplit(o, o.wires \ D, B)
  THEN {o.lin[i][2] : i \in OpenLin(o, D)} ELSE {}

-----------------------------------------------------------------------------
(* reachable_from_outputs *)

ExposedWitnesses(c) == c.returns      \* return_values and the ReturnData blocks

Surface(c) == IF ExposedWitnesses(c) # {} THEN ExposedWitnesses(c) ELSE UNION {o.wires : o \in Asserts(c)}

ReachedBy(o, R, D) == IF IsAssertZero(o) /\ o.wires \cap R # {} THEN R \cup (o.wires \ D) ELSE R

-----------------------------------------------------------------------------
(* explain_with_bounds: what the opcodes that mention w say about it, when the
   wires in M moved.                                                            *)

(* Fixing v to x makes the expression the zero polynomial in the other wires. *)
VanishesWhen(o, v, x) ==
  LET linear == [i \in DOMAIN o.lin |-> o.lin[i][1]]
      product == [i \in DOMAIN o.mul |-> o.mul[i][1]]
      ofLin(u) == SumFunctionOnSet(linear, {i \in DOMAIN o.lin : o.lin[i][2] = u})
      ofMul(u) == SumFunctionOnSet(product, {i \in DOMAIN o.mul : {o.mul[i][2], o.mul[i][3]} = {u, v}})
  IN  /\ \A i \in Live(o.mul) : v \in {o.mul[i][2], o.mul[i][3]}
      /\ (o.q + x * ofLin(v) + x * x * ofMul(v)) % P = 0
      /\ \A u \in o.wires \ {v} : (ofLin(u) + x * ofMul(u)) % P = 0

Partners(o, w) == {v \in o.wires \ {w} : \E i \in Live(o.mul) : {o.mul[i][2], o.mul[i][3]} = {w, v}}

CoefficientMayVanish(o, w, N) == \E v \in Partners(o, w) \ N : \E x \in {0, 1} : VanishesWhen(o, v, x)

Mentioning(c, w) == {o \in Asserts(c) : w \in o.wires}
Pinning(c, w, N) == {o \in Mentioning(c, w) : ~CoefficientMayVanish(o, w, N)}
Companions(o, w, M) == (o.wires \cap M) \ {w}

(* Mutant: only the index and the value of a memory operation are seen. *)
InMemoryOps(c, w) == \E o \in Range(c.opcodes) : IsAccess(o) /\ w \in o.wires
InMemory(c, w) == \E o \in Range(c.opcodes) : o.type \in {"MemoryInit", "Read", "Write"} /\ w \in o.wires

Bounded(c, w) == \E o \in Range(c.opcodes) : o.type = "RANGE" /\ w \in o.wires

VerdictOn(c, w, M, B, N) ==
  IF \E o \in Mentioning(c, w) : IsPositionalSplit(o, M, B) THEN "Asserted"
  ELSE IF Pinning(c, w, N) # {} /\ ~InMemory(c, w) /\ \A o \in Pinning(c, w, N) : Companions(o, w, M) # {}
  THEN "PropagatesFreedom"
  ELSE IF Pinning(c, w, N) # {} \/ InMemory(c, w) THEN "Asserted"
  ELSE IF Mentioning(c, w) # {} THEN "OnlyVanishingConstraints"
  ELSE IF Bounded(c, w) THEN "BoundedNeverPinned"
  ELSE "Unconstrained"

LooksLikeADecompositionDigit(c, w, M) ==
  /\ \E o \in Range(c.opcodes) : o.type = "RANGE" /\ w \in o.wires /\ o.bits = 1
  /\ \E o \in Mentioning(c, w) : Companions(o, w, M) # {}

-----------------------------------------------------------------------------
(* What propagation hands over: the least set that holds the inputs and is
   closed under its lemmas (Propagation!StopsAtFixpoint).                     *)

Prop == INSTANCE Propagation WITH
  Values <- Field, Models <- {}, Holds <- AcirHolds, LemmaSets <- {},
  circuit <- << >>, lemmas <- {}, phase <- "done", pc <- 1, changed <- FALSE, determined <- {},
  nonzero <- {}, bounds <- << >>, zeros <- {}, constants <- << >>

LearnedNonzero(c) == UNION {Prop!LearnNonzero(o) : o \in Range(c.opcodes)}

TightBounds(c) ==
  LET Bounds[k \in 0..P] ==
        IF k = 0 THEN Prop!RangeBounds(c)
        ELSE FoldLeft(LAMBDA B, o : Prop!Tightened(o, B), Bounds[k-1], c.opcodes)
  IN  Bounds[P]

Propagated(c, D) ==
  D \cup UNION {Prop!SolveSingleUnknown(o, D, LearnedNonzero(c)) \cup Prop!SolveEuclidean(o, D, TightBounds(c))
                 \cup Prop!ApplyBlackBox(o, D)
                 \cup Prop!SolveConditionalZero(c, o, D, Prop!ConditionalZeros(c, D)) : o \in Range(c.opcodes)}

Known(c) ==
  LET Closure[k \in 0..Cardinality(c.wires)] == IF k = 0 THEN c.inputs ELSE Propagated(c, Closure[k-1])
  IN  Closure[Cardinality(c.wires)]

-----------------------------------------------------------------------------
Init ==
  /\ circuit \in Circuits /\ includeBits \in BOOLEAN
  /\ phase = "bounds" /\ pc = 1 /\ round = 1
  /\ bounds = NotedBounds(circuit) /\ boundsBefore = bounds /\ before = {}
  /\ nonzero = {}
  /\ determined = Known(circuit) /\ gadgets = {}
  /\ reached = {} /\ candidates = {}

given == <<circuit, includeBits>>

CarryBounds ==
  /\ phase = "bounds" /\ InSweep
  /\ bounds' = Carried(opcode, bounds)
  /\ pc' = pc + 1
  /\ UNCHANGED <<given, phase, round, boundsBefore, before, nonzero, determined, gadgets, reached, candidates>>

(* Another sweep if a bound changed, else on to derived_bounds. *)
EndCarry ==
  /\ phase = "bounds" /\ ~InSweep
  /\ phase' = IF bounds = boundsBefore THEN "derive" ELSE "bounds"
  /\ pc' = 1 /\ boundsBefore' = bounds
  /\ UNCHANGED <<given, round, before, facts, determined, gadgets, reached, candidates>>

DeriveBounds ==
  /\ phase = "derive" /\ InSweep
  /\ bounds' = Derived(opcode, bounds)
  /\ pc' = pc + 1
  /\ UNCHANGED <<given, phase, round, boundsBefore, before, nonzero, determined, gadgets, reached, candidates>>

EndDerive ==
  /\ phase = "derive" /\ ~InSweep
  /\ phase' = "narrow" /\ pc' = 1
  /\ UNCHANGED <<given, round, boundsBefore, before, facts, determined, gadgets, reached, candidates>>

NarrowBounds ==
  /\ phase = "narrow" /\ InSweep
  /\ bounds' = Narrowed(opcode, bounds)
  /\ pc' = pc + 1
  /\ UNCHANGED <<given, phase, round, boundsBefore, before, nonzero, determined, gadgets, reached, candidates>>

(* The rounds end when no wire got its first bound, or after DeriveRounds. *)
EndNarrow ==
  /\ phase = "narrow" /\ ~InSweep
  /\ pc' = 1
  /\ IF DOMAIN bounds = DOMAIN boundsBefore \/ round = DeriveRounds
     THEN /\ nonzero' = ProvablyNonzero(circuit, bounds)
          /\ phase' = "gadgets"
          /\ UNCHANGED <<round, boundsBefore>>
     ELSE /\ phase' = "derive" /\ round' = round + 1 /\ boundsBefore' = bounds
          /\ UNCHANGED nonzero
  /\ UNCHANGED <<given, before, bounds, determined, gadgets, reached, candidates>>

(* A sweep of refine_determined starts with the gadgets, flag and inverse. *)
TakeGadgets ==
  /\ phase = "gadgets"
  /\ LET found == IsZeroGadgets(circuit, determined)
     IN  /\ gadgets' = gadgets \cup found
         /\ determined' = determined \cup UNION {{g[1], g[2]} : g \in found}
  /\ before' = determined
  /\ phase' = "refine" /\ pc' = 1
  /\ UNCHANGED <<given, round, boundsBefore, facts, reached, candidates>>

Refine(wires) ==
  /\ determined' = determined \cup wires
  /\ pc' = pc + 1
  /\ UNCHANGED <<given, phase, round, boundsBefore, before, facts, gadgets, reached, candidates>>

Refining == phase = "refine" /\ InSweep

RefineByRead == Refining /\ IsAccess(opcode) /\ Refine(ReadDetermines(circuit, opcode, determined))

RefineByAssert ==
  /\ Refining /\ IsAssertZero(opcode)
  /\ Refine(FactorDetermines(opcode, determined, nonzero) \cup TermDetermines(opcode, determined)
              \cup SplitDetermines(opcode, determined, bounds))

RefineByNothing == Refining /\ ~IsAccess(opcode) /\ ~IsAssertZero(opcode) /\ Refine({})

(* A circuit without assertions is not looked at any further. *)
EndRefine ==
  /\ phase = "refine" /\ ~InSweep
  /\ IF determined # before THEN phase' = "gadgets" /\ UNCHANGED <<before, reached>>
     ELSE IF Asserts(circuit) = {} THEN phase' = "done" /\ UNCHANGED <<before, reached>>
     ELSE phase' = "reach" /\ reached' = Surface(circuit) /\ before' = reached'
  /\ pc' = 1
  /\ UNCHANGED <<given, round, boundsBefore, facts, determined, gadgets, candidates>>

ReachFurther ==
  /\ phase = "reach" /\ InSweep
  /\ reached' = ReachedBy(opcode, reached, determined)
  /\ pc' = pc + 1
  /\ UNCHANGED <<given, phase, round, boundsBefore, before, facts, determined, gadgets, candidates>>

EndReach ==
  /\ phase = "reach" /\ ~InSweep
  /\ phase' = IF reached = before THEN "hints" ELSE "reach"
  /\ before' = reached /\ pc' = 1
  /\ UNCHANGED <<given, round, boundsBefore, facts, determined, gadgets, reached, candidates>>

(* The hints are explained one after the other; each by itself. *)
ReportHints ==
  /\ phase = "hints"
  /\ LET undetermined == circuit.wires \ determined
         verdict(w) == VerdictOn(circuit, w, undetermined, bounds, nonzero)
     IN  candidates' = {<<w, verdict(w)>> : w \in
           {v \in circuit.hints \cap undetermined \cap reached :
              /\ includeBits \/ ~LooksLikeADecompositionDigit(circuit, v, undetermined)
              /\ verdict(v) # "Asserted"}}
  /\ phase' = "done"
  /\ UNCHANGED <<given, pc, round, boundsBefore, before, facts, determined, gadgets, reached>>

Next ==
  \/ CarryBounds \/ EndCarry \/ DeriveBounds \/ EndDerive \/ NarrowBounds \/ EndNarrow
  \/ TakeGadgets \/ RefineByRead \/ RefineByAssert \/ RefineByNothing \/ EndRefine
  \/ ReachFurther \/ EndReach \/ ReportHints

Spec == Init /\ [][Next]_vars

-----------------------------------------------------------------------------
(* Properties *)

Verdicts == {"PropagatesFreedom", "OnlyVanishingConstraints", "BoundedNeverPinned", "Unconstrained"}

(* Types; what is determined and what is reported are apart. *)
TypeOK ==
  /\ phase \in {"bounds", "derive", "narrow", "gadgets", "refine", "reach", "hints", "done"}
  /\ pc \in 1..Len(circuit.opcodes) + 1
  /\ round \in 1..DeriveRounds
  /\ DOMAIN bounds \subseteq circuit.wires /\ bounds \in [DOMAIN bounds -> Nat]
  /\ nonzero \cup determined \cup reached \subseteq circuit.wires
  /\ candidates \subseteq (circuit.hints \ determined) \X Verdicts

(* Runs(c), found among the assignments that satisfy its widest assertion. *)
Widest(c) == CHOOSE p \in Asserts(c) : \A q \in Asserts(c) : Cardinality(q.wires) <= Cardinality(p.wires)

RunsWithin(c, o) ==
  {a \in {Overlay(x, y) : x \in o.accepts, y \in [c.wires \ o.wires -> Field]} : IsRun(c, a)}

RunsOf == [c \in Circuits |-> IF Asserts(c) = {} THEN Runs(c) ELSE RunsWithin(c, Widest(c))]

(* The lower wire of every shifted copy has a range of its own, and the shift
   does not wrap around it: without that, the bound of the copy says nothing
   about it (explain.rs:937).                                                  *)
ShiftsStayBelow(c) ==
  \A o \in Range(c.opcodes) : \A s \in Copies(o) :
    s.smaller \in DOMAIN NotedBounds(c) /\ NotedBounds(c)[s.smaller] + s.offset < P

(* Every bound and every non-zero wire that the rules divide by, or rule out
   wrap-around with, holds in every run, from the first note to the last round
   (explain.rs:843); types included.                                           *)
FactsHold ==
  /\ TypeOK
  /\ ShiftsStayBelow(circuit) =>
    \A a \in RunsOf[circuit] : /\ \A w \in DOMAIN bounds : a[w] <= bounds[w]
                               /\ \A w \in nonzero : a[w] # 0

(* The wires that refine_determined takes for determined on no ground: the
   inverse of an IsZero gadget, the value of an access to a block that is
   written or set up twice, and an unknown that occurs in several products of
   one expression.                                                             *)
IsSteady(c, b) ==
  /\ Cardinality({i \in DOMAIN c.opcodes : c.opcodes[i].type = "MemoryInit" /\ c.opcodes[i].block = b}) = 1
  /\ \A o \in Range(c.opcodes) : ~(o.type = "Write" /\ o.block = b)

Assumed(c) ==
  {g[2] : g \in gadgets}
  \cup {o.value : o \in {p \in Range(c.opcodes) : IsAccess(p) /\ ~IsSteady(c, p.block)}}
  \cup UNION {{w \in o.wires : Cardinality({i \in Live(o.mul) : w \in {o.mul[i][2], o.mul[i][3]}}) > 1} : o \in Asserts(c)}

(* The wires of W take as many values together as those of V. *)
Determines(runs, V, W) ==
  Cardinality({[w \in V |-> a[w]] : a \in runs}) = Cardinality({[w \in V \cup W |-> a[w]] : a \in runs})

(* Everything else that is called determined has one value for given inputs and
   assumed wires, along any chain of reads, divisions and positional splits, in
   whatever order the rules get to them: a hint is never left out of the report
   for another reason (explain.rs:669).                                         *)
RefinedUnique ==
  ShiftsStayBelow(circuit) => Determines(RunsOf[circuit], circuit.inputs \cup Assumed(circuit), determined)

MentionedByBlackBox(c, w) == \E o \in Range(c.opcodes) : o.type \in BlackBoxes /\ w \in o.wires

(* A hint that is reported as unconstrained, or as bounded and never pinned, can
   take every value within its ranges in every run, unless a black box mentions
   it (explain.rs:55).                                                          *)
NeverPinned(c, w) ==
  \A a \in RunsOf[c], x \in Field :
    (\A o \in Range(c.opcodes) : o.type = "RANGE" /\ w \in o.wires => x < 2^o.bits)
      => IsRun(c, [a EXCEPT ![w] = x])

NeverPinnedIsFree ==
  \A r \in candidates :
    r[2] \in {"BoundedNeverPinned", "Unconstrained"} /\ ~MentionedByBlackBox(circuit, r[1]) => NeverPinned(circuit, r[1])

(* "Two rules, both sound. A read is determined when the index is determined and
   every entry of the block is" (explain.rs:664).                               *)
DeterminedIsUnique == phase = "done" => Determines(RunsOf[circuit], circuit.inputs, determined)
=============================================================================
