------------------------- MODULE PropagationProofs -------------------------
(***************************************************************************)
(* What the passes learn is true of every run of the circuit: every bound, *)
(* non-zero fact and constant, and every wire they call determined.  And   *)
(* they stop at a fixpoint of every lemma that is on.  Both whatever the   *)
(* circuit, its order of opcodes and the prime.                            *)
(*                                                                         *)
(* The first half is about one opcode and two runs.  In a run an           *)
(* expression is zero modulo P; the terms that D fixes come to the same in *)
(* two runs that agree on D, so the open ones do, modulo P.  Each lemma of *)
(* uniqueness.rs then cancels what is left: a coefficient that is not      *)
(* zero, a division with remainder that cannot wrap around, a case split.  *)
(***************************************************************************)
EXTENDS Propagation, CircuitTheorems

(* An opcode that is an expression, and a run of its circuit. *)
Expression(m, o) == m \in Models /\ o \in Ops(m) /\ IsAssertZero(o)
Run(m, a) == m \in Models /\ a \in Solutions(m)

(* The field is 0..P-1. *)
LEMMA FieldBasics == P \in Nat \ {0} /\ P > 1 /\ Field \subseteq Nat /\ Field \subseteq Int
BY FieldIsPrime DEF Field

LEMMA ZeroIsZero == SameModulo(P, 0, 0)
<1>1. 0 - 0 = 0 * P /\ 0 \in Int
  BY FieldBasics
<1> QED BY <1>1 DEF SameModulo

(* The coefficients of an expression are elements of the field, its wires wires
   of the circuit; and there are finitely many of each. *)
LEMMA ExpressionFacts ==
  ASSUME NEW m, NEW o, Expression(m, o)
  PROVE  /\ IsFiniteSet(DOMAIN o.mul) /\ IsFiniteSet(DOMAIN o.lin) /\ o.q \in Field
         /\ IsFiniteSet(o.wires) /\ o.wires \subseteq m.wires
         /\ \A i \in DOMAIN o.mul : o.mul[i][1] \in Field /\ o.mul[i][2] \in o.wires /\ o.mul[i][3] \in o.wires
         /\ \A i \in DOMAIN o.lin : o.lin[i][1] \in Field /\ o.lin[i][2] \in o.wires
<1>1. IsFiniteSet(m.wires) /\ MeansWhatItSays(m, o) /\ o.wires \subseteq m.wires
  BY OpcodesMeanWhatTheySay, ModelsWellFormed DEF Expression, WellFormed
<1>2. /\ o.mul \in Seq(Field \X m.wires \X m.wires) /\ o.lin \in Seq(Field \X m.wires) /\ o.q \in Field
      /\ o.wires = ExpressionWires(o.mul, o.lin)
  BY <1>1 DEF MeansWhatItSays, Expression, IsAssertZero
<1>3. IsFiniteSet(o.wires)
  BY <1>1, FS_Subset
<1>4. IsFiniteSet(DOMAIN o.mul)
  <2>1. DOMAIN o.mul = 1..Len(o.mul) /\ Len(o.mul) \in Nat
    BY <1>2
  <2> QED BY <2>1, FS_Interval
<1>5. IsFiniteSet(DOMAIN o.lin)
  <2>1. DOMAIN o.lin = 1..Len(o.lin) /\ Len(o.lin) \in Nat
    BY <1>2
  <2> QED BY <2>1, FS_Interval
<1>6. ASSUME NEW i \in DOMAIN o.mul
      PROVE  o.mul[i][1] \in Field /\ o.mul[i][2] \in o.wires /\ o.mul[i][3] \in o.wires
  <2>1. o.mul[i] \in Field \X m.wires \X m.wires
    BY <1>2
  <2>2. {o.mul[i][2], o.mul[i][3]} \subseteq ExpressionWires(o.mul, o.lin)
    BY Zenon DEF ExpressionWires
  <2> QED BY <1>2, <2>1, <2>2
<1>7. ASSUME NEW i \in DOMAIN o.lin
      PROVE  o.lin[i][1] \in Field /\ o.lin[i][2] \in o.wires
  <2>1. o.lin[i] \in Field \X m.wires
    BY <1>2
  <2>2. o.lin[i][2] \in ExpressionWires(o.mul, o.lin)
    BY DEF ExpressionWires
  <2> QED BY <1>2, <2>1, <2>2
<1> QED BY <1>1, <1>2, <1>3, <1>4, <1>5, <1>6, <1>7

(* A run gives every wire an element of the field and satisfies every opcode. *)
LEMMA RunFacts ==
  ASSUME NEW m, NEW a, Run(m, a)
  PROVE  /\ a \in Assignments(m)
         /\ \A w \in m.wires : a[w] \in Field /\ a[w] \in Int /\ a[w] \in 0..P-1
         /\ \A o \in Ops(m) : Holds(o, a)
<1>1. a \in [m.wires -> Field] /\ \A o \in Ops(m) : Holds(o, a)
  BY FieldIsPrime DEF Run, Solutions, Assignments
<1>2. \A w \in m.wires : a[w] \in Field
  BY <1>1
<1> QED BY <1>1, <1>2, FieldBasics DEF Run, Solutions, Field

-----------------------------------------------------------------------------
MulTerm(o, a) == [i \in DOMAIN o.mul |-> o.mul[i][1] * a[o.mul[i][2]] * a[o.mul[i][3]]]
LinTerm(o, a) == [i \in DOMAIN o.lin |-> o.lin[i][1] * a[o.lin[i][2]]]
ByWire(o, a) == [w \in o.wires |-> Coefficient(o, w) * a[w]]

(* The accumulated coefficient of a wire is reduced modulo P. *)
LEMMA CoefficientType ==
  ASSUME NEW m, NEW o, Expression(m, o), NEW w
  PROVE  /\ Coefficient(o, w) \in Field
         /\ IntegerAt(DOMAIN o.lin, Coefficients(o.lin))
<1> DEFINE at == {i \in DOMAIN o.lin : o.lin[i][2] = w}
<1>1. IntegerAt(DOMAIN o.lin, Coefficients(o.lin))
  BY ExpressionFacts, FieldBasics DEF IntegerAt, Coefficients
<1>2. at \in SUBSET DOMAIN o.lin
  OBVIOUS
<1>3. IsFiniteSet(at) /\ IntegerAt(at, Coefficients(o.lin))
  BY <1>1, <1>2, FS_Subset, ExpressionFacts DEF IntegerAt
<1>4. SumFunctionOnSet(Coefficients(o.lin), at) \in Int
  BY <1>3, SumType
<1>5. Coefficient(o, w) = SumFunctionOnSet(Coefficients(o.lin), at) % P
  BY DEF Coefficient
<1> QED BY <1>1, <1>4, <1>5, FieldBasics, ModuloBasics DEF Field

LEMMA TermTypes ==
  ASSUME NEW m, NEW o, Expression(m, o), NEW a, Run(m, a)
  PROVE  /\ IntegerAt(DOMAIN o.mul, MulTerm(o, a)) /\ IntegerAt(DOMAIN o.lin, LinTerm(o, a))
         /\ IntegerAt(o.wires, ByWire(o, a))
<1>1. \A w \in o.wires : a[w] \in Int
  BY ExpressionFacts, RunFacts
<1>2. ASSUME NEW i \in DOMAIN o.mul PROVE MulTerm(o, a)[i] \in Int
  <2>1. o.mul[i][1] \in Int /\ a[o.mul[i][2]] \in Int /\ a[o.mul[i][3]] \in Int
    BY <1>1, ExpressionFacts, FieldBasics
  <2>2. MulTerm(o, a)[i] = o.mul[i][1] * a[o.mul[i][2]] * a[o.mul[i][3]]
    BY DEF MulTerm
  <2> QED BY <2>1, <2>2
<1>3. ASSUME NEW i \in DOMAIN o.lin PROVE LinTerm(o, a)[i] \in Int
  <2>1. o.lin[i][1] \in Int /\ a[o.lin[i][2]] \in Int
    BY <1>1, ExpressionFacts, FieldBasics
  <2>2. LinTerm(o, a)[i] = o.lin[i][1] * a[o.lin[i][2]]
    BY DEF LinTerm
  <2> QED BY <2>1, <2>2
<1>4. ASSUME NEW w \in o.wires PROVE ByWire(o, a)[w] \in Int
  <2>1. Coefficient(o, w) \in Int
    BY CoefficientType, FieldBasics
  <2>2. ByWire(o, a)[w] = Coefficient(o, w) * a[w]
    BY DEF ByWire
  <2> QED BY <1>1, <2>1, <2>2
<1> QED BY <1>2, <1>3, <1>4 DEF IntegerAt

(* The linear terms, wire by wire. *)
LEMMA LinearByWire ==
  ASSUME NEW m, NEW o, Expression(m, o), NEW a, Run(m, a)
  PROVE  /\ SumFunctionOnSet(LinTerm(o, a), DOMAIN o.lin) \in Int
         /\ SumFunctionOnSet(ByWire(o, a), o.wires) \in Int
         /\ SameModulo(P, SumFunctionOnSet(LinTerm(o, a), DOMAIN o.lin), SumFunctionOnSet(ByWire(o, a), o.wires))
<1> DEFINE group == [i \in DOMAIN o.lin |-> o.lin[i][2]]
           at(w) == {i \in DOMAIN o.lin : o.lin[i][2] = w}
           e == [w \in o.wires |-> SumFunctionOnSet(LinTerm(o, a), at(w))]
<1>1. /\ IsFiniteSet(DOMAIN o.lin) /\ IsFiniteSet(o.wires) /\ IntegerAt(DOMAIN o.lin, LinTerm(o, a))
      /\ IntegerAt(o.wires, ByWire(o, a)) /\ IntegerAt(DOMAIN o.lin, Coefficients(o.lin))
  BY ExpressionFacts, TermTypes, CoefficientType
<1>2. \A i \in DOMAIN o.lin : group[i] \in o.wires
  BY ExpressionFacts
<1>3. \A w \in o.wires : e[w] = SumFunctionOnSet(LinTerm(o, a), {i \in DOMAIN o.lin : group[i] = w})
  <2> SUFFICES ASSUME NEW w \in o.wires
               PROVE  e[w] = SumFunctionOnSet(LinTerm(o, a), {i \in DOMAIN o.lin : group[i] = w})
    OBVIOUS
  <2>1. at(w) = {i \in DOMAIN o.lin : group[i] = w}
    OBVIOUS
  <2> HIDE DEF group, at
  <2>2. e[w] = SumFunctionOnSet(LinTerm(o, a), at(w))
    OBVIOUS
  <2> HIDE DEF e
  <2> QED BY <2>1, <2>2, Zenon
<1>4. ASSUME NEW w \in o.wires PROVE SameModulo(P, e[w], ByWire(o, a)[w])
  <2>1. at(w) \in SUBSET DOMAIN o.lin
    OBVIOUS
  <2>2. IsFiniteSet(at(w)) /\ IntegerAt(at(w), Coefficients(o.lin))
    BY <1>1, <2>1, FS_Subset DEF IntegerAt
  <2>3. a[w] \in Int
    BY ExpressionFacts, RunFacts
  <2>4. ASSUME NEW i \in at(w) PROVE LinTerm(o, a)[i] = a[w] * Coefficients(o.lin)[i]
    <3>1. i \in DOMAIN o.lin /\ o.lin[i][2] = w
      OBVIOUS
    <3>2. o.lin[i][1] \in Int
      BY <3>1, ExpressionFacts, FieldBasics
    <3>3. Coefficients(o.lin)[i] = o.lin[i][1] /\ LinTerm(o, a)[i] = o.lin[i][1] * a[w]
      BY <3>1 DEF LinTerm, Coefficients
    <3> QED BY <2>3, <3>2, <3>3
  <2> DEFINE c == SumFunctionOnSet(Coefficients(o.lin), at(w))
  <2>5. e[w] = SumFunctionOnSet(LinTerm(o, a), at(w))
    OBVIOUS
  <2>6. Coefficient(o, w) = c % P
    BY DEF Coefficient
  <2>7. ByWire(o, a)[w] = Coefficient(o, w) * a[w]
    BY DEF ByWire
  <2> HIDE DEF at, e
  <2>8. c \in Int
    BY <2>2, SumType
  <2>9. SumFunctionOnSet(LinTerm(o, a), at(w)) = a[w] * c
    BY <2>2, <2>3, <2>4, SumTimes
  <2> HIDE DEF c
  <2>10. c % P \in Int /\ SameModulo(P, c % P, c)
    <3>1. P \in Nat \ {0}
      BY FieldBasics
    <3>2. c % P \in 0..P-1 /\ SameModulo(P, c % P, c)
      BY <2>8, <3>1, ModuloBasics
    <3> QED BY <3>1, <3>2
  <2>11. SameModulo(P, a[w] * c, a[w] * (c % P))
    BY <2>3, <2>8, <2>10, FieldBasics, ModuloSymmetric, ModuloTimes
  <2>12. ByWire(o, a)[w] = a[w] * (c % P)
    BY <2>3, <2>6, <2>7, <2>10
  <2> QED BY <2>5, <2>9, <2>11, <2>12
<1> HIDE DEF e, group
<1>8. Groups(DOMAIN o.lin, LinTerm(o, a), o.wires, group, e)
  BY <1>2, <1>3, Zenon DEF Groups
<1>5. IntegerAt(o.wires, e) /\ SumFunctionOnSet(e, o.wires) = SumFunctionOnSet(LinTerm(o, a), DOMAIN o.lin)
  BY <1>1, <1>8, SumGroups
<1>6. SameModulo(P, SumFunctionOnSet(e, o.wires), SumFunctionOnSet(ByWire(o, a), o.wires))
  BY <1>1, <1>4, <1>5, FieldBasics, SumModulo
<1>7. SumFunctionOnSet(LinTerm(o, a), DOMAIN o.lin) \in Int /\ SumFunctionOnSet(ByWire(o, a), o.wires) \in Int
  BY <1>1, SumType
<1> QED BY <1>5, <1>6, <1>7

-----------------------------------------------------------------------------
(* What an expression comes to in a run: the products and the linear terms that
   D fixes, and those that it leaves open.                                     *)
Products(o, a) == SumFunctionOnSet(MulTerm(o, a), DOMAIN o.mul)
Wires(o, a) == SumFunctionOnSet(ByWire(o, a), o.wires)
FixedProducts(o, D, a) == SumFunctionOnSet(MulTerm(o, a), DOMAIN o.mul \ OpenMul(o, D))
OpenProducts(o, D, a) == SumFunctionOnSet(MulTerm(o, a), OpenMul(o, D))
FixedWires(o, D, a) == SumFunctionOnSet(ByWire(o, a), o.wires \cap D)
OpenWires(o, D, a) == SumFunctionOnSet(ByWire(o, a), o.wires \ D)

FixedPart(o, D, a) == o.q + FixedProducts(o, D, a) + FixedWires(o, D, a)
OpenPart(o, D, a) == OpenProducts(o, D, a) + OpenWires(o, D, a)

LEMMA PartTypes ==
  ASSUME NEW m, NEW o, Expression(m, o), NEW a, Run(m, a), NEW D
  PROVE  /\ OpenProducts(o, D, a) \in Int /\ FixedProducts(o, D, a) \in Int /\ Products(o, a) \in Int
         /\ OpenWires(o, D, a) \in Int /\ FixedWires(o, D, a) \in Int /\ Wires(o, a) \in Int
         /\ Products(o, a) = OpenProducts(o, D, a) + FixedProducts(o, D, a)
         /\ Wires(o, a) = FixedWires(o, D, a) + OpenWires(o, D, a)
         /\ o.q \in Int /\ FixedPart(o, D, a) \in Int /\ OpenPart(o, D, a) \in Int
<1>1. /\ IsFiniteSet(DOMAIN o.mul) /\ IsFiniteSet(o.wires) /\ o.q \in Int
      /\ IntegerAt(DOMAIN o.mul, MulTerm(o, a)) /\ IntegerAt(o.wires, ByWire(o, a))
  BY ExpressionFacts, TermTypes, FieldBasics
<1>2. OpenMul(o, D) \subseteq DOMAIN o.mul
  BY DEF OpenMul, Live
<1>3. o.wires \cap D \subseteq o.wires /\ o.wires \ (o.wires \cap D) = o.wires \ D
  OBVIOUS
<1>4. /\ OpenProducts(o, D, a) \in Int /\ FixedProducts(o, D, a) \in Int
      /\ Products(o, a) = OpenProducts(o, D, a) + FixedProducts(o, D, a)
  BY <1>1, <1>2, SumSplit DEF OpenProducts, FixedProducts, Products
<1>5. /\ FixedWires(o, D, a) \in Int
      /\ SumFunctionOnSet(ByWire(o, a), o.wires \ (o.wires \cap D)) \in Int
      /\ Wires(o, a) = FixedWires(o, D, a) + SumFunctionOnSet(ByWire(o, a), o.wires \ (o.wires \cap D))
  BY <1>1, <1>3, SumSplit DEF FixedWires, Wires
<1>6. OpenWires(o, D, a) = SumFunctionOnSet(ByWire(o, a), o.wires \ (o.wires \cap D))
  BY <1>3, Zenon DEF OpenWires
<1>7. OpenWires(o, D, a) \in Int /\ Wires(o, a) = FixedWires(o, D, a) + OpenWires(o, D, a)
  BY <1>5, <1>6
<1>8. FixedPart(o, D, a) \in Int /\ OpenPart(o, D, a) \in Int
  BY <1>1, <1>4, <1>5, <1>7 DEF FixedPart, OpenPart
<1>9. Products(o, a) \in Int /\ Wires(o, a) \in Int
  BY <1>4, <1>5, <1>7
<1> QED BY <1>1, <1>4, <1>5, <1>7, <1>8, <1>9

(* An expression is zero modulo P in a run. *)
LEMMA RunEquation ==
  ASSUME NEW m, NEW o, Expression(m, o), NEW a, Run(m, a)
  PROVE  /\ SumFunctionOnSet(MulTerm(o, a), DOMAIN o.mul) \in Int
         /\ SameModulo(P, o.q + SumFunctionOnSet(MulTerm(o, a), DOMAIN o.mul)
                            + SumFunctionOnSet(LinTerm(o, a), DOMAIN o.lin), 0)
<1> DEFINE mul == SumFunctionOnSet(MulTerm(o, a), DOMAIN o.mul)
           lin == SumFunctionOnSet(LinTerm(o, a), DOMAIN o.lin)
<1>1. mul \in Int /\ lin \in Int /\ o.q \in Int /\ P \in Nat \ {0}
  BY ExpressionFacts, TermTypes, SumType, FieldBasics
<1>2. Evaluate(o.mul, o.lin, o.q, a) = 0
  <2>1. Holds(o, a) /\ a \in Assignments(m)
    BY RunFacts DEF Expression
  <2>2. MeansWhatItSays(m, o)
    BY OpcodesMeanWhatTheySay DEF Expression
  <2> QED BY <2>1, <2>2 DEF MeansWhatItSays, Expression, IsAssertZero
<1>3. Evaluate(o.mul, o.lin, o.q, a) = (o.q + mul + lin) % P
  <2>1. Evaluate(o.mul, o.lin, o.q, a) = (o.q + SumSeq(MulTerm(o, a)) + SumSeq(LinTerm(o, a))) % P
    BY Zenon DEF Evaluate, MulTerm, LinTerm
  <2>2. /\ DOMAIN MulTerm(o, a) = DOMAIN o.mul /\ Len(MulTerm(o, a)) \in Nat
        /\ DOMAIN o.mul = 1..Len(MulTerm(o, a))
        /\ DOMAIN LinTerm(o, a) = DOMAIN o.lin /\ Len(LinTerm(o, a)) \in Nat
        /\ DOMAIN o.lin = 1..Len(LinTerm(o, a))
    <3>1. DOMAIN MulTerm(o, a) = DOMAIN o.mul /\ DOMAIN LinTerm(o, a) = DOMAIN o.lin
      BY DEF MulTerm, LinTerm
    <3>2. o.mul \in Seq(Field \X m.wires \X m.wires) /\ o.lin \in Seq(Field \X m.wires)
      BY OpcodesMeanWhatTheySay DEF MeansWhatItSays, Expression, IsAssertZero
    <3>3. MulTerm(o, a) \in Seq(Int) /\ LinTerm(o, a) \in Seq(Int)
      <4>1. IntegerAt(DOMAIN o.mul, MulTerm(o, a)) /\ IntegerAt(DOMAIN o.lin, LinTerm(o, a))
        BY TermTypes
      <4>2. /\ DOMAIN o.mul = 1..Len(o.mul) /\ Len(o.mul) \in Nat
            /\ DOMAIN o.lin = 1..Len(o.lin) /\ Len(o.lin) \in Nat
        BY <3>2
      <4>3. MulTerm(o, a) \in [1..Len(o.mul) -> Int] /\ LinTerm(o, a) \in [1..Len(o.lin) -> Int]
        BY <4>1, <4>2 DEF IntegerAt, MulTerm, LinTerm
      <4> QED BY <4>2, <4>3
    <3> QED BY <3>1, <3>3
  <2>3. IntegerAt(DOMAIN o.mul, MulTerm(o, a)) /\ IntegerAt(DOMAIN o.lin, LinTerm(o, a))
    BY TermTypes
  <2>4. SumSeq(MulTerm(o, a)) = mul /\ SumSeq(LinTerm(o, a)) = lin
    BY <2>2, <2>3, SumOfSequence
  <2> QED BY <2>1, <2>4, Zenon
<1> HIDE DEF mul, lin
<1>4. (o.q + mul + lin) % P = 0 /\ o.q + mul + lin \in Int
  BY <1>1, <1>2, <1>3
<1>5. SameModulo(P, o.q + mul + lin, 0)
  BY <1>1, <1>4, ModuloZero
<1> QED BY <1>1, <1>5 DEF mul, lin

(* What D fixes and what it leaves open add up to zero modulo P. *)
LEMMA Balance ==
  ASSUME NEW m, NEW o, Expression(m, o), NEW a, Run(m, a), NEW D
  PROVE  SameModulo(P, FixedPart(o, D, a) + OpenPart(o, D, a), 0)
<1> DEFINE mul == Products(o, a)
           lin == SumFunctionOnSet(LinTerm(o, a), DOMAIN o.lin)
           wires == Wires(o, a)
<1>1. mul \in Int /\ lin \in Int /\ wires \in Int /\ o.q \in Int /\ P \in Nat \ {0}
  BY PartTypes, LinearByWire, FieldBasics
<1>2. SameModulo(P, o.q + mul + lin, 0) /\ SameModulo(P, lin, wires)
  BY RunEquation, LinearByWire DEF Products, Wires
<1>3. FixedPart(o, D, a) + OpenPart(o, D, a) = o.q + mul + wires
  BY PartTypes DEF FixedPart, OpenPart
<1> HIDE DEF mul, lin, wires
<1>4. SameModulo(P, (o.q + mul) + wires, (o.q + mul) + lin)
  <2>1. SameModulo(P, wires, lin)
    BY <1>1, <1>2, ModuloSymmetric
  <2>2. o.q + mul \in Int
    BY <1>1
  <2>3. SameModulo(P, o.q + mul, o.q + mul)
    BY <1>1, <2>2, ModuloBasics
  <2> QED BY <1>1, <2>1, <2>2, <2>3, ModuloPlus
<1>5. SameModulo(P, o.q + mul + wires, 0)
  BY <1>1, <1>2, <1>4, ModuloTransitive
<1> QED BY <1>3, <1>5

(* The fixed part is the same in two runs that agree on D. *)
LEMMA FixedSame ==
  ASSUME NEW m, NEW o, Expression(m, o), NEW a, Run(m, a), NEW b, Run(m, b), NEW D, SameOn(D, a, b)
  PROVE  FixedPart(o, D, a) = FixedPart(o, D, b)
<1> DEFINE Q == DOMAIN o.mul \ OpenMul(o, D)
           W == o.wires \cap D
<1>1. IsFiniteSet(Q) /\ IsFiniteSet(W)
  BY ExpressionFacts, FS_Difference, FS_Intersection
<1>2. ASSUME NEW i \in Q PROVE MulTerm(o, a)[i] = MulTerm(o, b)[i]
  <2>1. i \in DOMAIN o.mul /\ (o.mul[i][1] = 0 \/ Factors(o, i) \subseteq D)
    BY DEF OpenMul, Live
  <2>2. /\ MulTerm(o, a)[i] = o.mul[i][1] * a[o.mul[i][2]] * a[o.mul[i][3]]
        /\ MulTerm(o, b)[i] = o.mul[i][1] * b[o.mul[i][2]] * b[o.mul[i][3]]
    BY <2>1 DEF MulTerm
  <2>3. CASE Factors(o, i) \subseteq D
    <3>1. a[o.mul[i][2]] = b[o.mul[i][2]] /\ a[o.mul[i][3]] = b[o.mul[i][3]]
      BY <2>3 DEF SameOn, Factors
    <3> QED BY <2>2, <3>1
  <2>4. CASE o.mul[i][1] = 0
    <3>1. o.mul[i][2] \in m.wires /\ o.mul[i][3] \in m.wires
      BY <2>1, ExpressionFacts
    <3>2. /\ a[o.mul[i][2]] \in Int /\ a[o.mul[i][3]] \in Int
          /\ b[o.mul[i][2]] \in Int /\ b[o.mul[i][3]] \in Int
      BY <3>1, RunFacts
    <3> QED BY <2>2, <2>4, <3>2
  <2> QED BY <2>1, <2>3, <2>4
<1>3. ASSUME NEW w \in W PROVE ByWire(o, a)[w] = ByWire(o, b)[w]
  BY DEF ByWire, SameOn
<1>4. FixedProducts(o, D, a) = FixedProducts(o, D, b)
  <2>1. SameAt(Q, MulTerm(o, a), MulTerm(o, b))
    BY <1>2 DEF SameAt
  <2> QED BY <1>1, <2>1, SumSame DEF FixedProducts
<1>5. FixedWires(o, D, a) = FixedWires(o, D, b)
  <2>1. SameAt(W, ByWire(o, a), ByWire(o, b))
    BY <1>3 DEF SameAt
  <2> QED BY <1>1, <2>1, SumSame DEF FixedWires
<1> QED BY <1>4, <1>5, Zenon DEF FixedPart

(* The parts that are open agree, too, modulo P. *)
LEMMA OpenSame ==
  ASSUME NEW m, NEW o, Expression(m, o), NEW a, Run(m, a), NEW b, Run(m, b), NEW D, SameOn(D, a, b)
  PROVE  SameModulo(P, OpenPart(o, D, a), OpenPart(o, D, b))
<1> DEFINE x == OpenPart(o, D, a)
           y == OpenPart(o, D, b)
           f == FixedPart(o, D, a)
<1>1. x \in Int /\ y \in Int /\ f \in Int /\ P \in Nat \ {0}
  BY PartTypes, FieldBasics
<1>2. SameModulo(P, f + x, 0) /\ SameModulo(P, f + y, 0)
  BY Balance, FixedSame
<1> HIDE DEF x, y, f
<1>3. SameModulo(P, (f + x) - (f + y), 0 - 0)
  BY <1>1, <1>2, ModuloPlus
<1>4. (f + x) - (f + y) = x - y /\ 0 - 0 = 0
  BY <1>1
<1>5. SameModulo(P, x - y, 0)
  BY <1>3, <1>4
<1>6. (x - y) + y = x /\ 0 + y = y /\ SameModulo(P, y, y)
  BY <1>1, ModuloBasics
<1>7. SameModulo(P, (x - y) + y, 0 + y)
  BY <1>1, <1>5, <1>6, ModuloPlus
<1>8. SameModulo(P, x, y)
  BY <1>6, <1>7
<1> QED BY <1>8 DEF x, y

-----------------------------------------------------------------------------
(* Multiplication by what is not zero can be undone. *)
LEMMA CancelSmaller ==
  ASSUME NEW c \in 1..P-1, NEW x \in 0..P-1, NEW y \in 0..P-1, y < x, SameModulo(P, c * x, c * y)
  PROVE  FALSE
<1>1. P \in Nat \ {0} /\ c \in Int /\ x \in Int /\ y \in Int
  BY FieldBasics
<1>2. x - y \in 1..P-1
  BY <1>1
<1>3. (c * (x - y)) % P # 0
  BY <1>2, FieldIsPrime
<1>4. c * x \in Int /\ c * y \in Int /\ c * (x - y) \in Int /\ c * x - c * y = c * (x - y)
  BY <1>1
<1>5. SameModulo(P, c * y, c * y)
  BY <1>1, <1>4, ModuloBasics
<1>6. SameModulo(P, c * x - c * y, c * y - c * y)
  BY <1>1, <1>4, <1>5, ModuloPlus
<1>7. SameModulo(P, c * (x - y), 0)
  BY <1>4, <1>6
<1> QED BY <1>1, <1>3, <1>4, <1>7, ModuloZero

(* P is a prime: a factor that is not zero modulo P can be cancelled. *)
LEMMA Cancel ==
  ASSUME NEW k \in Int, k % P # 0, NEW x \in 0..P-1, NEW y \in 0..P-1, SameModulo(P, k * x, k * y)
  PROVE  x = y
<1> DEFINE c == k % P
<1>1. P \in Nat \ {0} /\ x \in Int /\ y \in Int
  BY FieldBasics
<1>2. c \in 1..P-1 /\ SameModulo(P, c, k) /\ c \in Int
  <2>1. c \in 0..P-1 /\ SameModulo(P, c, k)
    BY <1>1, ModuloBasics
  <2> QED BY <1>1, <2>1
<1> HIDE DEF c
<1>3. ASSUME NEW z \in Int PROVE SameModulo(P, c * z, k * z) /\ c * z \in Int /\ k * z \in Int
  <2>1. SameModulo(P, z * c, z * k)
    BY <1>1, <1>2, ModuloTimes
  <2>2. z * c = c * z /\ z * k = k * z /\ c * z \in Int /\ k * z \in Int
    BY <1>2
  <2> QED BY <2>1, <2>2
<1>4. SameModulo(P, c * x, k * x) /\ SameModulo(P, c * y, k * y)
  BY <1>1, <1>3
<1>5. c * x \in Int /\ c * y \in Int /\ k * x \in Int /\ k * y \in Int
  BY <1>1, <1>2
<1>6. SameModulo(P, c * x, k * y)
  BY <1>1, <1>4, <1>5, ModuloTransitive
<1>7. SameModulo(P, k * y, c * y)
  BY <1>1, <1>4, <1>5, ModuloSymmetric
<1>8. SameModulo(P, c * x, c * y)
  BY <1>1, <1>5, <1>6, <1>7, ModuloTransitive
<1>9. SameModulo(P, c * y, c * x)
  BY <1>1, <1>5, <1>8, ModuloSymmetric
<1>10. ~(y < x) /\ ~(x < y)
  BY <1>2, <1>8, <1>9, CancelSmaller
<1> QED BY <1>1, <1>10

(* The coefficient of a wire that is open is the sum of its live terms. *)
OpenAt(o, D, w) == {i \in OpenLin(o, D) : o.lin[i][2] = w}

LEMMA OpenCoefficient ==
  ASSUME NEW m, NEW o, Expression(m, o), NEW D, NEW w, w \notin D
  PROVE  Coefficient(o, w) = SumFunctionOnSet(Coefficients(o.lin), OpenAt(o, D, w)) % P
<1> DEFINE S == {i \in DOMAIN o.lin : o.lin[i][2] = w}
           T == {i \in OpenLin(o, D) : o.lin[i][2] = w}
<1>1. S \in SUBSET DOMAIN o.lin /\ T \subseteq S
  BY DEF OpenLin, Live
<1>2. \A x \in S \ T : Coefficients(o.lin)[x] = 0
  BY DEF OpenLin, Live, Coefficients
<1>3. Coefficient(o, w) = SumFunctionOnSet(Coefficients(o.lin), S) % P
  BY DEF Coefficient
<1> HIDE DEF S
<1>4. IsFiniteSet(S) /\ IntegerAt(S, Coefficients(o.lin))
  BY <1>1, CoefficientType, ExpressionFacts, FS_Subset DEF IntegerAt
<1> HIDE DEF T
<1>5. SumFunctionOnSet(Coefficients(o.lin), S) = SumFunctionOnSet(Coefficients(o.lin), T)
  BY <1>1, <1>2, <1>4, SumNonzero
<1>6. T = OpenAt(o, D, w)
  BY DEF T, OpenAt
<1> QED BY <1>3, <1>5, <1>6

(* Of a wire without a live term the coefficient is zero, of one with a single
   live term the coefficient of that.                                         *)
LEMMA NoCoefficient ==
  ASSUME NEW m, NEW o, Expression(m, o), NEW D, NEW w, w \notin D,
         \A i \in OpenLin(o, D) : o.lin[i][2] # w
  PROVE  Coefficient(o, w) = 0
<1>1. OpenAt(o, D, w) = {}
  BY DEF OpenAt
<1>4. Coefficient(o, w) = SumFunctionOnSet(Coefficients(o.lin), OpenAt(o, D, w)) % P
  BY OpenCoefficient
<1>2. Coefficient(o, w) = SumFunctionOnSet(Coefficients(o.lin), {}) % P
  BY <1>1, <1>4, Zenon
<1>3. SumFunctionOnSet(Coefficients(o.lin), {}) = 0
  BY SumEmpty
<1> QED BY <1>2, <1>3, FieldBasics

LEMMA OneCoefficient ==
  ASSUME NEW m, NEW o, Expression(m, o), NEW D, NEW i, OpenLin(o, D) = {i}
  PROVE  /\ o.lin[i][2] \in o.wires \ D
         /\ Coefficient(o, o.lin[i][2]) # 0
<1> DEFINE w == o.lin[i][2]
<1>1. i \in DOMAIN o.lin /\ o.lin[i][1] # 0 /\ w \notin D
  BY DEF OpenLin, Live
<1>2. o.lin[i][1] \in 0..P-1 /\ w \in o.wires
  BY <1>1, ExpressionFacts DEF Field
<1>3. OpenAt(o, D, w) = {i}
  BY DEF OpenAt
<1> HIDE DEF w
<1>8. Coefficient(o, w) = SumFunctionOnSet(Coefficients(o.lin), OpenAt(o, D, w)) % P
  BY <1>1, OpenCoefficient
<1>4. Coefficient(o, w) = SumFunctionOnSet(Coefficients(o.lin), {i}) % P
  BY <1>3, <1>8, Zenon
<1>5. Coefficients(o.lin)[i] = o.lin[i][1]
  BY <1>1 DEF Coefficients
<1>6. SumFunctionOnSet(Coefficients(o.lin), {i}) = o.lin[i][1]
  <2>1. Coefficients(o.lin)[i] \in Int
    BY <1>2, <1>5, FieldBasics
  <2> QED BY <1>5, <2>1, SumOne
<1>7. Coefficient(o, w) = o.lin[i][1]
  BY <1>2, <1>4, <1>6, FieldBasics
<1> QED BY <1>1, <1>2, <1>7 DEF w

-----------------------------------------------------------------------------
(* Two runs that agree on what is determined. *)
Agree(m, D, a, b) == Run(m, a) /\ Run(m, b) /\ SameOn(D, a, b)

(* Only the wires with an open term count. *)
LEMMA OpenWiresOnly ==
  ASSUME NEW m, NEW o, Expression(m, o), NEW a, Run(m, a), NEW D, NEW T, T \subseteq o.wires \ D,
         \A i \in OpenLin(o, D) : o.lin[i][2] \in T
  PROVE  OpenWires(o, D, a) = SumFunctionOnSet(ByWire(o, a), T)
<1> DEFINE S == o.wires \ D
<1>1. S \in SUBSET o.wires
  OBVIOUS
<1>2. IsFiniteSet(S) /\ IntegerAt(S, ByWire(o, a))
  BY <1>1, ExpressionFacts, TermTypes, FS_Subset DEF IntegerAt
<1>3. ASSUME NEW w \in S \ T PROVE ByWire(o, a)[w] = 0
  <2>1. Coefficient(o, w) = 0
    BY <1>3, NoCoefficient
  <2>2. ByWire(o, a)[w] = Coefficient(o, w) * a[w] /\ a[w] \in Int
    BY <1>3, ExpressionFacts, RunFacts DEF ByWire
  <2> QED BY <2>1, <2>2
<1>4. OpenWires(o, D, a) = SumFunctionOnSet(ByWire(o, a), S)
  BY DEF OpenWires
<1> HIDE DEF S
<1>5. SumFunctionOnSet(ByWire(o, a), S) = SumFunctionOnSet(ByWire(o, a), T)
  <2>1. T \subseteq S
    BY DEF S
  <2> QED BY <1>2, <1>3, <2>1, SumNonzero
<1> QED BY <1>4, <1>5

(* With one open linear term the open wires come to that term. *)
LEMMA OneOpenWire ==
  ASSUME NEW m, NEW o, Expression(m, o), NEW a, Run(m, a), NEW D, NEW i, OpenLin(o, D) = {i}
  PROVE  OpenWires(o, D, a) = Coefficient(o, o.lin[i][2]) * a[o.lin[i][2]]
<1> DEFINE u == o.lin[i][2]
<1>1. u \in o.wires \ D
  BY OneCoefficient
<1> HIDE DEF u
<1>2. {u} \subseteq o.wires \ D /\ \A j \in OpenLin(o, D) : o.lin[j][2] \in {u}
  BY <1>1 DEF u
<1>3. OpenWires(o, D, a) = SumFunctionOnSet(ByWire(o, a), {u})
  BY <1>2, OpenWiresOnly
<1>4. ByWire(o, a)[u] = Coefficient(o, u) * a[u]
  BY <1>1 DEF ByWire
<1>5. ByWire(o, a)[u] \in Int
  BY <1>1, TermTypes DEF IntegerAt
<1> QED BY <1>3, <1>4, <1>5, SumOne DEF u

(* With none they come to nothing, and so do the products. *)
LEMMA NoOpenWires ==
  ASSUME NEW m, NEW o, Expression(m, o), NEW a, Run(m, a), NEW D, OpenLin(o, D) = {}
  PROVE  OpenWires(o, D, a) = 0
<1>1. {} \subseteq o.wires \ D /\ \A j \in OpenLin(o, D) : o.lin[j][2] \in {}
  OBVIOUS
<1>2. OpenWires(o, D, a) = SumFunctionOnSet(ByWire(o, a), {})
  BY <1>1, OpenWiresOnly
<1> QED BY <1>2, SumEmpty

LEMMA NoOpenProducts ==
  ASSUME NEW o, NEW a, NEW D, OpenMul(o, D) = {}
  PROVE  OpenProducts(o, D, a) = 0
BY SumEmpty, Zenon DEF OpenProducts

LEMMA OneOpenProduct ==
  ASSUME NEW m, NEW o, Expression(m, o), NEW a, Run(m, a), NEW D, NEW i, OpenMul(o, D) = {i}
  PROVE  OpenProducts(o, D, a) = o.mul[i][1] * a[o.mul[i][2]] * a[o.mul[i][3]]
<1>1. i \in DOMAIN o.mul
  BY DEF OpenMul, Live
<1>2. MulTerm(o, a)[i] = o.mul[i][1] * a[o.mul[i][2]] * a[o.mul[i][3]]
  BY <1>1 DEF MulTerm
<1>3. MulTerm(o, a)[i] \in Int
  BY <1>1, TermTypes DEF IntegerAt
<1>4. SumFunctionOnSet(MulTerm(o, a), {i}) = MulTerm(o, a)[i]
  BY <1>3, SumOne
<1>5. OpenProducts(o, D, a) = SumFunctionOnSet(MulTerm(o, a), {i})
  BY Zenon DEF OpenProducts
<1> QED BY <1>2, <1>4, <1>5

(* solve_single_unknown. *)
LEMMA SingleLinear ==
  ASSUME NEW m, NEW o, Expression(m, o), NEW D, NEW a, NEW b, Agree(m, D, a, b),
         OpenMul(o, D) = {}, NEW i, OpenLin(o, D) = {i}
  PROVE  a[o.lin[i][2]] = b[o.lin[i][2]]
<1> DEFINE u == o.lin[i][2]
           c == Coefficient(o, u)
<1>1. Run(m, a) /\ Run(m, b) /\ SameOn(D, a, b)
  BY DEF Agree
<1>2. u \in m.wires /\ c # 0 /\ c \in 0..P-1
  <2>1. u \in o.wires \ D /\ c # 0
    BY OneCoefficient
  <2>2. c \in Field
    BY CoefficientType
  <2> QED BY <2>1, <2>2, ExpressionFacts DEF Field
<1>3. SameModulo(P, OpenPart(o, D, a), OpenPart(o, D, b))
  BY <1>1, OpenSame
<1>4. OpenProducts(o, D, a) = 0 /\ OpenProducts(o, D, b) = 0
  BY NoOpenProducts
<1>5. OpenWires(o, D, a) = c * a[u] /\ OpenWires(o, D, b) = c * b[u]
  BY <1>1, OneOpenWire
<1> HIDE DEF u, c
<1>6. a[u] \in 0..P-1 /\ b[u] \in 0..P-1 /\ P \in Nat \ {0}
  BY <1>1, <1>2, RunFacts, FieldBasics
<1>7. OpenPart(o, D, a) = c * a[u] /\ OpenPart(o, D, b) = c * b[u]
  BY <1>2, <1>4, <1>5, <1>6 DEF OpenPart
<1>8. c \in Int /\ c % P # 0
  BY <1>2, <1>6
<1>9. SameModulo(P, c * a[u], c * b[u])
  BY <1>3, <1>7
<1>10. a[u] = b[u]
  BY <1>6, <1>8, <1>9, Cancel
<1> QED BY <1>10 DEF u

LEMMA PairsMatch ==
  ASSUME NEW x, NEW y, NEW u, NEW v, {x, y} = {u, v}
  PROVE  (x = u /\ y = v) \/ (x = v /\ y = u)
<1>1. x \in {u, v} /\ y \in {u, v} /\ u \in {x, y} /\ v \in {x, y}
  OBVIOUS
<1> QED BY ONLY <1>1

LEMMA SingleProduct ==
  ASSUME NEW m, NEW o, Expression(m, o), NEW D, NEW a, NEW b, Agree(m, D, a, b),
         OpenLin(o, D) = {}, NEW i, OpenMul(o, D) = {i},
         NEW u \in m.wires, NEW v \in m.wires, u # v, v \in D, Factors(o, i) = {u, v}, a[v] # 0
  PROVE  a[u] = b[u]
<1> DEFINE c == o.mul[i][1]
<1>1. Run(m, a) /\ Run(m, b) /\ a[v] = b[v]
  BY DEF Agree, SameOn
<1>2. i \in DOMAIN o.mul /\ c # 0
  BY DEF OpenMul, Live
<1>3. c \in 1..P-1 /\ c \in Int /\ P \in Nat \ {0}
  BY <1>2, ExpressionFacts, FieldBasics DEF Field
<1>4. a[u] \in 0..P-1 /\ b[u] \in 0..P-1 /\ a[v] \in 1..P-1 /\ a[v] \in Int
  BY <1>1, RunFacts, FieldBasics
<1>5. (o.mul[i][2] = u /\ o.mul[i][3] = v) \/ (o.mul[i][2] = v /\ o.mul[i][3] = u)
  <2>1. {o.mul[i][2], o.mul[i][3]} = {u, v}
    BY DEF Factors
  <2> QED BY <2>1, PairsMatch
<1>6. SameModulo(P, OpenPart(o, D, a), OpenPart(o, D, b))
  BY <1>1, OpenSame DEF Agree
<1>7. OpenWires(o, D, a) = 0 /\ OpenWires(o, D, b) = 0
  BY <1>1, NoOpenWires
<1>8. /\ OpenProducts(o, D, a) = c * a[o.mul[i][2]] * a[o.mul[i][3]]
      /\ OpenProducts(o, D, b) = c * b[o.mul[i][2]] * b[o.mul[i][3]]
  BY <1>1, OneOpenProduct
<1> HIDE DEF c
<1> DEFINE k == c * a[v]
<1>9. OpenProducts(o, D, a) = k * a[u]
  <2>1. c * a[u] * a[v] = k * a[u] /\ c * a[v] * a[u] = k * a[u]
    BY <1>3, <1>4
  <2> QED BY <1>5, <1>8, <2>1
<1>10. OpenProducts(o, D, b) = k * b[u]
  <2>1. c * b[u] * b[v] = k * b[u] /\ c * b[v] * b[u] = k * b[u]
    BY <1>1, <1>3, <1>4
  <2> QED BY <1>5, <1>8, <2>1
<1>11. k \in Int /\ k % P # 0
  <2>1. (c * a[v]) % P # 0
    BY <1>3, <1>4, FieldIsPrime
  <2> QED BY <1>3, <1>4, <2>1
<1> HIDE DEF k
<1>12. OpenPart(o, D, a) = k * a[u] /\ OpenPart(o, D, b) = k * b[u]
  BY <1>4, <1>7, <1>9, <1>10, <1>11 DEF OpenPart
<1>13. SameModulo(P, k * a[u], k * b[u])
  BY <1>6, <1>12
<1> QED BY <1>4, <1>11, <1>13, Cancel

(* Facts about single runs. *)
NonzeroIn(N, a) == \A w \in N : a[w] # 0
BoundedBy(B, a) == \A w \in DOMAIN B : a[w] <= B[w]

(* solve_single_unknown determines: the one open term has a coefficient that can
   be cancelled. *)
LEMMA SingleSound ==
  ASSUME NEW m \in Models, NEW o \in Ops(m), NEW D, NEW N, NEW a, NEW b, Agree(m, D, a, b), NonzeroIn(N, a),
         D \subseteq m.wires
  PROVE  SameOn(SolveSingleUnknown(o, D, N), a, b)
<1> SUFFICES ASSUME NEW u \in SolveSingleUnknown(o, D, N) PROVE a[u] = b[u]
  BY DEF SameOn
<1>1. IsAssertZero(o) /\ u \in o.wires \ D
  BY DEF SolveSingleUnknown
<1>2. Expression(m, o)
  BY <1>1 DEF Expression
<1>3. CASE OpenMul(o, D) = {} /\ \E i \in OpenLin(o, D) : OpenLin(o, D) = {i} /\ o.lin[i][2] = u
  BY <1>2, <1>3, SingleLinear
<1>4. CASE OpenLin(o, D) = {} /\ \E i \in OpenMul(o, D), v \in Invertible(D, N) :
             OpenMul(o, D) = {i} /\ Factors(o, i) = {u, v}
  <2>1. PICK i \in OpenMul(o, D), v \in Invertible(D, N) : OpenMul(o, D) = {i} /\ Factors(o, i) = {u, v}
    BY <1>4
  <2>2. v \in D /\ a[v] # 0 /\ v \in m.wires /\ u \in m.wires /\ u # v
    BY <1>1, <1>2, <2>1, ExpressionFacts DEF Invertible, NonzeroIn
  <2> QED BY <1>2, <1>4, <2>1, <2>2, SingleProduct
<1> QED BY <1>1, <1>3, <1>4 DEF SolveSingleUnknown

-----------------------------------------------------------------------------
(* solve_euclidean: two runs whose remainders and quotients are in range have
   the same ones.                                                            *)
LEMMA DivisionIsUnique ==
  ASSUME NEW c \in Int, c >= 2, NEW R \in Int, R < c, NEW Q \in Int, c * Q + R < P,
         NEW r1 \in Int, NEW r2 \in Int, 0 <= r1, r1 <= R, 0 <= r2, r2 <= R,
         NEW q1 \in Int, NEW q2 \in Int, 0 <= q1, q1 <= Q, 0 <= q2, q2 <= Q,
         \/ SameModulo(P, r1 + c * q1, r2 + c * q2)
         \/ SameModulo(P, r1 - c * q1, r2 - c * q2)
  PROVE  r1 = r2 /\ q1 = q2
<1> DEFINE x == c * q1
           y == c * q2
           z == c * Q
<1>1. P \in Nat \ {0}
  BY FieldBasics
<1>2. \A n \in Int : n >= 0 => c * n >= 0
  OBVIOUS
<1>3. x \in Int /\ y \in Int /\ z \in Int /\ x >= 0 /\ y >= 0 /\ x <= z /\ y <= z
  <2>1. c * q1 >= 0 /\ c * q2 >= 0 /\ c * (Q - q1) >= 0 /\ c * (Q - q2) >= 0
    BY <1>2
  <2>2. c * (Q - q1) = z - x /\ c * (Q - q2) = z - y
    OBVIOUS
  <2> QED BY <2>1, <2>2
<1>4. q1 > q2 => x >= y + c
  <2>1. q1 > q2 => c * (q1 - q2 - 1) >= 0
    BY <1>2
  <2>2. c * (q1 - q2 - 1) = x - y - c
    OBVIOUS
  <2> QED BY <2>1, <2>2
<1>5. q2 > q1 => y >= x + c
  <2>1. q2 > q1 => c * (q2 - q1 - 1) >= 0
    BY <1>2
  <2>2. c * (q2 - q1 - 1) = y - x - c
    OBVIOUS
  <2> QED BY <2>1, <2>2
<1>6. z + R < P
  OBVIOUS
<1> HIDE DEF x, y, z
<1>7. CASE SameModulo(P, r1 + c * q1, r2 + c * q2)
  <2>1. r1 + x \in Int /\ r2 + y \in Int /\ SameModulo(P, r1 + x, r2 + y)
    BY <1>3, <1>7 DEF x, y
  <2>2. (r1 + x) - (r2 + y) < P /\ (r2 + y) - (r1 + x) < P
    BY <1>1, <1>3, <1>6
  <2>3. r1 + x = r2 + y
    BY <1>1, <2>1, <2>2, ModuloSmall
  <2>4. ~(q1 > q2) /\ ~(q2 > q1)
    BY <1>3, <1>4, <1>5, <2>3
  <2>5. q1 = q2
    BY <2>4
  <2> QED BY <1>3, <2>3, <2>5 DEF x, y
<1>8. CASE SameModulo(P, r1 - c * q1, r2 - c * q2)
  <2>1. r1 - x \in Int /\ r2 - y \in Int /\ SameModulo(P, r1 - x, r2 - y)
    BY <1>3, <1>8 DEF x, y
  <2>2. (r1 - x) - (r2 - y) < P /\ (r2 - y) - (r1 - x) < P
    BY <1>1, <1>3, <1>6
  <2>3. r1 - x = r2 - y
    BY <1>1, <2>1, <2>2, ModuloSmall
  <2>4. ~(q1 > q2) /\ ~(q2 > q1)
    BY <1>3, <1>4, <1>5, <2>3
  <2>5. q1 = q2
    BY <2>4
  <2> QED BY <1>3, <2>3, <2>5 DEF x, y
<1> QED BY <1>7, <1>8

LEMMA MagnitudeType ==
  ASSUME NEW c \in Field
  PROVE  /\ Magnitude(c) \in Nat /\ Magnitude(c) <= P
         /\ c <= Half => Magnitude(c) = c
         /\ c # 0 => Magnitude(c) >= 1 /\ Magnitude(c) \in Nat \ {0}
<1>1. P \in Nat \ {0} /\ c \in 0..P-1 /\ Half \in Int /\ Half >= 0
  BY FieldBasics DEF Field, Half
<1> QED BY <1>1 DEF Magnitude

(* A coefficient is its magnitude, up to the sign. *)
LEMMA MagnitudeMeans ==
  ASSUME NEW c \in Field, NEW x \in Int
  PROVE  /\ Magnitude(c) \in Nat /\ Magnitude(c) <= P
         /\ Magnitude(c) * x \in Int
         /\ c <= Half => Magnitude(c) = c
         /\ c > Half => SameModulo(P, c * x, -(Magnitude(c) * x))
         /\ c # 0 => Magnitude(c) >= 1
<1>1. P \in Nat \ {0} /\ c \in 0..P-1 /\ c \in Int /\ Half \in Int /\ Half >= 0
  BY FieldBasics DEF Field, Half
<1>2. Magnitude(c) \in Nat /\ Magnitude(c) <= P /\ (c <= Half => Magnitude(c) = c) /\ (c # 0 => Magnitude(c) >= 1)
  BY <1>1 DEF Magnitude
<1>3. Magnitude(c) * x \in Int
  BY <1>2
<1>4. ASSUME c > Half PROVE SameModulo(P, c * x, -(Magnitude(c) * x))
  <2>1. Magnitude(c) = P - c
    BY <1>1, <1>4 DEF Magnitude
  <2>2. c * x - (-((P - c) * x)) = x * P
    BY <1>1
  <2>3. \E k \in Int : c * x - (-(Magnitude(c) * x)) = k * P
    BY <2>1, <2>2
  <2> QED BY <2>3 DEF SameModulo
<1> QED BY <1>1, <1>2, <1>3, <1>4

(* The terms of two open wires, as those of a division. *)
Undetermined(o, D) == {o.lin[i][2] : i \in OpenLin(o, D)}
TwoUndetermined(o, D, r, q) == r # q /\ Undetermined(o, D) = {r, q}

(* With two undetermined wires the open wires come to two terms. *)
LEMMA TwoOpenWires ==
  ASSUME NEW m, NEW o, Expression(m, o), NEW a, Run(m, a), NEW D, NEW r, NEW q,
         TwoUndetermined(o, D, r, q)
  PROVE  /\ {r, q} \subseteq o.wires \ D
         /\ OpenWires(o, D, a) = Coefficient(o, r) * a[r] + Coefficient(o, q) * a[q]
<1>1. \A i \in OpenLin(o, D) : o.lin[i][2] \in {r, q}
  BY DEF Undetermined, TwoUndetermined
<1>2. {r, q} \subseteq o.wires \ D
  <2> SUFFICES ASSUME NEW w \in {r, q} PROVE w \in o.wires \ D
    OBVIOUS
  <2>1. PICK i \in OpenLin(o, D) : o.lin[i][2] = w
    BY DEF Undetermined, TwoUndetermined
  <2>2. i \in DOMAIN o.lin /\ w \notin D
    BY <2>1 DEF OpenLin, Live
  <2> QED BY <2>1, <2>2, ExpressionFacts
<1>3. OpenWires(o, D, a) = SumFunctionOnSet(ByWire(o, a), {r, q})
  BY <1>1, <1>2, OpenWiresOnly
<1>4. IsFiniteSet({r, q}) /\ IntegerAt({r, q}, ByWire(o, a))
  BY <1>2, TermTypes, ExpressionFacts, FS_Subset DEF IntegerAt
<1>5. r \in {r, q} /\ {r, q} \ {r} = {q}
  BY DEF TwoUndetermined
<1>6. SumFunctionOnSet(ByWire(o, a), {r, q}) = ByWire(o, a)[r] + SumFunctionOnSet(ByWire(o, a), {r, q} \ {r})
  BY <1>4, <1>5, SumTake
<1>7. SumFunctionOnSet(ByWire(o, a), {q}) = ByWire(o, a)[q]
  BY <1>4, SumOne DEF IntegerAt
<1>8. ByWire(o, a)[r] = Coefficient(o, r) * a[r] /\ ByWire(o, a)[q] = Coefficient(o, q) * a[q]
  BY <1>2 DEF ByWire
<1>9. SumFunctionOnSet(ByWire(o, a), {r, q} \ {r}) = ByWire(o, a)[q]
  BY <1>5, <1>7, Zenon
<1> QED BY <1>2, <1>3, <1>6, <1>8, <1>9

(* A unit coefficient is one or minus one; dividing by it turns the two terms
   into remainder plus or minus divisor times quotient.                       *)
LEMMA SignedDivision ==
  ASSUME NEW u \in Field, IsUnit(u), NEW k \in Field, NEW c, c = Magnitude(k), c >= 2,
         NEW r1 \in Int, NEW r2 \in Int, NEW q1 \in Int, NEW q2 \in Int,
         SameModulo(P, u * r1 + k * q1, u * r2 + k * q2)
  PROVE  \/ SameModulo(P, r1 + c * q1, r2 + c * q2)
         \/ SameModulo(P, r1 - c * q1, r2 - c * q2)
<1>1. P \in Nat \ {0} /\ u \in Int /\ k \in Int /\ c \in Int
  BY FieldBasics, MagnitudeMeans
<1> DEFINE s == IF u = 1 THEN 1 ELSE -1
           t == IF k <= Half THEN 1 ELSE -1
<1>2. s \in {1, -1} /\ t \in {1, -1} /\ s \in Int /\ t \in Int
  OBVIOUS
<1>3. ASSUME NEW x \in Int PROVE u * x \in Int /\ s * x \in Int /\ SameModulo(P, u * x, s * x)
  <2>1. u * x \in Int /\ s * x \in Int
    BY <1>1, <1>2
  <2>2. CASE u = 1
    BY <1>1, <2>1, <2>2, ModuloBasics
  <2>3. CASE u = P - 1 /\ u # 1
    <3>1. u * x - s * x = x * P
      BY <1>1, <2>3
    <3> QED BY <2>1, <3>1 DEF SameModulo
  <2> QED BY <2>1, <2>2, <2>3 DEF IsUnit
<1>4. ASSUME NEW x \in Int PROVE k * x \in Int /\ t * (c * x) \in Int /\ SameModulo(P, k * x, t * (c * x))
  <2>1. k * x \in Int /\ c * x \in Int /\ t * (c * x) \in Int
    BY <1>1, <1>2
  <2>2. CASE k <= Half
    <3>1. c = k /\ t = 1
      BY <2>2, MagnitudeMeans DEF t
    <3>2. t * (c * x) = k * x
      BY <2>1, <3>1
    <3> QED BY <1>1, <2>1, <3>2, ModuloBasics
  <2>3. CASE k > Half
    <3>1. t * (c * x) = -(c * x)
      BY <1>1, <2>1, <2>3 DEF Half
    <3>2. SameModulo(P, k * x, -(c * x))
      BY <2>3, MagnitudeMeans
    <3> QED BY <2>1, <3>1, <3>2
  <2>4. k <= Half \/ k > Half
    BY <1>1 DEF Half
  <2> QED BY <2>1, <2>2, <2>3, <2>4
<1> HIDE DEF s, t
<1> DEFINE g(x, y) == s * x + t * (c * y)
           f(x, y) == u * x + k * y
<1>5. ASSUME NEW x \in Int, NEW y \in Int PROVE f(x, y) \in Int /\ g(x, y) \in Int /\ SameModulo(P, f(x, y), g(x, y))
  <2>1. u * x \in Int /\ s * x \in Int /\ SameModulo(P, u * x, s * x)
    BY <1>3
  <2>2. k * y \in Int /\ t * (c * y) \in Int /\ SameModulo(P, k * y, t * (c * y))
    BY <1>4
  <2>3. SameModulo(P, u * x + k * y, s * x + t * (c * y))
    BY ONLY <1>1, <2>1, <2>2, ModuloPlus
  <2> QED BY <2>1, <2>2, <2>3
<1>6. SameModulo(P, g(r1, q1), f(r1, q1)) /\ SameModulo(P, f(r2, q2), g(r2, q2))
  <2> HIDE DEF f, g
  <2> QED BY <1>1, <1>5, ModuloSymmetric
<1>7. SameModulo(P, g(r1, q1), g(r2, q2))
  <2>1. SameModulo(P, f(r1, q1), f(r2, q2))
    OBVIOUS
  <2>2. f(r1, q1) \in Int /\ f(r2, q2) \in Int /\ g(r1, q1) \in Int /\ g(r2, q2) \in Int
    BY <1>5
  <2> HIDE DEF f, g
  <2>3. SameModulo(P, g(r1, q1), f(r2, q2))
    BY <1>1, <1>6, <2>1, <2>2, ModuloTransitive
  <2> QED BY <1>1, <1>6, <2>2, <2>3, ModuloTransitive
<1>8. SameModulo(P, s * g(r1, q1), s * g(r2, q2))
  <2>1. g(r1, q1) \in Int /\ g(r2, q2) \in Int
    BY <1>5
  <2> HIDE DEF f, g
  <2> QED BY <1>1, <1>2, <1>7, <2>1, ModuloTimes
<1>9. ASSUME NEW x \in Int, NEW y \in Int
      PROVE  s * g(x, y) = IF s = t THEN x + c * y ELSE x - c * y
  <2>1. c * y \in Int
    BY <1>1
  <2> HIDE DEF f
  <2>2. CASE s = 1 /\ t = 1
    BY <2>1, <2>2
  <2>3. CASE s = 1 /\ t = -1
    BY <2>1, <2>3
  <2>4. CASE s = -1 /\ t = 1
    BY <2>1, <2>4
  <2>5. CASE s = -1 /\ t = -1
    BY <2>1, <2>5
  <2> QED BY <1>2, <2>2, <2>3, <2>4, <2>5
<1> HIDE DEF f, g
<1>10. CASE s = t
  BY <1>8, <1>9, <1>10
<1>11. CASE s # t
  BY <1>8, <1>9, <1>11
<1> QED BY <1>10, <1>11

(* solve_euclidean determines: quotient and remainder are unique when the whole
   division stays below P. *)
LEMMA EuclideanSound ==
  ASSUME NEW m \in Models, NEW o \in Ops(m), NEW D, NEW B, NEW a, NEW b, Agree(m, D, a, b),
         BoundedBy(B, a), BoundedBy(B, b), B \in [DOMAIN B -> Nat]
  PROVE  SameOn(SolveEuclidean(o, D, B), a, b)
<1> DEFINE unknowns == Undetermined(o, D)
<1>1. CASE SolveEuclidean(o, D, B) = {}
  BY <1>1 DEF SameOn
<1>2. CASE SolveEuclidean(o, D, B) # {}
  <2>1. /\ IsAssertZero(o) /\ OpenMul(o, D) = {} /\ SolveEuclidean(o, D, B) = unknowns
        /\ \E r, q \in unknowns : unknowns = {r, q} /\ r # q /\ EuclideanSplit(o, B, r, q)
    BY <1>2 DEF SolveEuclidean, Undetermined
  <2>2. PICK r \in unknowns, q \in unknowns : unknowns = {r, q} /\ r # q /\ EuclideanSplit(o, B, r, q)
    BY <2>1
  <2>3. Expression(m, o) /\ Run(m, a) /\ Run(m, b)
    BY <2>1 DEF Expression, Agree
  <2> DEFINE u == Coefficient(o, r)
             k == Coefficient(o, q)
             c == Magnitude(k)
  <2>4. /\ IsUnit(u) /\ c >= 2 /\ r \in DOMAIN B /\ q \in DOMAIN B /\ B[r] < c /\ c * B[q] + B[r] < P
    BY <2>2 DEF EuclideanSplit
  <2>5. u \in Field /\ k \in Field
    BY <2>3, CoefficientType
  <2>6. /\ r \in m.wires /\ q \in m.wires
        /\ OpenWires(o, D, a) = u * a[r] + k * a[q] /\ OpenWires(o, D, b) = u * b[r] + k * b[q]
    <3>1. /\ {r, q} \subseteq o.wires \ D
          /\ OpenWires(o, D, a) = u * a[r] + k * a[q] /\ OpenWires(o, D, b) = u * b[r] + k * b[q]
      <4>1. TwoUndetermined(o, D, r, q)
        BY <2>2 DEF TwoUndetermined
      <4>2. /\ {r, q} \subseteq o.wires \ D
            /\ OpenWires(o, D, a) = Coefficient(o, r) * a[r] + Coefficient(o, q) * a[q]
        BY ONLY <2>3, <4>1, TwoOpenWires
      <4>3. OpenWires(o, D, b) = Coefficient(o, r) * b[r] + Coefficient(o, q) * b[q]
        BY ONLY <2>3, <4>1, TwoOpenWires
      <4> QED BY <4>2, <4>3
    <3> QED BY <2>3, <3>1, ExpressionFacts
  <2>7. OpenProducts(o, D, a) = 0 /\ OpenProducts(o, D, b) = 0
    BY <2>1, NoOpenProducts
  <2>8. SameModulo(P, OpenPart(o, D, a), OpenPart(o, D, b))
    BY <2>3, OpenSame DEF Agree
  <2> HIDE DEF unknowns, u, k
  <2>9. /\ a[r] \in Int /\ b[r] \in Int /\ a[q] \in Int /\ b[q] \in Int
        /\ 0 <= a[r] /\ 0 <= b[r] /\ 0 <= a[q] /\ 0 <= b[q]
    <3>1. a[r] \in 0..P-1 /\ b[r] \in 0..P-1 /\ a[q] \in 0..P-1 /\ b[q] \in 0..P-1
      BY <2>3, <2>6, RunFacts
    <3> QED BY <3>1, FieldBasics
  <2>10. /\ a[r] <= B[r] /\ b[r] <= B[r] /\ a[q] <= B[q] /\ b[q] <= B[q] /\ B[r] \in Int /\ B[q] \in Int
    BY <2>4 DEF BoundedBy
  <2>11. SameModulo(P, u * a[r] + k * a[q], u * b[r] + k * b[q])
    <3>1. u \in Int /\ k \in Int
      BY <2>5, FieldBasics
    <3>2. OpenPart(o, D, a) = u * a[r] + k * a[q] /\ OpenPart(o, D, b) = u * b[r] + k * b[q]
      BY <2>6, <2>7, <2>9, <3>1 DEF OpenPart
    <3> QED BY <2>8, <3>2
  <2>12. c \in Int
    BY <2>5, MagnitudeMeans
  <2>13. \/ SameModulo(P, a[r] + c * a[q], b[r] + c * b[q])
         \/ SameModulo(P, a[r] - c * a[q], b[r] - c * b[q])
    BY <2>4, <2>5, <2>9, <2>11, SignedDivision
  <2> HIDE DEF c
  <2>14. a[r] = b[r] /\ a[q] = b[q]
    BY <2>4, <2>9, <2>10, <2>12, <2>13, DivisionIsUnique
  <2> QED BY <2>1, <2>2, <2>14 DEF SameOn
<1> QED BY <1>1, <1>2

-----------------------------------------------------------------------------
(* apply_black_box: the outputs follow from the inputs. *)
LEMMA BlackBoxSound ==
  ASSUME NEW m \in Models, NEW o \in Ops(m), NEW D, NEW a, NEW b, Agree(m, D, a, b)
  PROVE  SameOn(ApplyBlackBox(o, D), a, b)
<1>1. CASE o.type \in {"BlackBox", "Bitwise"} /\ o.ins \subseteq D
  <2>1. IsFunction(m, o)
    BY <1>1, OpcodesMeanWhatTheySay DEF MeansWhatItSays
  <2>2. a \in Assignments(m) /\ b \in Assignments(m) /\ Holds(o, a) /\ Holds(o, b)
    BY RunFacts DEF Agree
  <2>3. SameOn(o.ins, a, b)
    BY <1>1 DEF Agree, SameOn
  <2> QED BY <1>1, <2>1, <2>2, <2>3 DEF ApplyBlackBox, IsFunction
<1>2. CASE ~(o.type \in {"BlackBox", "Bitwise"} /\ o.ins \subseteq D)
  BY <1>2 DEF ApplyBlackBox, SameOn
<1> QED BY <1>1, <1>2

(* learn_nonzero: a product that is a non-zero constant has no zero factor. *)
LEMMA NonzeroSound ==
  ASSUME NEW m \in Models, NEW o \in Ops(m), NEW a, Run(m, a)
  PROVE  NonzeroIn(LearnNonzero(o), a) /\ LearnNonzero(o) \subseteq m.wires
<1> DEFINE holds == IsAssertZero(o) /\ Len(o.mul) = 1 /\ o.lin = <<>> /\ o.q # 0 /\ o.mul[1][1] # 0
<1>1. CASE ~holds
  BY <1>1 DEF LearnNonzero, NonzeroIn
<1>2. CASE holds
  <2> DEFINE c == o.mul[1][1]
             x == o.mul[1][2]
             y == o.mul[1][3]
  <2>1. Expression(m, o)
    BY <1>2 DEF Expression
  <2>2. DOMAIN o.mul = {1} /\ DOMAIN o.lin = {}
    <3>1. o.mul \in Seq(Field \X m.wires \X m.wires)
      BY <1>2, OpcodesMeanWhatTheySay DEF MeansWhatItSays, IsAssertZero
    <3> QED BY <1>2, <3>1
  <2>3. x \in m.wires /\ y \in m.wires /\ c \in Int /\ o.q \in 1..P-1 /\ P \in Nat \ {0}
    <3>1. 1 \in DOMAIN o.mul
      BY <2>2
    <3>2. c \in Field /\ x \in m.wires /\ y \in m.wires
      BY <2>1, <3>1, ExpressionFacts
    <3>3. o.q \in Field /\ o.q # 0
      BY <1>2, <2>1, ExpressionFacts
    <3> QED BY <3>2, <3>3, FieldBasics DEF Field
  <2>4. a[x] \in Int /\ a[y] \in Int
    BY <2>3, RunFacts
  <2>5. MulTerm(o, a)[1] = c * a[x] * a[y] /\ MulTerm(o, a)[1] \in Int
    BY <2>2, <2>3, <2>4 DEF MulTerm
  <2>6. SumFunctionOnSet(MulTerm(o, a), {1}) = c * a[x] * a[y]
    BY <2>5, SumOne
  <2>7. SameModulo(P, o.q + SumFunctionOnSet(MulTerm(o, a), DOMAIN o.mul)
                          + SumFunctionOnSet(LinTerm(o, a), DOMAIN o.lin), 0)
    BY <2>1, RunEquation
  <2>8. SumFunctionOnSet(MulTerm(o, a), DOMAIN o.mul) = c * a[x] * a[y]
    BY <2>2, <2>6, Zenon
  <2>9. SumFunctionOnSet(LinTerm(o, a), DOMAIN o.lin) = 0
    BY <2>2, SumEmpty, Zenon
  <2>10. LearnNonzero(o) = {x, y}
    BY <1>2 DEF LearnNonzero, Factors
  <2> HIDE DEF holds, c, x, y
  <2>11. ASSUME a[x] = 0 \/ a[y] = 0 PROVE FALSE
    <3>1. c * a[x] * a[y] = 0
      BY <2>3, <2>4, <2>11
    <3>2. o.q + c * a[x] * a[y] + 0 = o.q
      BY <2>3, <3>1
    <3>3. SameModulo(P, o.q, 0)
      BY <2>7, <2>8, <2>9, <3>2
    <3>4. o.q \in Int /\ 0 \in Int /\ o.q - 0 < P /\ 0 - o.q < P /\ o.q # 0
      BY <2>3
    <3> QED BY <2>3, <3>3, <3>4, ModuloSmall
  <2> QED BY <2>3, <2>10, <2>11 DEF NonzeroIn
<1> QED BY <1>1, <1>2

-----------------------------------------------------------------------------
(* infer_constant_signals. *)
ValuesHold(C, a) == \A w \in DOMAIN C : a[w] = C[w]

FixedValues(o, C) ==
  [i \in Live(o.lin) \ OpenLin(o, DOMAIN C) |-> o.lin[i][1] * C[o.lin[i][2]]]
FixedMul(o, C) == [i \in Live(o.mul) |-> o.mul[i][1] * C[o.mul[i][2]] * C[o.mul[i][3]]]
Known(o, C) == o.q + SumFunction(FixedValues(o, C)) + SumFunction(FixedMul(o, C))

LEMMA KnownProducts ==
  ASSUME NEW m, NEW o, Expression(m, o), NEW a, Run(m, a), NEW C, ValuesHold(C, a), OpenMul(o, DOMAIN C) = {}
  PROVE  SumFunctionOnSet(MulTerm(o, a), DOMAIN o.mul) = SumFunction(FixedMul(o, C))
<1>1. IsFiniteSet(DOMAIN o.mul) /\ IntegerAt(DOMAIN o.mul, MulTerm(o, a))
  BY ExpressionFacts, TermTypes
<1>2. Live(o.mul) \subseteq DOMAIN o.mul
  BY DEF Live
<1>3. IsFiniteSet(Live(o.mul))
  BY <1>1, <1>2, FS_Subset
<1>4. ASSUME NEW i \in DOMAIN o.mul \ Live(o.mul) PROVE MulTerm(o, a)[i] = 0
  <2>1. o.mul[i][1] = 0
    BY DEF Live
  <2>2. o.mul[i][2] \in m.wires /\ o.mul[i][3] \in m.wires
    BY ExpressionFacts
  <2>3. a[o.mul[i][2]] \in Int /\ a[o.mul[i][3]] \in Int
    BY <2>2, RunFacts
  <2>4. MulTerm(o, a)[i] = o.mul[i][1] * a[o.mul[i][2]] * a[o.mul[i][3]]
    BY DEF MulTerm
  <2> QED BY <2>1, <2>3, <2>4
<1>5. SumFunctionOnSet(MulTerm(o, a), DOMAIN o.mul) = SumFunctionOnSet(MulTerm(o, a), Live(o.mul))
  BY <1>1, <1>2, <1>4, SumNonzero
<1>6. ASSUME NEW i \in Live(o.mul) PROVE MulTerm(o, a)[i] = FixedMul(o, C)[i]
  <2>1. Factors(o, i) \subseteq DOMAIN C /\ i \in DOMAIN o.mul
    BY <1>2 DEF OpenMul
  <2>2. a[o.mul[i][2]] = C[o.mul[i][2]] /\ a[o.mul[i][3]] = C[o.mul[i][3]]
    BY <2>1 DEF Factors, ValuesHold
  <2>3. MulTerm(o, a)[i] = o.mul[i][1] * a[o.mul[i][2]] * a[o.mul[i][3]]
    BY <2>1 DEF MulTerm
  <2>4. FixedMul(o, C)[i] = o.mul[i][1] * C[o.mul[i][2]] * C[o.mul[i][3]]
    BY DEF FixedMul
  <2> QED BY <2>2, <2>3, <2>4
<1>7. SameAt(Live(o.mul), MulTerm(o, a), FixedMul(o, C))
  BY <1>6 DEF SameAt
<1>8. SumFunctionOnSet(MulTerm(o, a), Live(o.mul)) = SumFunctionOnSet(FixedMul(o, C), Live(o.mul))
  BY <1>3, <1>7, SumSame
<1>9. DOMAIN FixedMul(o, C) = Live(o.mul)
  BY DEF FixedMul
<1> QED BY <1>5, <1>8, <1>9, Zenon DEF SumFunction

LEMMA KnownValues ==
  ASSUME NEW m, NEW o, Expression(m, o), NEW a, Run(m, a), NEW C, ValuesHold(C, a)
  PROVE  /\ SumFunctionOnSet(LinTerm(o, a), OpenLin(o, DOMAIN C)) \in Int
         /\ SumFunction(FixedValues(o, C)) \in Int
         /\ SumFunctionOnSet(LinTerm(o, a), DOMAIN o.lin)
              = SumFunctionOnSet(LinTerm(o, a), OpenLin(o, DOMAIN C)) + SumFunction(FixedValues(o, C))
<1> DEFINE L == Live(o.lin)
           S == OpenLin(o, DOMAIN C)
           T == L \ S
<1>1. IsFiniteSet(DOMAIN o.lin) /\ IntegerAt(DOMAIN o.lin, LinTerm(o, a))
  BY ExpressionFacts, TermTypes
<1>2. L \subseteq DOMAIN o.lin /\ S \subseteq L /\ T \subseteq L
  BY DEF Live, OpenLin
<1>3. ASSUME NEW i \in DOMAIN o.lin \ L PROVE LinTerm(o, a)[i] = 0
  <2>1. o.lin[i][1] = 0
    BY DEF Live
  <2>2. o.lin[i][2] \in m.wires
    BY ExpressionFacts
  <2>3. a[o.lin[i][2]] \in Int
    BY <2>2, RunFacts
  <2>4. LinTerm(o, a)[i] = o.lin[i][1] * a[o.lin[i][2]]
    BY DEF LinTerm
  <2> QED BY <2>1, <2>3, <2>4
<1>4. ASSUME NEW i \in T PROVE LinTerm(o, a)[i] = FixedValues(o, C)[i]
  <2>1. o.lin[i][2] \in DOMAIN C /\ i \in DOMAIN o.lin
    BY <1>2 DEF OpenLin
  <2>2. LinTerm(o, a)[i] = o.lin[i][1] * a[o.lin[i][2]]
    BY <2>1 DEF LinTerm
  <2>3. FixedValues(o, C)[i] = o.lin[i][1] * C[o.lin[i][2]]
    BY DEF FixedValues
  <2> QED BY <2>1, <2>2, <2>3 DEF ValuesHold
<1>5. DOMAIN FixedValues(o, C) = T
  BY DEF FixedValues
<1> HIDE DEF L, S
<1>6. SumFunctionOnSet(LinTerm(o, a), DOMAIN o.lin) = SumFunctionOnSet(LinTerm(o, a), L)
  BY <1>1, <1>2, <1>3, SumNonzero
<1>7. IsFiniteSet(L) /\ IntegerAt(L, LinTerm(o, a))
  BY <1>1, <1>2, FS_Subset DEF IntegerAt
<1>8. /\ SumFunctionOnSet(LinTerm(o, a), S) \in Int /\ SumFunctionOnSet(LinTerm(o, a), L \ S) \in Int
      /\ SumFunctionOnSet(LinTerm(o, a), L) = SumFunctionOnSet(LinTerm(o, a), S) + SumFunctionOnSet(LinTerm(o, a), L \ S)
  BY <1>2, <1>7, SumSplit
<1>9. SumFunctionOnSet(LinTerm(o, a), T) = SumFunctionOnSet(FixedValues(o, C), T)
  <2>1. SameAt(T, LinTerm(o, a), FixedValues(o, C))
    BY <1>4 DEF SameAt
  <2>2. IsFiniteSet(T)
    BY <1>2, <1>7, FS_Subset
  <2> HIDE DEF T
  <2> QED BY <2>1, <2>2, SumSame
<1>10. SumFunction(FixedValues(o, C)) = SumFunctionOnSet(LinTerm(o, a), T)
  BY <1>5, <1>9, Zenon DEF SumFunction
<1> QED BY <1>6, <1>8, <1>10 DEF S

(* The open terms when all of them are of one wire. *)
LEMMA OpenTermsOfOne ==
  ASSUME NEW m, NEW o, Expression(m, o), NEW a, Run(m, a), NEW D, NEW w \in m.wires, Undetermined(o, D) = {w}
  PROVE  SameModulo(P, SumFunctionOnSet(LinTerm(o, a), OpenLin(o, D)), Coefficient(o, w) * a[w])
<1> DEFINE S == OpenLin(o, D)
           c == SumFunctionOnSet(Coefficients(o.lin), S)
<1>1. S \subseteq DOMAIN o.lin /\ \A i \in S : o.lin[i][2] = w
  BY DEF OpenLin, Live, Undetermined
<1>2. w \notin D /\ OpenAt(o, D, w) = S
  BY DEF OpenLin, Undetermined, OpenAt
<1>3. IsFiniteSet(S) /\ IntegerAt(S, Coefficients(o.lin)) /\ P \in Nat \ {0} /\ a[w] \in Int
  BY <1>1, ExpressionFacts, CoefficientType, RunFacts, FieldBasics, FS_Subset DEF IntegerAt
<1>4. ASSUME NEW i \in S PROVE LinTerm(o, a)[i] = a[w] * Coefficients(o.lin)[i]
  <2>1. i \in DOMAIN o.lin /\ o.lin[i][2] = w
    BY <1>1
  <2>2. o.lin[i][1] \in Int
    BY <2>1, ExpressionFacts, FieldBasics
  <2>3. LinTerm(o, a)[i] = o.lin[i][1] * a[w] /\ Coefficients(o.lin)[i] = o.lin[i][1]
    BY <2>1 DEF LinTerm, Coefficients
  <2> QED BY <1>3, <2>2, <2>3
<1>5. Coefficient(o, w) = SumFunctionOnSet(Coefficients(o.lin), OpenAt(o, D, w)) % P
  BY <1>2, OpenCoefficient
<1>6. Coefficient(o, w) = c % P
  BY <1>2, <1>5, Zenon
<1>7. c \in Int
  BY <1>3, SumType
<1>8. SumFunctionOnSet(LinTerm(o, a), S) = a[w] * c
  <2> HIDE DEF S
  <2> QED BY <1>3, <1>4, SumTimes
<1> HIDE DEF S, c
<1>9. c % P \in Int /\ SameModulo(P, c % P, c)
  <2>1. c % P \in 0..P-1 /\ SameModulo(P, c % P, c)
    BY <1>3, <1>7, ModuloBasics
  <2> QED BY <1>3, <2>1
<1>10. SameModulo(P, c, c % P)
  BY <1>3, <1>7, <1>9, ModuloSymmetric
<1>11. SameModulo(P, a[w] * c, a[w] * (c % P))
  BY <1>3, <1>7, <1>9, <1>10, ModuloTimes
<1>12. Coefficient(o, w) * a[w] = a[w] * (c % P)
  BY <1>3, <1>6, <1>9
<1> QED BY <1>8, <1>11, <1>12 DEF S

LEMMA FoldMeans ==
  ASSUME NEW m, NEW o, NEW C, NEW f, f \in FoldConstant(o, C)
  PROVE  /\ IsAssertZero(o) /\ OpenMul(o, DOMAIN C) = {} /\ f[1] \in Undetermined(o, DOMAIN C) /\ f[2] \in Field
         /\ Undetermined(o, DOMAIN C) = {f[1]} /\ Coefficient(o, f[1]) # 0
         /\ (Coefficient(o, f[1]) * f[2] + Known(o, C)) % P = 0
<1> DEFINE unknowns == {o.lin[i][2] : i \in OpenLin(o, DOMAIN C)}
           rest == o.q + SumFunction([i \in Live(o.lin) \ OpenLin(o, DOMAIN C) |-> o.lin[i][1] * C[o.lin[i][2]]])
                       + SumFunction([i \in Live(o.mul) |-> o.mul[i][1] * C[o.mul[i][2]] * C[o.mul[i][3]]])
<1>1. IsAssertZero(o) /\ OpenMul(o, DOMAIN C) = {}
  BY DEF FoldConstant
<1>2. f \in {g \in unknowns \X Field : /\ unknowns = {g[1]} /\ Coefficient(o, g[1]) # 0
                                       /\ (Coefficient(o, g[1]) * g[2] + rest) % P = 0}
  BY <1>1 DEF FoldConstant
<1>3. unknowns = Undetermined(o, DOMAIN C)
  BY DEF Undetermined
<1>4. rest = Known(o, C)
  BY Zenon DEF Known, FixedValues, FixedMul
<1> HIDE DEF unknowns, rest
<1> QED BY <1>1, <1>2, <1>3, <1>4

(* A folded constant is the value of its wire in every run. *)
LEMMA FoldSound ==
  ASSUME NEW m \in Models, NEW o \in Ops(m), NEW C, NEW f, f \in FoldConstant(o, C), NEW a, Run(m, a), ValuesHold(C, a)
  PROVE  f[1] \in m.wires /\ f[2] \in Field /\ a[f[1]] = f[2]
<1> DEFINE w == f[1]
           D == DOMAIN C
           c == Coefficient(o, w)
           x == SumFunctionOnSet(LinTerm(o, a), OpenLin(o, D))
           values == SumFunction(FixedValues(o, C))
           products == SumFunction(FixedMul(o, C))
           known == Known(o, C)
<1>1. /\ IsAssertZero(o) /\ OpenMul(o, D) = {} /\ w \in Undetermined(o, D) /\ f[2] \in Field
      /\ Undetermined(o, D) = {w} /\ c # 0 /\ (c * f[2] + known) % P = 0
  BY FoldMeans
<1>2. Expression(m, o)
  BY <1>1 DEF Expression
<1>3. w \in m.wires
  <2>1. PICK i \in OpenLin(o, D) : o.lin[i][2] = w
    BY <1>1 DEF Undetermined
  <2>2. i \in DOMAIN o.lin
    BY DEF OpenLin, Live
  <2> QED BY <1>2, <2>1, <2>2, ExpressionFacts
<1>4. P \in Nat \ {0} /\ o.q \in Int /\ c \in 0..P-1 /\ a[w] \in 0..P-1 /\ f[2] \in 0..P-1
  BY <1>1, <1>2, <1>3, ExpressionFacts, CoefficientType, RunFacts, FieldBasics DEF Field
<1>5. SumFunctionOnSet(MulTerm(o, a), DOMAIN o.mul) = products /\ products \in Int
  <2>1. SumFunctionOnSet(MulTerm(o, a), DOMAIN o.mul) = products
    BY <1>1, <1>2, KnownProducts
  <2> QED BY <1>2, <2>1, RunEquation
<1>6. x \in Int /\ values \in Int /\ SumFunctionOnSet(LinTerm(o, a), DOMAIN o.lin) = x + values
  BY <1>2, KnownValues
<1>7. SameModulo(P, o.q + SumFunctionOnSet(MulTerm(o, a), DOMAIN o.mul)
                        + SumFunctionOnSet(LinTerm(o, a), DOMAIN o.lin), 0)
  BY <1>2, RunEquation
<1>8. SameModulo(P, x, c * a[w])
  BY <1>1, <1>2, <1>3, OpenTermsOfOne
<1>9. known = o.q + values + products
  BY DEF Known
<1> HIDE DEF w, D, c, x, values, products, known
<1>10. known \in Int /\ c * a[w] \in Int /\ c * f[2] \in Int
  BY <1>4, <1>5, <1>6, <1>9
<1>11. SameModulo(P, x + known, 0)
  <2>1. o.q + products + (x + values) = x + known
    BY <1>4, <1>5, <1>6, <1>9
  <2> QED BY <1>5, <1>6, <1>7, <2>1
<1>12. SameModulo(P, c * a[w] + known, 0)
  <2>1. SameModulo(P, c * a[w], x) /\ SameModulo(P, known, known)
    BY <1>4, <1>6, <1>8, <1>10, ModuloSymmetric, ModuloBasics
  <2>2. SameModulo(P, c * a[w] + known, x + known)
    BY <1>4, <1>6, <1>10, <2>1, ModuloPlus
  <2>3. c * a[w] + known \in Int /\ x + known \in Int
    BY <1>6, <1>10
  <2> QED BY <1>4, <1>11, <2>2, <2>3, ModuloTransitive
<1>13. SameModulo(P, c * f[2] + known, 0)
  <2>1. c * f[2] + known \in Int
    BY <1>10
  <2> QED BY <1>1, <1>4, <2>1, ModuloZero
<1>14. SameModulo(P, c * a[w], c * f[2])
  <2>1. c * a[w] + known \in Int /\ c * f[2] + known \in Int
    BY <1>10
  <2>2. SameModulo(P, 0, c * f[2] + known)
    <3> DEFINE z == c * f[2] + known
    <3>1. z \in Int /\ SameModulo(P, z, 0) /\ 0 \in Int /\ P \in Nat \ {0}
      BY <1>4, <1>13, <2>1
    <3> HIDE DEF z
    <3>2. SameModulo(P, 0, z)
      BY ONLY <3>1, ModuloSymmetric
    <3> QED BY <3>2 DEF z
  <2>3. SameModulo(P, c * a[w] + known, c * f[2] + known)
    BY <1>4, <1>12, <2>1, <2>2, ModuloTransitive
  <2>4. (c * a[w] + known) - (c * f[2] + known) = c * a[w] - c * f[2]
    BY <1>10
  <2> QED BY <2>3, <2>4 DEF SameModulo
<1>15. c \in Int /\ c % P # 0
  BY <1>1, <1>4
<1>16. a[w] = f[2]
  BY <1>4, <1>14, <1>15, Cancel
<1> QED BY <1>1, <1>3, <1>16 DEF w

-----------------------------------------------------------------------------
(* RANGE: the tightest of the limits on a wire. *)
LEMMA RangeSound ==
  ASSUME NEW m \in Models
  PROVE  /\ RangeBounds(m) \in [DOMAIN RangeBounds(m) -> Nat] /\ DOMAIN RangeBounds(m) \subseteq m.wires
         /\ \A a : Run(m, a) => BoundedBy(RangeBounds(m), a)
<1> DEFINE of(w) == {o.bits : o \in {r \in Ops(m) : r.type = "RANGE" /\ w \in r.wires}}
           limits(w) == {2^b - 1 : b \in of(w)}
           B == [w \in {v \in m.wires : of(v) # {}} |-> Min(limits(w))]
<1>1. RangeBounds(m) = B
  BY DEF RangeBounds
<1>2. IsFiniteSet(Ops(m))
  <2>1. m.opcodes \in Seq(Ops(m))
    BY OpcodesAreListed
  <2>2. DOMAIN m.opcodes = 1..Len(m.opcodes) /\ Len(m.opcodes) \in Nat
    BY <2>1
  <2>3. IsFiniteSet(DOMAIN m.opcodes)
    BY <2>2, FS_Interval
  <2>4. IsFiniteSet({m.opcodes[i] : i \in DOMAIN m.opcodes})
    BY <2>3, ImageFinite
  <2> QED BY <2>4 DEF Ops
<1>3. ASSUME NEW w \in m.wires, of(w) # {}
      PROVE  /\ limits(w) # {} /\ limits(w) \in SUBSET Int /\ IsFiniteSet(limits(w))
             /\ \A l \in limits(w) : l \in Nat /\ \A a : Run(m, a) => a[w] <= l
  <2> DEFINE R == {r \in Ops(m) : r.type = "RANGE" /\ w \in r.wires}
             g == [r \in R |-> 2^r.bits - 1]
  <2>1. limits(w) = {g[r] : r \in R}
    OBVIOUS
  <2>2. R \in SUBSET Ops(m) /\ R # {}
    BY <1>3
  <2>3. DOMAIN g = R
    OBVIOUS
  <2>4. ASSUME NEW r \in R PROVE g[r] \in Nat /\ \A a : Run(m, a) => a[w] <= g[r]
    <3>1. r \in Ops(m) /\ r.type = "RANGE" /\ w \in r.wires /\ g[r] = 2^r.bits - 1
      OBVIOUS
    <3>2. /\ 2^r.bits \in Nat \ {0}
          /\ \A a \in Assignments(m) : Holds(r, a) => \A v \in r.wires : a[v] < 2^r.bits
      BY <3>1, OpcodesMeanWhatTheySay DEF MeansWhatItSays
    <3> DEFINE n == 2^r.bits
    <3> HIDE DEF g, R
    <3>3. g[r] = n - 1 /\ n \in Nat \ {0}
      BY <3>1, <3>2
    <3>4. ASSUME NEW a, Run(m, a) PROVE a[w] <= g[r]
      <4>1. a \in Assignments(m) /\ Holds(r, a) /\ a[w] \in Int
        BY <3>1, <3>4, RunFacts
      <4>2. a[w] < n
        BY <3>1, <3>2, <4>1
      <4> HIDE DEF n
      <4> QED BY <3>3, <4>1, <4>2
    <3> HIDE DEF n
    <3> QED BY <3>3, <3>4
  <2> HIDE DEF g, R
  <2>5. IsFiniteSet(R)
    BY <1>2, <2>2, FS_Subset
  <2>6. IsFiniteSet({g[r] : r \in R})
    BY <2>3, <2>5, ImageFinite
  <2> HIDE DEF limits
  <2>7. limits(w) # {} /\ limits(w) \in SUBSET Int
    BY <2>1, <2>2, <2>4
  <2> QED BY <2>1, <2>4, <2>6, <2>7
<1>4. ASSUME NEW w \in DOMAIN B PROVE w \in m.wires /\ B[w] \in Nat /\ \A a : Run(m, a) => a[w] <= B[w]
  <2>1. w \in m.wires /\ of(w) # {} /\ B[w] = Min(limits(w))
    OBVIOUS
  <2> HIDE DEF B, limits
  <2>2. B[w] \in limits(w)
    BY <1>3, <2>1, MinExists
  <2> QED BY <1>3, <2>1, <2>2
<1> HIDE DEF B
<1>5. B = [w \in DOMAIN B |-> B[w]]
  BY DEF B
<1>6. B \in [DOMAIN B -> Nat]
  BY <1>4, <1>5
<1> QED BY <1>1, <1>4, <1>6 DEF BoundedBy

-----------------------------------------------------------------------------
(* propagate_bounds.  The terms of one side, as non-negative integers. *)
SideTerm(o, s, a) == [i \in Side(o, s) |-> Magnitude(o.lin[i][1]) * a[o.lin[i][2]]]
SideSum(o, s, a) == SumFunctionOnSet(SideTerm(o, s, a), Side(o, s))
SideValue(o, s, a) == SideSum(o, s, a) + SideConstant(o, s)

LEMMA SideMeans ==
  ASSUME NEW o, NEW s \in BOOLEAN, NEW r \in BOOLEAN, s = TRUE, r = FALSE
  PROVE  /\ Side(o, s) = {i \in Live(o.lin) : o.lin[i][1] <= Half}
         /\ Side(o, r) = {i \in Live(o.lin) : ~(o.lin[i][1] <= Half)}
         /\ o.q <= Half => SideConstant(o, s) = Magnitude(o.q) /\ SideConstant(o, r) = 0
         /\ ~(o.q <= Half) => SideConstant(o, s) = 0 /\ SideConstant(o, r) = Magnitude(o.q)
<1>1. Side(o, s) = {i \in Live(o.lin) : o.lin[i][1] <= Half}
  BY DEF Side
<1>2. Side(o, r) = {i \in Live(o.lin) : ~(o.lin[i][1] <= Half)}
  BY DEF Side
<1>3. o.q <= Half => SideConstant(o, s) = Magnitude(o.q) /\ SideConstant(o, r) = 0
  BY DEF SideConstant
<1>4. ~(o.q <= Half) => SideConstant(o, s) = 0 /\ SideConstant(o, r) = Magnitude(o.q)
  <2> SUFFICES ASSUME ~(o.q <= Half) PROVE SideConstant(o, s) = 0 /\ SideConstant(o, r) = Magnitude(o.q)
    OBVIOUS
  <2>1. (o.q <= Half) = FALSE
    OBVIOUS
  <2>2. ((o.q <= Half) = s) = FALSE /\ (o.q <= Half) = r
    BY <2>1, Zenon
  <2> QED BY <2>2, Zenon DEF SideConstant
<1> QED BY <1>1, <1>2, <1>3, <1>4

(* The terms of a side are natural numbers. *)
LEMMA SideTypes ==
  ASSUME NEW m, NEW o, Expression(m, o), NEW a, Run(m, a), NEW s \in BOOLEAN
  PROVE  /\ IsFiniteSet(Side(o, s)) /\ IntegerAt(Side(o, s), SideTerm(o, s, a))
         /\ \A i \in Side(o, s) : /\ i \in DOMAIN o.lin /\ o.lin[i][1] \in Field /\ o.lin[i][2] \in m.wires
                                  /\ Magnitude(o.lin[i][1]) \in Nat \ {0}
                                  /\ a[o.lin[i][2]] \in Nat
                                  /\ SideTerm(o, s, a)[i] = Magnitude(o.lin[i][1]) * a[o.lin[i][2]]
                                  /\ SideTerm(o, s, a)[i] >= 0
         /\ SideSum(o, s, a) \in Int /\ SideConstant(o, s) \in Nat
<1>1. ASSUME NEW i \in Side(o, s)
      PROVE  /\ i \in DOMAIN o.lin /\ o.lin[i][1] \in Field /\ o.lin[i][2] \in m.wires
             /\ Magnitude(o.lin[i][1]) \in Nat \ {0} /\ a[o.lin[i][2]] \in Nat
             /\ SideTerm(o, s, a)[i] = Magnitude(o.lin[i][1]) * a[o.lin[i][2]]
             /\ SideTerm(o, s, a)[i] \in Int /\ SideTerm(o, s, a)[i] >= 0
  <2>1. i \in DOMAIN o.lin /\ o.lin[i][1] # 0
    BY DEF Side, Live
  <2>2. o.lin[i][1] \in Field /\ o.lin[i][2] \in m.wires
    BY <2>1, ExpressionFacts
  <2>3. a[o.lin[i][2]] \in Nat
    BY <2>2, RunFacts, FieldBasics
  <2>4. Magnitude(o.lin[i][1]) \in Nat \ {0}
    BY <2>1, <2>2, MagnitudeType
  <2>5. SideTerm(o, s, a)[i] = Magnitude(o.lin[i][1]) * a[o.lin[i][2]]
    BY DEF SideTerm
  <2>6. \A x, y \in Nat : x * y \in Int /\ x * y >= 0
    OBVIOUS
  <2> QED BY <2>1, <2>2, <2>3, <2>4, <2>5, <2>6
<1>2. IsFiniteSet(Side(o, s))
  <2>1. Side(o, s) \in SUBSET DOMAIN o.lin
    BY DEF Side, Live
  <2> QED BY <2>1, ExpressionFacts, FS_Subset
<1>3. IntegerAt(Side(o, s), SideTerm(o, s, a))
  BY <1>1 DEF IntegerAt
<1>4. SideSum(o, s, a) \in Int
  BY <1>2, <1>3, SumType DEF SideSum
<1>5. SideConstant(o, s) \in Nat
  BY ExpressionFacts, MagnitudeType DEF SideConstant
<1> QED BY <1>1, <1>2, <1>3, <1>4, <1>5

(* Without products an expression is one side less the other. *)
LEMMA SidesCongruent ==
  ASSUME NEW m, NEW o, Expression(m, o), o.mul = <<>>, NEW a, Run(m, a),
         NEW s \in BOOLEAN, NEW r \in BOOLEAN, s = TRUE, r = FALSE
  PROVE  SameModulo(P, SideValue(o, s, a), SideValue(o, r, a))
<1> DEFINE f == LinTerm(o, a)
           L == Live(o.lin)
           S == Side(o, s)
           T == Side(o, r)
           plus == SideSum(o, s, a)
           minus == SideSum(o, r, a)
           p == SideConstant(o, s)
           n == SideConstant(o, r)
           lin == SumFunctionOnSet(f, DOMAIN o.lin)
<1>1. P \in Nat \ {0} /\ o.q \in Field /\ o.q \in Int /\ lin \in Int
  BY ExpressionFacts, LinearByWire, FieldBasics
<1>2. SameModulo(P, o.q + lin, 0)
  <2>1. DOMAIN o.mul = {}
    OBVIOUS
  <2>2. SumFunctionOnSet(MulTerm(o, a), DOMAIN o.mul) = 0
    BY <2>1, SumEmpty, Zenon
  <2>3. SameModulo(P, o.q + SumFunctionOnSet(MulTerm(o, a), DOMAIN o.mul) + lin, 0)
    BY RunEquation
  <2> HIDE DEF lin
  <2>4. o.q + 0 + lin = o.q + lin
    BY <1>1
  <2> QED BY <2>2, <2>3, <2>4
<1>3. S \subseteq L /\ L \ S = T /\ L \subseteq DOMAIN o.lin /\ \A i \in T : o.lin[i][1] > Half
  <2>1. L \subseteq DOMAIN o.lin /\ S \subseteq L /\ L \ S = T
    BY SideMeans DEF Live
  <2>2. ASSUME NEW i \in T PROVE o.lin[i][1] > Half
    <3>1. i \in L /\ ~(o.lin[i][1] <= Half)
      BY SideMeans
    <3>2. o.lin[i][1] \in Int
      BY <2>1, <3>1, ExpressionFacts, FieldBasics
    <3>3. Half \in Int
      BY <1>1 DEF Half
    <3> QED BY <3>1, <3>2, <3>3
  <2> QED BY <2>1, <2>2
<1>4. lin = SumFunctionOnSet(f, S) + SumFunctionOnSet(f, T) /\ SumFunctionOnSet(f, S) \in Int /\ SumFunctionOnSet(f, T) \in Int
  <2>1. IsFiniteSet(DOMAIN o.lin) /\ IntegerAt(DOMAIN o.lin, f)
    BY ExpressionFacts, TermTypes
  <2>2. ASSUME NEW i \in DOMAIN o.lin \ L PROVE f[i] = 0
    <3>1. o.lin[i][1] = 0
      BY DEF Live
    <3>2. o.lin[i][2] \in m.wires
      BY ExpressionFacts
    <3>3. a[o.lin[i][2]] \in Int
      BY <3>2, RunFacts
    <3>4. f[i] = o.lin[i][1] * a[o.lin[i][2]]
      BY DEF LinTerm
    <3> QED BY <3>1, <3>3, <3>4
  <2> HIDE DEF f, L, S, T
  <2>3. lin = SumFunctionOnSet(f, L)
    BY <1>3, <2>1, <2>2, SumNonzero
  <2>4. IsFiniteSet(L) /\ IntegerAt(L, f)
    BY <1>3, <2>1, FS_Subset DEF IntegerAt
  <2>5. /\ SumFunctionOnSet(f, S) \in Int /\ SumFunctionOnSet(f, L \ S) \in Int
        /\ SumFunctionOnSet(f, L) = SumFunctionOnSet(f, S) + SumFunctionOnSet(f, L \ S)
    BY <1>3, <2>4, SumSplit
  <2>6. SumFunctionOnSet(f, L \ S) = SumFunctionOnSet(f, T)
    BY <1>3, Zenon
  <2> QED BY <2>3, <2>5, <2>6
<1>5. SumFunctionOnSet(f, S) = plus
  <2>1. ASSUME NEW i \in S PROVE f[i] = SideTerm(o, s, a)[i]
    <3>1. i \in DOMAIN o.lin /\ o.lin[i][1] <= Half /\ o.lin[i][1] \in Field
      BY SideMeans, SideTypes
    <3>2. Magnitude(o.lin[i][1]) = o.lin[i][1]
      BY <3>1, MagnitudeType
    <3>3. f[i] = o.lin[i][1] * a[o.lin[i][2]]
      BY <3>1 DEF LinTerm
    <3>4. SideTerm(o, s, a)[i] = Magnitude(o.lin[i][1]) * a[o.lin[i][2]]
      BY DEF SideTerm
    <3> QED BY <3>2, <3>3, <3>4
  <2>2. SameAt(S, f, SideTerm(o, s, a)) /\ IsFiniteSet(S)
    BY <2>1, SideTypes DEF SameAt
  <2> QED BY <2>2, SumSame DEF SideSum
<1>6. minus \in Int /\ SameModulo(P, SumFunctionOnSet(f, T), -minus)
  <2> DEFINE g == SideTerm(o, r, a)
             h == [i \in T |-> -g[i]]
  <2>1. IsFiniteSet(T) /\ IntegerAt(T, g) /\ minus \in Int /\ minus = SumFunctionOnSet(g, T)
    BY SideTypes DEF SideSum
  <2>2. ASSUME NEW i \in T PROVE f[i] \in Int /\ h[i] \in Int /\ h[i] = -g[i] /\ SameModulo(P, f[i], h[i])
    <3>0. o.lin[i][1] > Half
      BY <1>3
    <3>1. /\ i \in DOMAIN o.lin /\ o.lin[i][1] > Half /\ o.lin[i][1] \in Field /\ a[o.lin[i][2]] \in Int
          /\ g[i] = Magnitude(o.lin[i][1]) * a[o.lin[i][2]] /\ g[i] \in Int
      BY <3>0, SideTypes DEF IntegerAt
    <3>2. SameModulo(P, o.lin[i][1] * a[o.lin[i][2]], -(Magnitude(o.lin[i][1]) * a[o.lin[i][2]]))
      BY <3>1, MagnitudeMeans
    <3>3. f[i] = o.lin[i][1] * a[o.lin[i][2]]
      BY <3>1 DEF LinTerm
    <3>4. f[i] \in Int
      BY <3>1, TermTypes DEF IntegerAt
    <3>5. h[i] = -g[i]
      OBVIOUS
    <3> HIDE DEF f, g, h, T
    <3>6. h[i] \in Int /\ h[i] = -g[i]
      BY <3>1, <3>5
    <3>7. SameModulo(P, f[i], -g[i])
      BY <3>1, <3>2, <3>3
    <3> QED BY <3>4, <3>5, <3>6, <3>7
  <2> HIDE DEF f, g, h, T
  <2>3. IntegerAt(T, f) /\ IntegerAt(T, h)
    BY <2>2 DEF IntegerAt
  <2>4. SumFunctionOnSet(h, T) = -minus
    <3> HIDE DEF minus
    <3>1. ASSUME NEW k \in Int, k = -1 PROVE SumFunctionOnSet(h, T) = -minus
      <4>1. \A i \in T : h[i] = k * g[i]
        BY <2>2, <2>1, <3>1 DEF IntegerAt
      <4>2. SumFunctionOnSet(h, T) = k * SumFunctionOnSet(g, T)
        BY ONLY <2>1, <4>1, k \in Int, SumTimes
      <4>3. SumFunctionOnSet(h, T) = k * minus
        BY <4>2, <2>1, Zenon
      <4> QED BY <2>1, <3>1, <4>3
    <3>2. -1 \in Int
      OBVIOUS
    <3> QED BY <3>1, <3>2
  <2>5. SameModulo(P, SumFunctionOnSet(f, T), SumFunctionOnSet(h, T))
    BY <1>1, <2>1, <2>2, <2>3, SumModulo
  <2> QED BY <2>1, <2>4, <2>5, Zenon
<1>7. plus \in Int /\ p \in Int /\ n \in Int /\ SameModulo(P, o.q, p - n)
  <2>1. plus \in Int
    BY SideTypes, Zenon
  <2>4. SideConstant(o, s) \in Nat /\ SideConstant(o, r) \in Nat
    BY SideTypes, Zenon
  <2>5. p \in Int /\ n \in Int
    BY ONLY <2>4
  <2>2. CASE o.q <= Half
    <3>1. p = o.q /\ n = 0
      BY <1>1, <2>2, SideMeans, MagnitudeType
    <3>2. p - n = o.q
      BY ONLY <1>1, <3>1
    <3>3. SameModulo(P, o.q, o.q)
      BY <1>1, ModuloBasics
    <3> HIDE DEF p, n
    <3> QED BY <2>1, <2>5, <3>2, <3>3, Zenon
  <2>3. CASE ~(o.q <= Half)
    <3>1. p = 0 /\ n = Magnitude(o.q) /\ o.q > Half
      <4>1. p = 0 /\ n = Magnitude(o.q)
        BY <2>3, SideMeans
      <4> QED BY <1>1, <2>3, <4>1 DEF Half
    <3>2. SameModulo(P, o.q * 1, -(Magnitude(o.q) * 1))
      BY <1>1, <3>1, MagnitudeMeans
    <3>3. o.q * 1 = o.q /\ -(Magnitude(o.q) * 1) = p - n
      <4>1. Magnitude(o.q) \in Int
        BY <1>1, MagnitudeType
      <4> HIDE DEF p, n
      <4> QED BY <1>1, <3>1, <4>1
    <3> HIDE DEF p, n
    <3> QED BY <2>1, <2>5, <3>2, <3>3, Zenon
  <2> QED BY <2>1, <2>5, <2>2, <2>3
<1>8. SideValue(o, s, a) = plus + p /\ SideValue(o, r, a) = minus + n
  BY DEF SideValue
<1> DEFINE y == SumFunctionOnSet(f, T)
<1>9. y \in Int /\ lin = plus + y /\ SameModulo(P, y, -minus)
  BY <1>4, <1>5, <1>6
<1> HIDE DEF f, L, S, T, plus, minus, p, n, lin, y
<1>10. SameModulo(P, o.q + y, (p - n) + (-minus))
  <2>1. p - n \in Int /\ -minus \in Int
    BY <1>6, <1>7
  <2> QED BY <1>1, <1>7, <1>9, <2>1, ModuloPlus
<1>11. SameModulo(P, (p - n) + (-minus), o.q + y)
  <2>1. (p - n) + (-minus) \in Int /\ o.q + y \in Int
    BY <1>1, <1>6, <1>7, <1>9
  <2> QED BY <1>1, <1>10, <2>1, ModuloSymmetric
<1>12. SameModulo(P, plus + ((p - n) + (-minus)), plus + (o.q + y))
  <2>1. (p - n) + (-minus) \in Int /\ o.q + y \in Int
    BY <1>1, <1>6, <1>7, <1>9
  <2>2. SameModulo(P, plus, plus)
    BY <1>1, <1>7, ModuloBasics
  <2> QED BY <1>1, <1>7, <1>11, <2>1, <2>2, ModuloPlus
<1>13. plus + ((p - n) + (-minus)) = (plus + p) - (minus + n) /\ plus + (o.q + y) = o.q + lin
  BY <1>1, <1>6, <1>7, <1>9
<1>14. SameModulo(P, (plus + p) - (minus + n), 0)
  <2>1. (plus + p) - (minus + n) \in Int /\ o.q + lin \in Int
    BY <1>1, <1>6, <1>7
  <2> QED BY <1>1, <1>2, <1>12, <1>13, <2>1, ModuloTransitive
<1>15. ((plus + p) - (minus + n)) - 0 = (plus + p) - (minus + n)
  BY <1>6, <1>7
<1> QED BY <1>8, <1>14, <1>15 DEF SameModulo

(* The most that the terms of a side can be. *)
SideMost(o, B, s) == [i \in Side(o, s) |-> Magnitude(o.lin[i][1]) * B[o.lin[i][2]]]
MostSum(o, B, s) == SumFunctionOnSet(SideMost(o, B, s), Side(o, s))
Bounds(m, B) == B \in [DOMAIN B -> Nat] /\ DOMAIN B \subseteq m.wires

(* The most a side can be, below P when the equation is one over the integers. *)
LEMMA MostTypes ==
  ASSUME NEW m, NEW o, Expression(m, o), NEW s \in BOOLEAN, NEW B, Bounds(m, B), IsIntegerEquation(o, B)
  PROVE  /\ IsFiniteSet(Side(o, s)) /\ IntegerAt(Side(o, s), SideMost(o, B, s))
         /\ MostSum(o, B, s) \in Int /\ SideConstant(o, s) \in Nat
         /\ SideMaximum(o, B, s) = SideConstant(o, s) + MostSum(o, B, s)
         /\ SideMaximum(o, B, s) \in Int /\ SideMaximum(o, B, s) < P
         /\ \A i \in Side(o, s) : /\ i \in DOMAIN o.lin /\ o.lin[i][2] \in DOMAIN B
                                  /\ Magnitude(o.lin[i][1]) \in Nat \ {0}
                                  /\ B[o.lin[i][2]] \in Nat
                                  /\ SideMost(o, B, s)[i] = Magnitude(o.lin[i][1]) * B[o.lin[i][2]]
<1>1. ASSUME NEW i \in Side(o, s)
      PROVE  /\ i \in DOMAIN o.lin /\ o.lin[i][2] \in DOMAIN B
             /\ Magnitude(o.lin[i][1]) \in Nat \ {0} /\ B[o.lin[i][2]] \in Nat
             /\ SideMost(o, B, s)[i] = Magnitude(o.lin[i][1]) * B[o.lin[i][2]]
             /\ SideMost(o, B, s)[i] \in Int
  <2>1. i \in DOMAIN o.lin /\ o.lin[i][1] # 0 /\ i \in Live(o.lin)
    BY DEF Side, Live
  <2>2. o.lin[i][1] \in Field
    BY <2>1, ExpressionFacts
  <2>3. o.lin[i][2] \in DOMAIN B
    BY <2>1 DEF IsIntegerEquation
  <2>4. B[o.lin[i][2]] \in Nat
    BY <2>3 DEF Bounds
  <2>5. Magnitude(o.lin[i][1]) \in Nat \ {0}
    BY <2>1, <2>2, MagnitudeType
  <2>6. SideMost(o, B, s)[i] = Magnitude(o.lin[i][1]) * B[o.lin[i][2]]
    BY DEF SideMost
  <2>7. \A x, y \in Nat : x * y \in Int
    OBVIOUS
  <2> QED BY <2>1, <2>3, <2>4, <2>5, <2>6, <2>7
<1>2. IsFiniteSet(Side(o, s)) /\ SideConstant(o, s) \in Nat
  <2>1. Side(o, s) \in SUBSET DOMAIN o.lin
    BY DEF Side, Live
  <2>2. SideConstant(o, s) \in Nat
    BY ExpressionFacts, MagnitudeType DEF SideConstant
  <2> QED BY <2>1, <2>2, ExpressionFacts, FS_Subset
<1>3. IntegerAt(Side(o, s), SideMost(o, B, s))
  BY <1>1 DEF IntegerAt
<1>4. MostSum(o, B, s) \in Int
  BY <1>2, <1>3, SumType DEF MostSum
<1>5. SideMaximum(o, B, s) = SideConstant(o, s) + MostSum(o, B, s)
  <2>1. DOMAIN SideMost(o, B, s) = Side(o, s)
    BY DEF SideMost
  <2>2. SumFunction(SideMost(o, B, s)) = MostSum(o, B, s)
    BY <2>1, Zenon DEF SumFunction, MostSum
  <2>3. SideMaximum(o, B, s) = SideConstant(o, s) + SumFunction(SideMost(o, B, s))
    BY Zenon DEF SideMaximum, SideMost
  <2> QED BY <2>2, <2>3, Zenon
<1>6. SideMaximum(o, B, s) < P
  BY Zenon DEF IsIntegerEquation
<1>7. SideMaximum(o, B, s) \in Int
  BY <1>2, <1>4, <1>5
<1> QED BY <1>1, <1>2, <1>3, <1>4, <1>5, <1>6, <1>7

(* In a run within the bounds a side is at most its maximum. *)
LEMMA SideBounded ==
  ASSUME NEW m, NEW o, Expression(m, o), NEW a, Run(m, a), NEW s \in BOOLEAN,
         NEW B, Bounds(m, B), IsIntegerEquation(o, B), BoundedBy(B, a)
  PROVE  /\ SideSum(o, s, a) \in Int /\ SideConstant(o, s) \in Nat /\ SideMaximum(o, B, s) \in Int
         /\ SideSum(o, s, a) >= 0
         /\ SideValue(o, s, a) \in Int /\ SideValue(o, s, a) >= 0
         /\ SideValue(o, s, a) <= SideMaximum(o, B, s) /\ SideMaximum(o, B, s) < P
<1> DEFINE S == Side(o, s)
           f == SideTerm(o, s, a)
           e == SideMost(o, B, s)
<1>1. IsFiniteSet(S) /\ IntegerAt(S, f) /\ IntegerAt(S, e)
  BY SideTypes, MostTypes
<1>2. ASSUME NEW i \in S PROVE f[i] <= e[i] /\ f[i] >= 0
  <2>1. o.lin[i][2] \in DOMAIN B /\ Magnitude(o.lin[i][1]) \in Nat \ {0} /\ B[o.lin[i][2]] \in Nat
    BY MostTypes
  <2>2. a[o.lin[i][2]] \in Nat /\ f[i] >= 0
    BY SideTypes
  <2>3. a[o.lin[i][2]] <= B[o.lin[i][2]]
    BY <2>1 DEF BoundedBy
  <2>4. f[i] = Magnitude(o.lin[i][1]) * a[o.lin[i][2]] /\ e[i] = Magnitude(o.lin[i][1]) * B[o.lin[i][2]]
    BY DEF SideTerm, SideMost
  <2>5. ASSUME NEW c \in Nat, NEW x \in Nat, NEW y \in Nat, x <= y PROVE c * x <= c * y
    <3>1. PICK k \in Nat : y = x + k
      <4>1. y - x \in Nat /\ y = x + (y - x)
        BY <2>5
      <4> QED BY <4>1
    <3>2. c * y = c * x + c * k /\ c * k \in Nat /\ c * x \in Nat
      BY <3>1
    <3> QED BY <3>2
  <2>6. Magnitude(o.lin[i][1]) * a[o.lin[i][2]] <= Magnitude(o.lin[i][1]) * B[o.lin[i][2]]
    BY <2>1, <2>2, <2>3, <2>5
  <2> QED BY <2>2, <2>4, <2>6
<1>3. SideSum(o, s, a) <= MostSum(o, B, s)
  <2> HIDE DEF S, f, e
  <2>1. SumFunctionOnSet(f, S) <= SumFunctionOnSet(e, S)
    BY <1>1, <1>2, SumMonotone
  <2> QED BY <2>1 DEF S, f, e, SideSum, MostSum
<1>4. SideSum(o, s, a) >= 0
  <2>1. CASE S = {}
    <3>1. SumFunctionOnSet(f, S) = 0
      BY <2>1, SumEmpty, Zenon
    <3> QED BY <3>1 DEF SideSum
  <2>2. CASE S # {}
    <3>1. PICK i \in S : TRUE
      BY <2>2
    <3> HIDE DEF S, f
    <3>2. f[i] \in Int /\ f[i] <= SumFunctionOnSet(f, S) /\ f[i] >= 0
      BY <1>1, <1>2, <3>1, SumCovers
    <3>3. SumFunctionOnSet(f, S) \in Int
      BY <1>1, SumType
    <3>4. SumFunctionOnSet(f, S) >= 0
      BY <3>2, <3>3
    <3> QED BY <3>4 DEF SideSum, S, f
  <2> QED BY <2>1, <2>2
<1>5. SideSum(o, s, a) \in Int /\ SideConstant(o, s) \in Nat
  BY SideTypes
<1>6. /\ MostSum(o, B, s) \in Int /\ SideMaximum(o, B, s) = SideConstant(o, s) + MostSum(o, B, s)
      /\ SideMaximum(o, B, s) \in Int /\ SideMaximum(o, B, s) < P
  BY MostTypes
<1>7. SideValue(o, s, a) = SideSum(o, s, a) + SideConstant(o, s)
  BY DEF SideValue
<1> HIDE DEF S, f, e
<1> QED BY <1>3, <1>4, <1>5, <1>6, <1>7

(* So the congruence is an equation. *)
LEMMA SidesEqual ==
  ASSUME NEW m, NEW o, Expression(m, o), NEW a, Run(m, a), NEW s \in BOOLEAN,
         NEW B, Bounds(m, B), IsIntegerEquation(o, B), BoundedBy(B, a)
  PROVE  SideValue(o, s, a) = SideValue(o, ~s, a)
<1>1. o.mul = <<>>
  BY DEF IsIntegerEquation
<1>2. ASSUME NEW t \in BOOLEAN, NEW r \in BOOLEAN, t = TRUE, r = FALSE
      PROVE  SideValue(o, t, a) = SideValue(o, r, a)
  <2>1. SameModulo(P, SideValue(o, t, a), SideValue(o, r, a))
    BY <1>1, <1>2, SidesCongruent
  <2>2. /\ SideValue(o, t, a) \in Int /\ SideValue(o, t, a) >= 0
        /\ SideMaximum(o, B, t) \in Int /\ SideValue(o, t, a) <= SideMaximum(o, B, t) /\ SideMaximum(o, B, t) < P
    BY SideBounded
  <2>3. /\ SideValue(o, r, a) \in Int /\ SideValue(o, r, a) >= 0
        /\ SideMaximum(o, B, r) \in Int /\ SideValue(o, r, a) <= SideMaximum(o, B, r) /\ SideMaximum(o, B, r) < P
    BY SideBounded
  <2>4. P \in Nat \ {0}
    BY FieldBasics
  <2>5. SideValue(o, t, a) - SideValue(o, r, a) < P /\ SideValue(o, r, a) - SideValue(o, t, a) < P
    BY <2>2, <2>3, <2>4
  <2> QED BY <2>1, <2>2, <2>3, <2>4, <2>5, ModuloSmall
<1>3. \A t, r \in BOOLEAN : t = TRUE /\ r = FALSE => SideValue(o, t, a) = SideValue(o, r, a)
  BY <1>2
<1>4. CASE s = TRUE
  <2>1. (~s) = FALSE /\ (~s) \in BOOLEAN
    BY <1>4, Zenon
  <2> QED BY <1>3, <1>4, <2>1, Zenon
<1>5. CASE s = FALSE
  <2>1. (~s) = TRUE /\ (~s) \in BOOLEAN
    BY <1>5, Zenon
  <2>2. SideValue(o, ~s, a) = SideValue(o, s, a)
    BY <1>3, <1>5, <2>1, Zenon
  <2> QED BY <2>2
<1> QED BY <1>4, <1>5

(* What the terms of side s leave for one of them, and the bounds that gives. *)
Room(o, B, s) == SideMaximum(o, B, ~s) - SideConstant(o, s)
RoomAt(o, B, w, s) == {i \in Side(o, s) : o.lin[i][2] = w /\ HasRoom(o, B, s)}
NewOn(o, B, w, s) == {Room(o, B, s) \div Magnitude(o.lin[i][1]) : i \in RoomAt(o, B, w, s)}
New(o, B, w) == UNION {NewOn(o, B, w, s) : s \in BOOLEAN}

(* What the other side can be at most bounds every term of this one. *)
LEMMA RoomSound ==
  ASSUME NEW m, NEW o, Expression(m, o), NEW B, Bounds(m, B), IsIntegerEquation(o, B),
         NEW w, NEW s \in BOOLEAN, NEW i \in RoomAt(o, B, w, s)
  PROVE  /\ Room(o, B, s) \div Magnitude(o.lin[i][1]) \in Nat
         /\ \A a : Run(m, a) /\ BoundedBy(B, a) => a[w] <= Room(o, B, s) \div Magnitude(o.lin[i][1])
<1> DEFINE c == Magnitude(o.lin[i][1])
           room == Room(o, B, s)
<1>1. i \in Side(o, s) /\ o.lin[i][2] = w /\ HasRoom(o, B, s)
  BY DEF RoomAt
<1>2. (~s) \in BOOLEAN
  OBVIOUS
<1>3. c \in Nat \ {0} /\ SideConstant(o, s) \in Nat
  BY <1>1, MostTypes
<1>4. SideMaximum(o, B, ~s) \in Int
  BY <1>2, MostTypes
<1>5. room \in Int /\ room >= 0
  BY <1>1, <1>3, <1>4 DEF HasRoom, Room
<1>6. ASSUME NEW a, Run(m, a), BoundedBy(B, a) PROVE a[w] <= room \div c
  <2> DEFINE f == SideTerm(o, s, a)
  <2>1. /\ IsFiniteSet(Side(o, s)) /\ IntegerAt(Side(o, s), f)
        /\ a[w] \in Nat /\ f[i] = c * a[w]
        /\ \A j \in Side(o, s) : f[j] >= 0
    <3>1. \A j \in Side(o, s) : /\ f[j] >= 0 /\ a[o.lin[j][2]] \in Nat
      BY <1>6, SideTypes
    <3>2. IsFiniteSet(Side(o, s)) /\ IntegerAt(Side(o, s), f)
      BY <1>6, SideTypes
    <3>3. f[i] = c * a[w]
      BY <1>1 DEF SideTerm
    <3>4. a[w] \in Nat
      BY <1>1, <3>1
    <3> QED BY <3>1, <3>2, <3>3, <3>4
  <2>2. f[i] \in Int /\ f[i] <= SumFunctionOnSet(f, Side(o, s))
    <3> HIDE DEF f
    <3> QED BY <1>1, <2>1, SumCovers
  <2>3. SumFunctionOnSet(f, Side(o, s)) = SideSum(o, s, a)
    BY Zenon DEF SideSum
  <2>4. SideSum(o, s, a) \in Int /\ SideValue(o, s, a) = SideSum(o, s, a) + SideConstant(o, s)
    BY <1>6, SideBounded DEF SideValue
  <2>5. SideValue(o, s, a) = SideValue(o, ~s, a)
    BY <1>6, SidesEqual
  <2>6. SideValue(o, ~s, a) \in Int /\ SideValue(o, ~s, a) <= SideMaximum(o, B, ~s)
    BY <1>2, <1>6, SideBounded
  <2>7. room = SideMaximum(o, B, ~s) - SideConstant(o, s)
    BY DEF Room
  <2> HIDE DEF room, c, f
  <2>8. SideSum(o, s, a) + SideConstant(o, s) <= SideMaximum(o, B, ~s)
    BY <2>4, <2>5, <2>6
  <2>9. f[i] <= room
    BY <1>3, <1>4, <2>2, <2>3, <2>4, <2>7, <2>8
  <2>10. c * a[w] <= room
    BY <2>1, <2>9
  <2> QED BY <1>3, <1>5, <2>1, <2>10, QuotientBounds
<1> HIDE DEF room, c
<1>7. room \div c \in Nat
  BY <1>3, <1>5, QuotientBounds
<1> QED BY <1>6, <1>7 DEF room, c

LEMMA NewSound ==
  ASSUME NEW m, NEW o, Expression(m, o), NEW B, Bounds(m, B), IsIntegerEquation(o, B), NEW w
  PROVE  /\ IsFiniteSet(New(o, B, w)) /\ New(o, B, w) \in SUBSET Int
         /\ \A n \in New(o, B, w) : n \in Nat /\ \A a : Run(m, a) /\ BoundedBy(B, a) => a[w] <= n
<1>1. ASSUME NEW s \in BOOLEAN PROVE IsFiniteSet(NewOn(o, B, w, s))
  <2> DEFINE R == RoomAt(o, B, w, s)
             g == [i \in R |-> Room(o, B, s) \div Magnitude(o.lin[i][1])]
  <2>1. IsFiniteSet(Side(o, s))
    BY MostTypes
  <2>2. IsFiniteSet(R)
    <3>1. R \in SUBSET Side(o, s)
      BY DEF RoomAt
    <3> QED BY <2>1, <3>1, FS_Subset
  <2>3. NewOn(o, B, w, s) = {g[i] : i \in R}
    BY DEF NewOn
  <2>4. DOMAIN g = R
    OBVIOUS
  <2> HIDE DEF g, R
  <2> QED BY <2>2, <2>3, <2>4, ImageFinite
<1>2. IsFiniteSet(New(o, B, w))
  <2> DEFINE g == [s \in BOOLEAN |-> NewOn(o, B, w, s)]
             N == {g[s] : s \in BOOLEAN}
  <2>1. IsFiniteSet(BOOLEAN)
    <3>1. BOOLEAN = {TRUE} \cup {FALSE}
      OBVIOUS
    <3>2. IsFiniteSet({TRUE}) /\ IsFiniteSet({FALSE})
      BY FS_Singleton, Zenon
    <3> QED BY <3>1, <3>2, FS_Union, Zenon
  <2>2. DOMAIN g = BOOLEAN
    OBVIOUS
  <2>3. New(o, B, w) = UNION N
    BY DEF New
  <2>4. \A T \in N : IsFiniteSet(T)
    BY <1>1
  <2> HIDE DEF g
  <2>5. IsFiniteSet(N)
    BY <2>1, <2>2, ImageFinite
  <2> HIDE DEF N
  <2> QED BY <2>3, <2>4, <2>5, FS_UNION
<1>3. ASSUME NEW n \in New(o, B, w)
      PROVE  n \in Nat /\ \A a : Run(m, a) /\ BoundedBy(B, a) => a[w] <= n
  <2>1. PICK s \in BOOLEAN : n \in NewOn(o, B, w, s)
    BY DEF New
  <2>2. PICK i \in RoomAt(o, B, w, s) : n = Room(o, B, s) \div Magnitude(o.lin[i][1])
    BY <2>1 DEF NewOn
  <2> QED BY <2>2, RoomSound
<1> QED BY <1>2, <1>3

(* propagate_bounds only learns bounds that hold. *)
LEMMA TightenedSound ==
  ASSUME NEW m \in Models, NEW o \in Ops(m), NEW B, Bounds(m, B)
  PROVE  /\ Bounds(m, Tightened(o, B))
         /\ \A a : Run(m, a) /\ BoundedBy(B, a) => BoundedBy(Tightened(o, B), a)
<1>1. CASE ~IsIntegerEquation(o, B)
  <2>1. Tightened(o, B) = B
    BY <1>1, Zenon DEF Tightened
  <2> QED BY <2>1
<1>2. CASE IsIntegerEquation(o, B)
  <2> DEFINE T == [w \in DOMAIN B |-> Min({B[w]} \cup New(o, B, w))]
  <2>1. Tightened(o, B) = T
    BY <1>2 DEF Tightened, New, NewOn, RoomAt, Room
  <2>2. Expression(m, o)
    BY <1>2 DEF Expression, IsIntegerEquation
  <2>3. ASSUME NEW w \in DOMAIN B
        PROVE  T[w] \in Nat /\ \A a : Run(m, a) /\ BoundedBy(B, a) => a[w] <= T[w]
    <3> DEFINE S == {B[w]} \cup New(o, B, w)
    <3>1. B[w] \in Nat
      BY DEF Bounds
    <3>2. /\ IsFiniteSet(New(o, B, w)) /\ New(o, B, w) \in SUBSET Int
          /\ \A n \in New(o, B, w) : n \in Nat /\ \A a : Run(m, a) /\ BoundedBy(B, a) => a[w] <= n
      BY <1>2, <2>2, NewSound
    <3>3. IsFiniteSet(S)
      <4>1. S = New(o, B, w) \cup {B[w]}
        OBVIOUS
      <4> QED BY <3>2, <4>1, FS_AddElement
    <3>4. T[w] = Min(S)
      OBVIOUS
    <3>5. S \in SUBSET Int /\ S # {}
      BY <3>1, <3>2
    <3>6. \A n \in S : n \in Nat /\ \A a : Run(m, a) /\ BoundedBy(B, a) => a[w] <= n
      BY <3>1, <3>2 DEF BoundedBy
    <3> HIDE DEF S, T
    <3>7. Min(S) \in S
      BY <3>3, <3>5, MinExists
    <3> QED BY <3>4, <3>6, <3>7
  <2>4. DOMAIN T = DOMAIN B
    OBVIOUS
  <2>5. T = [w \in DOMAIN T |-> T[w]]
    OBVIOUS
  <2> HIDE DEF T
  <2>6. T \in [DOMAIN T -> Nat]
    BY <2>3, <2>4, <2>5
  <2>7. DOMAIN T \subseteq m.wires
    BY <2>4 DEF Bounds
  <2> QED BY <2>1, <2>3, <2>4, <2>6, <2>7 DEF Bounds, BoundedBy
<1> QED BY <1>1, <1>2

-----------------------------------------------------------------------------
(* solve_conditional_zero.  What a form comes to in a run. *)
FormTerm(m, f, a) == [w \in m.wires |-> f.terms[w] * a[w]]
FormTerms(m, f, a) == SumFunctionOnSet(FormTerm(m, f, a), m.wires)
FormValue(m, f, a) == f.constant + FormTerms(m, f, a)
IsForm(m, f) == f.terms \in [m.wires -> Field] /\ f.constant \in Field

(* A form comes to an integer in a run. *)
LEMMA FormTypes ==
  ASSUME NEW m, NEW a, Run(m, a), NEW f, IsForm(m, f)
  PROVE  /\ IsFiniteSet(m.wires) /\ IntegerAt(m.wires, FormTerm(m, f, a))
         /\ FormTerms(m, f, a) \in Int /\ FormValue(m, f, a) \in Int /\ f.constant \in Int
         /\ \A w \in m.wires : f.terms[w] \in Int /\ a[w] \in Int /\ FormTerm(m, f, a)[w] = f.terms[w] * a[w]
<1>1. IsFiniteSet(m.wires)
  BY OpcodesMeanWhatTheySay DEF Run
<1>2. ASSUME NEW w \in m.wires
      PROVE  f.terms[w] \in Int /\ a[w] \in Int /\ FormTerm(m, f, a)[w] = f.terms[w] * a[w] /\ FormTerm(m, f, a)[w] \in Int
  <2>1. f.terms[w] \in Field
    BY DEF IsForm
  <2>2. f.terms[w] \in Int /\ a[w] \in Int
    BY <2>1, FieldBasics, RunFacts
  <2>3. FormTerm(m, f, a)[w] = f.terms[w] * a[w]
    BY DEF FormTerm
  <2> QED BY <2>2, <2>3
<1>3. IntegerAt(m.wires, FormTerm(m, f, a))
  BY <1>2 DEF IntegerAt
<1>4. FormTerms(m, f, a) \in Int
  BY <1>1, <1>3, SumType DEF FormTerms
<1>5. f.constant \in Int
  BY FieldBasics DEF IsForm
<1> QED BY <1>1, <1>2, <1>3, <1>4, <1>5 DEF FormValue

(* The products of an unknown u and a determined wire w. *)
BesideUnknown(o, D, u, w) == {i \in OpenMul(o, D) : w \in D /\ Factors(o, i) = {u, w}}
BesideCoefficient(o, D, u, w) == SumFunctionOnSet(Coefficients(o.mul), BesideUnknown(o, D, u, w))

LEMMA BesideTypes ==
  ASSUME NEW m, NEW o, Expression(m, o), NEW D, NEW u, NEW w
  PROVE  /\ IsFiniteSet(BesideUnknown(o, D, u, w)) /\ BesideUnknown(o, D, u, w) \subseteq DOMAIN o.mul
         /\ IntegerAt(BesideUnknown(o, D, u, w), Coefficients(o.mul))
         /\ BesideCoefficient(o, D, u, w) \in Int
<1>1. BesideUnknown(o, D, u, w) \in SUBSET DOMAIN o.mul
  BY DEF BesideUnknown, OpenMul, Live
<1>2. IsFiniteSet(BesideUnknown(o, D, u, w))
  BY <1>1, ExpressionFacts, FS_Subset
<1>3. \A i \in DOMAIN o.mul : Coefficients(o.mul)[i] \in Int
  BY ExpressionFacts, FieldBasics DEF Coefficients
<1>4. IntegerAt(BesideUnknown(o, D, u, w), Coefficients(o.mul))
  BY <1>1, <1>3 DEF IntegerAt
<1>5. BesideCoefficient(o, D, u, w) \in Int
  BY <1>2, <1>4, SumType DEF BesideCoefficient
<1> QED BY <1>1, <1>2, <1>4, <1>5

(* The form of an unknown: its linear coefficient, and those of its products. *)
LEMMA UnknownFormMeans ==
  ASSUME NEW m, NEW o, Expression(m, o), NEW D, NEW u
  PROVE  /\ IsForm(m, UnknownForm(m, o, D, u)) /\ ~UnknownForm(m, o, D, u).opaque
         /\ UnknownForm(m, o, D, u).constant = Coefficient(o, u)
         /\ \A w \in m.wires : UnknownForm(m, o, D, u).terms[w] = BesideCoefficient(o, D, u, w) % P
         /\ UnknownForm(m, o, D, u).terms \in [m.wires -> Field]
<1> DEFINE f == UnknownForm(m, o, D, u)
           t == [w \in m.wires |-> BesideCoefficient(o, D, u, w)]
<1>1. f = Form(t, Coefficient(o, u), FALSE)
  BY Zenon DEF UnknownForm, BesideCoefficient, BesideUnknown
<1>2. f.terms = [w \in m.wires |-> t[w] % P] /\ f.constant = Coefficient(o, u) % P /\ f.opaque = FALSE
  <2>1. DOMAIN t = m.wires
    OBVIOUS
  <2> HIDE DEF t
  <2> QED BY <1>1, <2>1 DEF Form
<1>3. P \in Nat \ {0} /\ Coefficient(o, u) \in 0..P-1
  BY CoefficientType, FieldBasics DEF Field
<1>4. Coefficient(o, u) % P = Coefficient(o, u)
  BY <1>3
<1>5. ASSUME NEW w \in m.wires PROVE f.terms[w] = BesideCoefficient(o, D, u, w) % P /\ f.terms[w] \in Field
  <2>1. f.terms[w] = BesideCoefficient(o, D, u, w) % P
    BY <1>2
  <2>2. BesideCoefficient(o, D, u, w) \in Int
    BY BesideTypes
  <2> QED BY <1>3, <2>1, <2>2, ModuloBasics DEF Field
<1>6. f.terms = [w \in m.wires |-> f.terms[w]]
  BY <1>2
<1>7. f.terms \in [m.wires -> Field]
  BY <1>5, <1>6
<1>8. f.constant = Coefficient(o, u) /\ f.constant \in Field
  BY <1>2, <1>3, <1>4 DEF Field
<1> HIDE DEF f
<1>9. IsForm(m, f)
  BY <1>7, <1>8 DEF IsForm
<1> QED BY <1>2, <1>5, <1>7, <1>8, <1>9 DEF f

(* The products of u and w come to the coefficient of w in the form of u. *)
LEMMA BesideValue ==
  ASSUME NEW m, NEW o, Expression(m, o), NEW a, Run(m, a), NEW D, NEW u \in m.wires, NEW w \in m.wires
  PROVE  SumFunctionOnSet(MulTerm(o, a), BesideUnknown(o, D, u, w)) = (a[u] * a[w]) * BesideCoefficient(o, D, u, w)
<1> DEFINE S == BesideUnknown(o, D, u, w)
           f == MulTerm(o, a)
           e == Coefficients(o.mul)
           k == a[u] * a[w]
<1>1. a[u] \in Int /\ a[w] \in Int /\ k \in Int
  BY RunFacts
<1>2. IsFiniteSet(S) /\ S \subseteq DOMAIN o.mul /\ IntegerAt(S, e)
  BY BesideTypes
<1>3. ASSUME NEW i \in S PROVE f[i] = k * e[i]
  <2>1. i \in DOMAIN o.mul /\ {o.mul[i][2], o.mul[i][3]} = {u, w}
    BY <1>2 DEF BesideUnknown, Factors
  <2>2. f[i] = o.mul[i][1] * a[o.mul[i][2]] * a[o.mul[i][3]] /\ e[i] = o.mul[i][1]
    BY <2>1 DEF MulTerm, Coefficients
  <2>3. o.mul[i][1] \in Int
    BY <2>1, ExpressionFacts, FieldBasics
  <2>4. \/ o.mul[i][2] = u /\ o.mul[i][3] = w
        \/ o.mul[i][2] = w /\ o.mul[i][3] = u
    BY <2>1
  <2>5. \A x, y, z \in Int : x * y * z = (y * z) * x /\ x * z * y = (y * z) * x
    OBVIOUS
  <2>6. o.mul[i][1] * a[u] * a[w] = (a[u] * a[w]) * o.mul[i][1] /\ o.mul[i][1] * a[w] * a[u] = (a[u] * a[w]) * o.mul[i][1]
    BY <1>1, <2>3, <2>5
  <2> QED BY <2>2, <2>4, <2>6
<1> HIDE DEF S, f, e, k
<1>4. SumFunctionOnSet(f, S) = k * SumFunctionOnSet(e, S)
  BY ONLY <1>1, <1>2, <1>3, SumTimes
<1> QED BY <1>4 DEF S, f, e, k, BesideCoefficient

(* The unknown and the determined factor of an open product. *)
Paired(o, D, unknown, partner) ==
  \A i \in OpenMul(o, D) : /\ unknown[i] \in o.wires \ D
                           /\ partner[i] \in o.wires \cap D
                           /\ Factors(o, i) = {unknown[i], partner[i]}

(* An expression that decomposes has an unknown and a determined factor in every
   open product. *)
LEMMA PairsExist ==
  ASSUME NEW m, NEW o, Expression(m, o), NEW D, Decomposes(o, D)
  PROVE  \E unknown, partner : Paired(o, D, unknown, partner)
<1> DEFINE unknown == [i \in OpenMul(o, D) |-> CHOOSE u \in Factors(o, i) : u \notin D]
           partner == [i \in OpenMul(o, D) |-> CHOOSE w \in Factors(o, i) : w \in D]
<1>1. ASSUME NEW i \in OpenMul(o, D)
      PROVE  /\ unknown[i] \in o.wires \ D /\ partner[i] \in o.wires \cap D
             /\ Factors(o, i) = {unknown[i], partner[i]}
  <2>1. i \in DOMAIN o.mul /\ ~ Factors(o, i) \subseteq D
    BY DEF OpenMul, Live
  <2>2. Factors(o, i) \cap D # {}
    BY DEF Decomposes
  <2>3. Factors(o, i) \subseteq o.wires
    BY <2>1, ExpressionFacts DEF Factors
  <2>4. unknown[i] \in Factors(o, i) /\ unknown[i] \notin D
    BY <2>1
  <2>5. partner[i] \in Factors(o, i) /\ partner[i] \in D
    BY <2>2
  <2> HIDE DEF unknown, partner
  <2>6. Factors(o, i) = {unknown[i], partner[i]}
    BY <2>4, <2>5 DEF Factors
  <2> QED BY <2>3, <2>4, <2>5, <2>6
<1>2. Paired(o, D, unknown, partner)
  BY <1>1 DEF Paired
<1> QED BY <1>2

ProductsOf(o, D, unknown, u) == {i \in OpenMul(o, D) : unknown[i] = u}

LEMMA ProductsOfTypes ==
  ASSUME NEW m, NEW o, Expression(m, o), NEW a, Run(m, a), NEW D, NEW unknown, NEW u
  PROVE  /\ IsFiniteSet(ProductsOf(o, D, unknown, u))
         /\ IntegerAt(ProductsOf(o, D, unknown, u), MulTerm(o, a))
         /\ SumFunctionOnSet(MulTerm(o, a), ProductsOf(o, D, unknown, u)) \in Int
<1>1. ProductsOf(o, D, unknown, u) \in SUBSET DOMAIN o.mul
  BY DEF ProductsOf, OpenMul, Live
<1>2. IsFiniteSet(ProductsOf(o, D, unknown, u))
  BY <1>1, ExpressionFacts, FS_Subset
<1>3. IntegerAt(ProductsOf(o, D, unknown, u), MulTerm(o, a))
  BY <1>1, TermTypes DEF IntegerAt
<1> QED BY <1>2, <1>3, SumType

(* The products of u come to u times the terms of its form. *)
LEMMA ProductsOfUnknown ==
  ASSUME NEW m, NEW o, Expression(m, o), NEW a, Run(m, a), NEW D,
         NEW unknown, NEW partner, Paired(o, D, unknown, partner), NEW u \in o.wires \ D
  PROVE  SameModulo(P, SumFunctionOnSet(MulTerm(o, a), ProductsOf(o, D, unknown, u)),
                       a[u] * FormTerms(m, UnknownForm(m, o, D, u), a))
<1> DEFINE S == ProductsOf(o, D, unknown, u)
           F == UnknownForm(m, o, D, u)
           f == MulTerm(o, a)
           e == [w \in m.wires |-> SumFunctionOnSet(f, BesideUnknown(o, D, u, w))]
           t == FormTerm(m, F, a)
           h == [w \in m.wires |-> a[u] * t[w]]
           k == a[u]
<1>1. IsFiniteSet(S) /\ IntegerAt(S, f) /\ IsFiniteSet(m.wires) /\ P \in Nat \ {0} /\ u \in m.wires /\ k \in Int
  BY ProductsOfTypes, OpcodesMeanWhatTheySay, FieldBasics, ExpressionFacts, RunFacts DEF Expression
<1>2. IsForm(m, F) /\ \A w \in m.wires : F.terms[w] = BesideCoefficient(o, D, u, w) % P
  BY UnknownFormMeans
<1>3. IntegerAt(m.wires, t) /\ \A w \in m.wires : t[w] \in Int /\ t[w] = F.terms[w] * a[w] /\ F.terms[w] \in Int /\ a[w] \in Int
  BY <1>2, FormTypes DEF IntegerAt
<1>4. \A w : {i \in S : partner[i] = w} = BesideUnknown(o, D, u, w)
  BY DEF ProductsOf, BesideUnknown, Paired
<1>5. Groups(S, f, m.wires, partner, e)
  <2>1. \A i \in S : partner[i] \in m.wires
    BY ExpressionFacts DEF ProductsOf, Paired
  <2>2. \A w \in m.wires : e[w] = SumFunctionOnSet(f, BesideUnknown(o, D, u, w))
    OBVIOUS
  <2> HIDE DEF e, f, S
  <2>3. \A w \in m.wires : e[w] = SumFunctionOnSet(f, {i \in S : partner[i] = w})
    BY <1>4, <2>2, Zenon
  <2> QED BY <2>1, <2>3 DEF Groups
<1>6. ASSUME NEW w \in m.wires PROVE e[w] \in Int /\ h[w] \in Int /\ h[w] = k * t[w] /\ SameModulo(P, e[w], h[w])
  <2> DEFINE c == BesideCoefficient(o, D, u, w)
             x == k * a[w]
  <2>1. c \in Int /\ x \in Int /\ k \in Int /\ a[w] \in Int /\ F.terms[w] \in Int
    BY <1>1, <1>3, BesideTypes
  <2>2. e[w] = x * c
    BY <1>1, BesideValue
  <2>3. h[w] = k * t[w] /\ t[w] = F.terms[w] * a[w] /\ F.terms[w] = c % P
    BY <1>2, <1>3
  <2> HIDE DEF c, x, e, h, t, F, k
  <2>4. h[w] = (k * a[w]) * (c % P)
    <3>1. \A y, z, v \in Int : y * (z * v) = (y * v) * z
      OBVIOUS
    <3>2. k * (F.terms[w] * a[w]) = (k * a[w]) * F.terms[w]
      BY <2>1, <3>1
    <3> QED BY <2>3, <3>2
  <2>5. h[w] = x * (c % P)
    BY <2>4 DEF x
  <2>6. c % P \in Int /\ SameModulo(P, c % P, c)
    <3>1. c % P \in 0..P-1 /\ SameModulo(P, c % P, c)
      BY <1>1, <2>1, ModuloBasics
    <3> QED BY <1>1, <3>1
  <2>7. SameModulo(P, x * (c % P), x * c) /\ x * (c % P) \in Int /\ x * c \in Int
    <3> DEFINE d == c % P
    <3>1. d \in Int /\ SameModulo(P, d, c)
      BY <2>6
    <3> HIDE DEF d
    <3>2. SameModulo(P, x * d, x * c)
      BY <1>1, <2>1, <3>1, ModuloTimes
    <3>3. x * d \in Int /\ x * c \in Int
      BY <2>1, <3>1
    <3> QED BY <3>2, <3>3 DEF d
  <2>8. SameModulo(P, x * c, x * (c % P))
    BY <1>1, <2>7, ModuloSymmetric
  <2> QED BY <2>2, <2>3, <2>5, <2>7, <2>8
<1>7. FormTerms(m, F, a) = SumFunctionOnSet(t, m.wires)
  BY DEF FormTerms
<1> HIDE DEF S, F, f, e, t, h, k
<1>8. IntegerAt(m.wires, e) /\ SumFunctionOnSet(e, m.wires) = SumFunctionOnSet(f, S)
  BY <1>1, <1>5, SumGroups
<1>9. IntegerAt(m.wires, h)
  BY <1>6 DEF IntegerAt
<1>10. SameModulo(P, SumFunctionOnSet(e, m.wires), SumFunctionOnSet(h, m.wires))
  BY <1>1, <1>6, <1>8, <1>9, SumModulo
<1>11. SumFunctionOnSet(h, m.wires) = k * SumFunctionOnSet(t, m.wires)
  BY <1>1, <1>3, <1>6, SumTimes
<1>12. SameModulo(P, SumFunctionOnSet(f, S), k * FormTerms(m, F, a))
  BY <1>7, <1>8, <1>10, <1>11, Zenon
<1> QED BY <1>12 DEF S, F, f, k

(* What is open in an expression, unknown by unknown. *)
UnknownTerm(m, o, D, a) == [u \in o.wires \ D |-> a[u] * FormValue(m, UnknownForm(m, o, D, u), a)]

LEMMA UnknownTermTypes ==
  ASSUME NEW m, NEW o, Expression(m, o), NEW a, Run(m, a), NEW D
  PROVE  /\ IsFiniteSet(o.wires \ D) /\ IntegerAt(o.wires \ D, UnknownTerm(m, o, D, a))
         /\ \A u \in o.wires \ D :
              /\ u \in m.wires /\ a[u] \in Int /\ FormValue(m, UnknownForm(m, o, D, u), a) \in Int
              /\ UnknownTerm(m, o, D, a)[u] = a[u] * FormValue(m, UnknownForm(m, o, D, u), a)
<1>1. IsFiniteSet(o.wires \ D)
  BY ExpressionFacts, FS_Difference
<1>2. ASSUME NEW u \in o.wires \ D
      PROVE  /\ u \in m.wires /\ a[u] \in Int /\ FormValue(m, UnknownForm(m, o, D, u), a) \in Int
             /\ UnknownTerm(m, o, D, a)[u] = a[u] * FormValue(m, UnknownForm(m, o, D, u), a)
             /\ UnknownTerm(m, o, D, a)[u] \in Int
  <2>1. u \in m.wires /\ a[u] \in Int
    BY ExpressionFacts, RunFacts
  <2>2. FormValue(m, UnknownForm(m, o, D, u), a) \in Int
    BY UnknownFormMeans, FormTypes
  <2>3. UnknownTerm(m, o, D, a)[u] = a[u] * FormValue(m, UnknownForm(m, o, D, u), a)
    BY DEF UnknownTerm
  <2> QED BY <2>1, <2>2, <2>3
<1> QED BY <1>1, <1>2 DEF IntegerAt

(* What is open in such an expression is the sum over its unknowns of the unknown
   times its form. *)
LEMMA OpenByUnknown ==
  ASSUME NEW m, NEW o, Expression(m, o), NEW a, Run(m, a), NEW D, Decomposes(o, D)
  PROVE  /\ SumFunctionOnSet(UnknownTerm(m, o, D, a), o.wires \ D) \in Int
         /\ SameModulo(P, OpenPart(o, D, a), SumFunctionOnSet(UnknownTerm(m, o, D, a), o.wires \ D))
<1>1. PICK unknown, partner : Paired(o, D, unknown, partner)
  BY PairsExist
<1> DEFINE U == o.wires \ D
           S == OpenMul(o, D)
           f == MulTerm(o, a)
           g == [u \in U |-> SumFunctionOnSet(f, ProductsOf(o, D, unknown, u))]
           l == ByWire(o, a)
           h == [u \in U |-> g[u] + l[u]]
           e == UnknownTerm(m, o, D, a)
<1>2. P \in Nat \ {0} /\ IsFiniteSet(S) /\ IntegerAt(S, f) /\ IsFiniteSet(U) /\ IntegerAt(U, l) /\ IntegerAt(U, e)
  <2>1. S \in SUBSET DOMAIN o.mul
    BY DEF OpenMul, Live
  <2>2. IsFiniteSet(S)
    BY <2>1, ExpressionFacts, FS_Subset
  <2>3. IntegerAt(S, f) /\ IntegerAt(U, l)
    BY <2>1, TermTypes DEF IntegerAt
  <2> QED BY <2>2, <2>3, UnknownTermTypes, FieldBasics
<1>3. Groups(S, f, U, unknown, g)
  <2>1. \A i \in S : unknown[i] \in U
    BY <1>1 DEF Paired
  <2>2. \A u \in U : g[u] = SumFunctionOnSet(f, {i \in S : unknown[i] = u})
    BY DEF ProductsOf
  <2> QED BY <2>1, <2>2 DEF Groups
<1>4. ASSUME NEW u \in U PROVE g[u] \in Int /\ h[u] \in Int /\ h[u] = g[u] + l[u] /\ SameModulo(P, h[u], e[u])
  <2> DEFINE F == UnknownForm(m, o, D, u)
             t == FormTerms(m, F, a)
             k == a[u]
  <2>1. g[u] = SumFunctionOnSet(f, ProductsOf(o, D, unknown, u)) /\ h[u] = g[u] + l[u]
    OBVIOUS
  <2>2. SameModulo(P, SumFunctionOnSet(f, ProductsOf(o, D, unknown, u)), k * t)
    BY <1>1, ProductsOfUnknown
  <2>3. SumFunctionOnSet(f, ProductsOf(o, D, unknown, u)) \in Int
    BY ProductsOfTypes
  <2>4. IsForm(m, F) /\ F.constant = Coefficient(o, u)
    BY UnknownFormMeans
  <2>5. t \in Int /\ F.constant \in Int /\ FormValue(m, F, a) = F.constant + t
    BY <2>4, FormTypes DEF FormValue
  <2>6. k \in Int /\ e[u] = k * FormValue(m, F, a)
    BY UnknownTermTypes
  <2>7. l[u] = F.constant * k
    BY <2>4 DEF ByWire
  <2> HIDE DEF g, h, e, f, l, F, t, k
  <2>8. g[u] \in Int /\ l[u] \in Int /\ h[u] \in Int
    <3>1. g[u] \in Int
      BY <2>1, <2>3
    <3>2. l[u] \in Int
      BY <2>5, <2>6, <2>7
    <3> QED BY <2>1, <3>1, <3>2
  <2>9. SameModulo(P, g[u], k * t)
    BY <2>1, <2>2
  <2>10. k * t \in Int /\ e[u] = k * t + l[u]
    <3>1. k * t \in Int
      BY <2>5, <2>6
    <3>2. k * (F.constant + t) = k * t + F.constant * k
      BY <2>5, <2>6
    <3> QED BY <2>5, <2>6, <2>7, <3>1, <3>2
  <2>11. SameModulo(P, l[u], l[u])
    BY <1>2, <2>8, ModuloBasics
  <2>12. SameModulo(P, g[u] + l[u], k * t + l[u])
    BY <1>2, <2>8, <2>9, <2>10, <2>11, ModuloPlus
  <2> QED BY <2>1, <2>8, <2>10, <2>12
<1>5. OpenPart(o, D, a) = SumFunctionOnSet(f, S) + SumFunctionOnSet(l, U)
  BY DEF OpenPart, OpenProducts, OpenWires
<1> HIDE DEF U, S, f, g, l, h, e
<1>6. IntegerAt(U, g) /\ SumFunctionOnSet(g, U) = SumFunctionOnSet(f, S)
  BY <1>2, <1>3, SumGroups
<1>7. SumFunctionOnSet(h, U) = SumFunctionOnSet(g, U) + SumFunctionOnSet(l, U)
  BY <1>2, <1>4, <1>6, SumPlus
<1>8. IntegerAt(U, h)
  BY <1>4 DEF IntegerAt
<1>9. SameModulo(P, SumFunctionOnSet(h, U), SumFunctionOnSet(e, U))
  BY <1>2, <1>4, <1>8, SumModulo
<1>10. SumFunctionOnSet(e, U) \in Int
  BY <1>2, SumType
<1>11. SameModulo(P, OpenPart(o, D, a), SumFunctionOnSet(e, U))
  BY <1>5, <1>6, <1>7, <1>9, Zenon
<1> QED BY <1>10, <1>11 DEF U, e

LEMMA ZeroFormMeans ==
  ASSUME NEW m
  PROVE  /\ ZeroForm(m).terms = [w \in m.wires |-> 0] /\ ZeroForm(m).constant = 0 /\ ~ZeroForm(m).opaque
         /\ \A w \in m.wires : ZeroForm(m).terms[w] = 0
<1> DEFINE t == [w \in m.wires |-> 0]
<1>1. 0 % P = 0
  BY FieldBasics
<1>2. ZeroForm(m) = Form(t, 0, FALSE)
  BY DEF ZeroForm
<1>3. DOMAIN t = m.wires /\ \A w \in m.wires : t[w] = 0
  OBVIOUS
<1> HIDE DEF t
<1>4. Form(t, 0, FALSE) = [terms |-> [w \in m.wires |-> t[w] % P], constant |-> 0 % P, opaque |-> FALSE]
  BY <1>3 DEF Form
<1>5. [w \in m.wires |-> t[w] % P] = [w \in m.wires |-> 0]
  BY <1>1, <1>3
<1>6. ZeroForm(m) = [terms |-> [w \in m.wires |-> 0], constant |-> 0, opaque |-> FALSE]
  BY <1>1, <1>2, <1>4, <1>5
<1>7. ZeroForm(m).terms = [w \in m.wires |-> 0] /\ ZeroForm(m).constant = 0 /\ ZeroForm(m).opaque = FALSE
  BY <1>6
<1>8. \A w \in m.wires : ZeroForm(m).terms[w] = 0
  BY <1>7
<1> QED BY <1>7, <1>8

(* The zero form comes to zero. *)
LEMMA ZeroFormValue ==
  ASSUME NEW m, NEW a, Run(m, a), NEW f, f = ZeroForm(m)
  PROVE  FormValue(m, f, a) = 0
<1>1. f.constant = 0 /\ \A w \in m.wires : f.terms[w] = 0
  BY ZeroFormMeans
<1>2. ASSUME NEW w \in m.wires PROVE FormTerm(m, f, a)[w] = 0
  <2>1. FormTerm(m, f, a)[w] = f.terms[w] * a[w]
    BY DEF FormTerm
  <2>2. a[w] \in Int
    BY RunFacts
  <2> QED BY <1>1, <2>1, <2>2
<1>3. IsFiniteSet(m.wires)
  BY OpcodesMeanWhatTheySay DEF Run
<1>4. FormTerms(m, f, a) = 0
  BY <1>2, <1>3, SumZero DEF FormTerms
<1> QED BY <1>1, <1>4 DEF FormValue

(* Nothing is fixed in an expression whose left-over form is zero. *)
LEMMA NothingFixed ==
  ASSUME NEW m, NEW o, Expression(m, o), NEW a, Run(m, a), NEW D, ConstantForm(m, o, D) = ZeroForm(m)
  PROVE  FixedPart(o, D, a) = 0
<1> DEFINE t == [w \in m.wires |-> IF w \in D THEN Coefficient(o, w) ELSE 0]
           k == Live(o.mul) # OpenMul(o, D)
<1>1. DOMAIN t = m.wires /\ \A w \in m.wires : w \in D => t[w] = Coefficient(o, w)
  OBVIOUS
<1>2. ConstantForm(m, o, D) = Form(t, o.q, k)
  BY Zenon DEF ConstantForm
<1> HIDE DEF t, k
<1>3. Form(t, o.q, k) = [terms |-> [w \in m.wires |-> t[w] % P], constant |-> o.q % P, opaque |-> k]
  BY <1>1 DEF Form
<1>4. o.q % P = 0 /\ ~k /\ \A w \in m.wires : t[w] % P = 0
  <2>1. ZeroForm(m) = [terms |-> [w \in m.wires |-> t[w] % P], constant |-> o.q % P, opaque |-> k]
    BY <1>2, <1>3
  <2>2. ZeroForm(m).constant = o.q % P /\ ZeroForm(m).opaque = k /\ ZeroForm(m).terms = [w \in m.wires |-> t[w] % P]
    BY <2>1
  <2>3. \A w \in m.wires : ZeroForm(m).terms[w] = t[w] % P
    BY <2>2
  <2> QED BY <2>2, <2>3, ZeroFormMeans
<1>5. \A c \in Field : c % P = 0 => c = 0
  BY FieldBasics DEF Field
<1>6. o.q = 0
  BY <1>4, <1>5, ExpressionFacts
<1>7. FixedProducts(o, D, a) = 0
  <2> DEFINE Q == DOMAIN o.mul \ OpenMul(o, D)
  <2>1. ASSUME NEW i \in Q PROVE MulTerm(o, a)[i] = 0
    <3>1. i \in DOMAIN o.mul /\ o.mul[i][1] = 0
      BY <1>4 DEF k, Live
    <3>2. a[o.mul[i][2]] \in Int /\ a[o.mul[i][3]] \in Int
      BY <3>1, ExpressionFacts, RunFacts
    <3>3. MulTerm(o, a)[i] = o.mul[i][1] * a[o.mul[i][2]] * a[o.mul[i][3]]
      BY <3>1 DEF MulTerm
    <3> QED BY <3>1, <3>2, <3>3
  <2>2. IsFiniteSet(Q)
    BY ExpressionFacts, FS_Difference
  <2> QED BY <2>1, <2>2, SumZero DEF FixedProducts
<1>8. FixedWires(o, D, a) = 0
  <2> DEFINE W == o.wires \cap D
  <2>1. ASSUME NEW w \in W PROVE ByWire(o, a)[w] = 0
    <3>1. w \in m.wires /\ w \in D
      BY ExpressionFacts
    <3>2. Coefficient(o, w) % P = 0
      BY <1>1, <1>4, <3>1
    <3>3. Coefficient(o, w) = 0
      BY <1>5, <3>2, CoefficientType
    <3>4. ByWire(o, a)[w] = Coefficient(o, w) * a[w]
      BY DEF ByWire
    <3>5. a[w] \in Int
      BY <3>1, RunFacts
    <3> QED BY <3>3, <3>4, <3>5
  <2>2. IsFiniteSet(W)
    BY ExpressionFacts, FS_Intersection
  <2> QED BY <2>1, <2>2, SumZero DEF FixedWires
<1> QED BY <1>6, <1>7, <1>8 DEF FixedPart

(* All the unknowns but u having a form that is zero modulo P, u times its form
   is what is open.                                                           *)
LEMMA OpenAtUnknown ==
  ASSUME NEW m, NEW o, Expression(m, o), NEW a, Run(m, a), NEW D, Decomposes(o, D),
         NEW u \in o.wires \ D,
         \A v \in (o.wires \ D) \ {u} : SameModulo(P, FormValue(m, UnknownForm(m, o, D, v), a), 0)
  PROVE  SameModulo(P, OpenPart(o, D, a), a[u] * FormValue(m, UnknownForm(m, o, D, u), a))
<1> DEFINE U == o.wires \ D
           R == U \ {u}
           e == UnknownTerm(m, o, D, a)
           z == [v \in R |-> 0]
           x == a[u] * FormValue(m, UnknownForm(m, o, D, u), a)
<1>1. P \in Nat \ {0} /\ IsFiniteSet(U) /\ IntegerAt(U, e) /\ e[u] = x /\ e[u] \in Int
  <2>1. P \in Nat \ {0} /\ IsFiniteSet(U) /\ IntegerAt(U, e)
    BY UnknownTermTypes, FieldBasics
  <2>2. e[u] = x
    BY DEF UnknownTerm
  <2>3. e[u] \in Int
    BY <2>1 DEF IntegerAt
  <2> QED BY <2>1, <2>2, <2>3
<1>2. ASSUME NEW v \in R PROVE SameModulo(P, e[v], z[v])
  <2> DEFINE y == FormValue(m, UnknownForm(m, o, D, v), a)
             k == a[v]
  <2>1. k \in Int /\ y \in Int /\ e[v] = k * y
    <3>1. v \in o.wires \ D
      OBVIOUS
    <3>2. k \in Int /\ y \in Int
      BY <3>1, UnknownTermTypes
    <3>3. e[v] = k * y
      BY <3>1 DEF UnknownTerm
    <3> QED BY <3>2, <3>3
  <2>2. SameModulo(P, y, 0)
    OBVIOUS
  <2>3. z[v] = 0
    OBVIOUS
  <2> HIDE DEF e, z, y, k
  <2>4. SameModulo(P, k * y, k * 0) /\ k * 0 = 0
    BY <1>1, <2>1, <2>2, ModuloTimes
  <2> QED BY <2>1, <2>3, <2>4
<1>3. IsFiniteSet(R) /\ IntegerAt(R, e) /\ IntegerAt(R, z) /\ \A v \in R : z[v] = 0
  <2>1. IsFiniteSet(R)
    BY <1>1, FS_Difference
  <2>2. IntegerAt(R, z) /\ \A v \in R : z[v] = 0
    BY DEF IntegerAt
  <2>3. IntegerAt(R, e)
    BY <1>1 DEF IntegerAt
  <2> QED BY <2>1, <2>2, <2>3
<1> DEFINE rest == SumFunctionOnSet(e, R)
<1>4. SameModulo(P, OpenPart(o, D, a), SumFunctionOnSet(e, U)) /\ SumFunctionOnSet(e, U) \in Int
  BY OpenByUnknown
<1>5. OpenPart(o, D, a) \in Int
  BY PartTypes
<1>6. u \in U /\ U \ {u} = R
  OBVIOUS
<1> HIDE DEF e, z, U, R, x
<1>7. SumFunctionOnSet(e, U \ {u}) \in Int /\ SumFunctionOnSet(e, U) = e[u] + SumFunctionOnSet(e, U \ {u})
  BY <1>1, <1>6, SumTake
<1>8. SumFunctionOnSet(z, R) = 0
  BY <1>3, SumZero
<1>9. SameModulo(P, SumFunctionOnSet(e, R), SumFunctionOnSet(z, R))
  BY <1>1, <1>2, <1>3, SumModulo
<1>10. rest \in Int /\ SameModulo(P, rest, 0) /\ SumFunctionOnSet(e, U) = x + rest /\ x \in Int
  BY <1>1, <1>6, <1>7, <1>8, <1>9
<1> HIDE DEF rest
<1>11. SameModulo(P, x + rest, x)
  <2>1. SameModulo(P, x, x)
    BY <1>1, <1>10, ModuloBasics
  <2>2. SameModulo(P, x + rest, x + 0)
    BY <1>1, <1>10, <2>1, ModuloPlus
  <2>3. x + 0 = x
    BY <1>10
  <2> QED BY <2>2, <2>3
<1>12. SameModulo(P, OpenPart(o, D, a), x)
  <2>1. x + rest \in Int
    BY <1>10
  <2>2. SameModulo(P, OpenPart(o, D, a), x + rest)
    BY <1>4, <1>10
  <2> QED BY <1>1, <1>5, <1>10, <1>11, <2>1, <2>2, ModuloTransitive
<1> QED BY <1>12 DEF x

(* What a candidate says: in every run its wire or its form is zero, and the
   form looks at determined wires only.                                      *)
ZeroHolds(m, D, z) ==
  /\ z[1] \in m.wires /\ IsForm(m, z[2])
  /\ \A w \in m.wires : z[2].terms[w] # 0 => w \in D
  /\ \A a : Run(m, a) => SameModulo(P, a[z[1]] * FormValue(m, z[2], a), 0)
ZerosHold(m, D, Z) == \A z \in Z : ZeroHolds(m, D, z)

(* An expression with one unknown and nothing left over makes a candidate that
   holds in every run. *)
LEMMA CandidateHolds ==
  ASSUME NEW m, NEW o, Expression(m, o), NEW D, Decomposes(o, D), ConstantForm(m, o, D) = ZeroForm(m),
         NEW u \in m.wires, Unknowns(m, o, D) = {u}
  PROVE  ZeroHolds(m, D, <<u, UnknownForm(m, o, D, u)>>)
<1> DEFINE f == UnknownForm(m, o, D, u)
<1>1. IsForm(m, f)
  BY UnknownFormMeans
<1>2. ASSUME NEW w \in m.wires, f.terms[w] # 0 PROVE w \in D
  <2>1. SUFFICES ASSUME w \notin D PROVE FALSE
    OBVIOUS
  <2>2. BesideUnknown(o, D, u, w) = {}
    BY <2>1 DEF BesideUnknown
  <2>3. BesideCoefficient(o, D, u, w) = 0
    BY <2>2, SumEmpty, Zenon DEF BesideCoefficient
  <2>4. 0 % P = 0
    BY FieldBasics
  <2>5. f.terms[w] = BesideCoefficient(o, D, u, w) % P
    BY UnknownFormMeans
  <2> QED BY <1>2, <2>3, <2>4, <2>5
<1>3. ASSUME NEW a, Run(m, a) PROVE SameModulo(P, a[u] * FormValue(m, f, a), 0)
  <2>1. u \in o.wires \ D /\ \A v \in (o.wires \ D) \ {u} : UnknownForm(m, o, D, v) = ZeroForm(m)
    BY DEF Unknowns
  <2>2. ASSUME NEW v \in (o.wires \ D) \ {u} PROVE SameModulo(P, FormValue(m, UnknownForm(m, o, D, v), a), 0)
    <3>1. FormValue(m, UnknownForm(m, o, D, v), a) = 0
      BY <1>3, <2>1, ZeroFormValue
    <3>2. SameModulo(P, 0, 0)
      BY ZeroIsZero
    <3> QED BY <3>1, <3>2
  <2> DEFINE x == a[u] * FormValue(m, f, a)
             y == OpenPart(o, D, a)
  <2>3. SameModulo(P, y, x)
    BY <1>3, <2>1, <2>2, OpenAtUnknown
  <2>4. x \in Int
    <3>1. FormValue(m, f, a) \in Int /\ a[u] \in Int
      BY <1>1, <1>3, FormTypes, RunFacts
    <3> QED BY <3>1
  <2>5. y \in Int /\ SameModulo(P, y, 0)
    <3>1. FixedPart(o, D, a) = 0 /\ y \in Int
      BY <1>3, NothingFixed, PartTypes
    <3>2. SameModulo(P, FixedPart(o, D, a) + y, 0)
      BY <1>3, Balance
    <3> HIDE DEF y
    <3>3. FixedPart(o, D, a) + y = y
      BY <3>1
    <3> QED BY <3>1, <3>2, <3>3
  <2> HIDE DEF x, y
  <2>6. P \in Nat \ {0} /\ 0 \in Int
    BY FieldBasics
  <2>7. SameModulo(P, x, y)
    BY <2>3, <2>4, <2>5, <2>6, ModuloSymmetric
  <2>8. SameModulo(P, x, 0)
    BY <2>4, <2>5, <2>6, <2>7, ModuloTransitive
  <2> QED BY <2>8 DEF x
<1> DEFINE z == <<u, f>>
<1>4. z[1] = u /\ z[2] = f
  OBVIOUS
<1> HIDE DEF z, f
<1>5. ZeroHolds(m, D, z)
  BY <1>1, <1>2, <1>3, <1>4 DEF ZeroHolds
<1> QED BY <1>5 DEF z, f

(* All the candidates that are collected hold. *)
LEMMA CandidatesHold ==
  ASSUME NEW m \in Models, NEW D
  PROVE  ZerosHold(m, D, ConditionalZeros(m, D))
<1> SUFFICES ASSUME NEW z \in ConditionalZeros(m, D) PROVE ZeroHolds(m, D, z)
  BY DEF ZerosHold
<1>1. PICK o \in Ops(m) : /\ Decomposes(o, D) /\ ConstantForm(m, o, D) = ZeroForm(m)
                          /\ z \in {<<u, UnknownForm(m, o, D, u)>> : u \in {v \in m.wires : Unknowns(m, o, D) = {v}}}
  BY DEF ConditionalZeros
<1>2. PICK u \in m.wires : Unknowns(m, o, D) = {u} /\ z = <<u, UnknownForm(m, o, D, u)>>
  BY <1>1
<1>3. Expression(m, o)
  BY <1>1 DEF Expression, Decomposes
<1> QED BY <1>1, <1>2, <1>3, CandidateHolds

(* The form of a candidate is the same in two runs that agree on what was
   determined when it was collected.                                       *)
LEMMA FormSame ==
  ASSUME NEW m, NEW D, NEW f, IsForm(m, f), \A w \in m.wires : f.terms[w] # 0 => w \in D,
         NEW a, NEW b, Agree(m, D, a, b)
  PROVE  FormValue(m, f, a) = FormValue(m, f, b)
<1>1. Run(m, a) /\ Run(m, b) /\ SameOn(D, a, b)
  BY DEF Agree
<1>2. ASSUME NEW w \in m.wires PROVE FormTerm(m, f, a)[w] = FormTerm(m, f, b)[w]
  <2>1. FormTerm(m, f, a)[w] = f.terms[w] * a[w] /\ FormTerm(m, f, b)[w] = f.terms[w] * b[w]
    BY DEF FormTerm
  <2>2. CASE w \in D
    <3>1. a[w] = b[w]
      BY <1>1, <2>2 DEF SameOn
    <3> QED BY <2>1, <3>1
  <2>3. CASE w \notin D
    <3>1. f.terms[w] = 0 /\ a[w] \in Int /\ b[w] \in Int
      BY <1>1, <2>3, RunFacts
    <3> QED BY <2>1, <3>1
  <2> QED BY <2>2, <2>3
<1>3. IsFiniteSet(m.wires)
  BY <1>1, FormTypes
<1>4. SameAt(m.wires, FormTerm(m, f, a), FormTerm(m, f, b))
  BY <1>2 DEF SameAt
<1>5. FormTerms(m, f, a) = FormTerms(m, f, b)
  BY <1>3, <1>4, SumSame DEF FormTerms
<1> QED BY <1>5, Zenon DEF FormValue

(* A multiple of a form that is zero is zero. *)
LEMMA MultipleOfZero ==
  ASSUME NEW m, NEW a, Run(m, a), NEW f, IsForm(m, f), NEW g, IsForm(m, g), IsMultipleOf(m, f, g),
         SameModulo(P, FormValue(m, g, a), 0)
  PROVE  SameModulo(P, FormValue(m, f, a), 0)
<1>1. PICK k \in Field : /\ f.constant = (k * g.constant) % P
                         /\ \A w \in m.wires : f.terms[w] = (k * g.terms[w]) % P
  BY DEF IsMultipleOf
<1> DEFINE s == FormTerm(m, f, a)
           t == FormTerm(m, g, a)
           h == [w \in m.wires |-> k * t[w]]
           x == FormValue(m, f, a)
           y == FormValue(m, g, a)
           p == FormTerms(m, f, a)
           q == FormTerms(m, g, a)
<1>2. k \in Int /\ P \in Nat \ {0}
  BY FieldBasics
<1>3. /\ IsFiniteSet(m.wires) /\ IntegerAt(m.wires, s) /\ IntegerAt(m.wires, t)
      /\ p \in Int /\ q \in Int /\ f.constant \in Int /\ g.constant \in Int
      /\ \A w \in m.wires : f.terms[w] \in Int /\ g.terms[w] \in Int /\ a[w] \in Int
  BY FormTypes
<1>4. x = f.constant + p /\ y = g.constant + q /\ p = SumFunctionOnSet(s, m.wires) /\ q = SumFunctionOnSet(t, m.wires)
  BY DEF FormValue, FormTerms
<1>5. ASSUME NEW c \in Int, NEW d \in Int, c = (k * d) % P
      PROVE  SameModulo(P, c, k * d) /\ k * d \in Int
  <2> DEFINE n == k * d
  <2>1. n \in Int
    BY <1>2
  <2> HIDE DEF n
  <2>2. SameModulo(P, n % P, n)
    BY <1>2, <2>1, ModuloBasics
  <2> QED BY <1>5, <2>1, <2>2 DEF n
<1>6. ASSUME NEW w \in m.wires PROVE s[w] \in Int /\ h[w] \in Int /\ h[w] = k * t[w] /\ SameModulo(P, s[w], h[w])
  <2> DEFINE c == f.terms[w]
             d == g.terms[w]
  <2>1. c \in Int /\ d \in Int /\ a[w] \in Int /\ c = (k * d) % P
    BY <1>1, <1>3
  <2>2. s[w] = c * a[w] /\ t[w] = d * a[w] /\ h[w] = k * t[w]
    BY DEF FormTerm
  <2> HIDE DEF s, t, h, c, d
  <2>3. SameModulo(P, c, k * d) /\ k * d \in Int
    BY <1>5, <2>1
  <2> DEFINE n == k * d
  <2>4. SameModulo(P, c, n) /\ n \in Int
    BY <2>3
  <2> HIDE DEF n
  <2>5. SameModulo(P, a[w] * c, a[w] * n)
    BY <1>2, <2>1, <2>4, ModuloTimes
  <2>6. a[w] * c = s[w] /\ s[w] \in Int
    BY <2>1, <2>2
  <2>7. a[w] * n = h[w]
    <3>1. \A u, v, r \in Int : u * (v * r) = v * (r * u)
      OBVIOUS
    <3>2. a[w] * (k * d) = k * (d * a[w])
      BY <1>2, <2>1, <3>1
    <3> QED BY <2>2, <3>2 DEF n
  <2>8. h[w] \in Int
    BY <2>1, <2>4, <2>7
  <2> QED BY <2>2, <2>5, <2>6, <2>7, <2>8
<1>7. SameModulo(P, f.constant, k * g.constant) /\ k * g.constant \in Int
  BY <1>1, <1>3, <1>5
<1> DEFINE c == f.constant
           d == k * g.constant
<1>8. SameModulo(P, c, d) /\ c \in Int /\ d \in Int
  BY <1>3, <1>7
<1>9. SameModulo(P, y, 0) /\ x \in Int /\ y \in Int /\ k * y = d + k * q /\ k * q \in Int /\ x = c + p
  BY <1>2, <1>3, <1>4
<1> HIDE DEF s, t, h, x, y, p, q, c, d
<1>10. IntegerAt(m.wires, h)
  BY <1>6 DEF IntegerAt
<1>11. SameModulo(P, SumFunctionOnSet(s, m.wires), SumFunctionOnSet(h, m.wires))
  BY <1>2, <1>3, <1>6, <1>10, SumModulo
<1>12. SumFunctionOnSet(h, m.wires) = k * SumFunctionOnSet(t, m.wires)
  BY <1>2, <1>3, <1>6, SumTimes
<1>13. SameModulo(P, p, k * q)
  BY <1>4, <1>11, <1>12, Zenon
<1>14. SameModulo(P, c + p, d + k * q)
  BY <1>2, <1>3, <1>8, <1>9, <1>13, ModuloPlus
<1>15. SameModulo(P, x, k * y) /\ k * y \in Int
  BY <1>8, <1>9, <1>14
<1>16. SameModulo(P, k * y, k * 0) /\ k * 0 = 0
  BY <1>2, <1>9, ModuloTimes
<1>17. SameModulo(P, x, 0)
  BY <1>2, <1>9, <1>15, <1>16, ModuloTransitive
<1> QED BY <1>17 DEF x

(* solve_conditional_zero determines, with candidates collected when fewer wires
   were determined: where the form is not zero the unknown is; where it is, its
   multiples vanish and the unknown has a constant coefficient. *)
LEMMA ConditionalZeroSound ==
  ASSUME NEW m \in Models, NEW o \in Ops(m), NEW C, NEW D, C \subseteq D, NEW Z, ZerosHold(m, C, Z),
         NEW a, NEW b, Agree(m, D, a, b)
  PROVE  SameOn(SolveConditionalZero(m, o, D, Z), a, b)
<1> SUFFICES ASSUME NEW u \in SolveConditionalZero(m, o, D, Z) PROVE a[u] = b[u]
  BY DEF SameOn
<1>1. Decomposes(o, D) /\ u \in Unknowns(m, o, D)
  BY DEF SolveConditionalZero
<1>2. PICK z \in Z : /\ z[1] = u /\ IsConstant(m, UnknownForm(m, o, D, u))
                     /\ \A v \in Unknowns(m, o, D) \ {u} : IsMultipleOf(m, UnknownForm(m, o, D, v), z[2])
  BY DEF SolveConditionalZero
<1>3. Expression(m, o)
  BY <1>1 DEF Expression, Decomposes
<1>4. u \in o.wires \ D /\ \A v \in (o.wires \ D) \ {u} : v \notin Unknowns(m, o, D) => UnknownForm(m, o, D, v) = ZeroForm(m)
  BY <1>1 DEF Unknowns
<1> DEFINE A == z[2]
           F == UnknownForm(m, o, D, u)
           x == FormValue(m, A, a)
           e == F.constant
<1>5. ZeroHolds(m, C, z)
  BY <1>2 DEF ZerosHold
<1>6. IsForm(m, A) /\ (\A w \in m.wires : A.terms[w] # 0 => w \in D) /\ u \in m.wires
  BY <1>2, <1>5 DEF ZeroHolds
<1>7. /\ Run(m, a) /\ Run(m, b) /\ SameOn(D, a, b) /\ P \in Nat \ {0}
      /\ a[u] \in 0..P-1 /\ b[u] \in 0..P-1 /\ a[u] \in Int /\ b[u] \in Int
  BY <1>6, RunFacts, FieldBasics DEF Agree
<1>8. x \in Int /\ FormValue(m, A, b) = x
  BY <1>6, <1>7, FormTypes, FormSame
<1>9. SameModulo(P, a[u] * x, 0) /\ SameModulo(P, b[u] * x, 0)
  <2>1. \A c : Run(m, c) => SameModulo(P, c[u] * FormValue(m, A, c), 0)
    BY <1>2, <1>5 DEF ZeroHolds
  <2> HIDE DEF x
  <2>2. SameModulo(P, b[u] * FormValue(m, A, b), 0)
    BY <1>7, <2>1
  <2>3. SameModulo(P, a[u] * FormValue(m, A, a), 0)
    BY <1>7, <2>1
  <2> QED BY <1>8, <2>2, <2>3 DEF x
<1>10. CASE x % P # 0
  <2> HIDE DEF x
  <2>1. ASSUME NEW y \in 0..P-1, SameModulo(P, y * x, 0) PROVE y = 0
    <3>1. y \in Int /\ y * x = x * y /\ x * 0 = 0 /\ 0 \in 0..P-1
      BY <1>7, <1>8
    <3>2. SameModulo(P, x * y, x * 0)
      BY <2>1, <3>1
    <3> QED BY <1>8, <1>10, <3>1, <3>2, Cancel
  <2>2. a[u] = 0
    BY <1>7, <1>9, <2>1
  <2>3. b[u] = 0
    BY <1>7, <1>9, <2>1
  <2> QED BY <2>2, <2>3
<1>11. CASE x % P = 0
  <2>1. SameModulo(P, x, 0)
    <3> HIDE DEF x
    <3> QED BY <1>7, <1>8, <1>11, ModuloZero
  <2>2. ASSUME NEW c, Run(m, c), FormValue(m, A, c) = x
        PROVE  SameModulo(P, OpenPart(o, D, c), e * c[u]) /\ e * c[u] \in Int /\ OpenPart(o, D, c) \in Int /\ e \in Int
    <3>1. ASSUME NEW v \in (o.wires \ D) \ {u} PROVE SameModulo(P, FormValue(m, UnknownForm(m, o, D, v), c), 0)
      <4>1. CASE v \in Unknowns(m, o, D)
        <5>1. IsMultipleOf(m, UnknownForm(m, o, D, v), A)
          BY <1>2, <4>1
        <5>2. IsForm(m, UnknownForm(m, o, D, v))
          BY <1>3, UnknownFormMeans
        <5>3. SameModulo(P, FormValue(m, A, c), 0)
          BY <2>1, <2>2, Zenon
        <5> QED BY <1>6, <2>2, <5>1, <5>2, <5>3, MultipleOfZero
      <4>2. CASE v \notin Unknowns(m, o, D)
        <5>1. UnknownForm(m, o, D, v) = ZeroForm(m)
          BY <1>4, <4>2
        <5>2. FormValue(m, UnknownForm(m, o, D, v), c) = 0
          BY <2>2, <5>1, ZeroFormValue
        <5>3. SameModulo(P, 0, 0)
          BY ZeroIsZero
        <5> QED BY <5>2, <5>3
      <4> QED BY <4>1, <4>2
    <3>2. SameModulo(P, OpenPart(o, D, c), c[u] * FormValue(m, F, c))
      BY <1>1, <1>3, <1>4, <2>2, <3>1, OpenAtUnknown
    <3>3. FormValue(m, F, c) = e + FormTerms(m, F, c) /\ e \in Int
      <4>1. IsForm(m, F)
        BY <1>3, UnknownFormMeans
      <4> QED BY <2>2, <4>1, FormTypes DEF FormValue
    <3>4. FormTerms(m, F, c) = 0
      <4>1. ASSUME NEW w \in m.wires PROVE FormTerm(m, F, c)[w] = 0
        <5>1. FormTerm(m, F, c)[w] = F.terms[w] * c[w]
          BY DEF FormTerm
        <5>2. F.terms[w] = 0
          BY <1>2 DEF IsConstant
        <5>3. c[w] \in Int
          BY <2>2, RunFacts
        <5> QED BY <5>1, <5>2, <5>3
      <4>2. IsFiniteSet(m.wires)
        BY OpcodesMeanWhatTheySay
      <4> QED BY <4>1, <4>2, SumZero DEF FormTerms
    <3>5. c[u] \in Int
      BY <1>6, <2>2, RunFacts
    <3>6. OpenPart(o, D, c) \in Int
      BY <1>3, <2>2, PartTypes
    <3> HIDE DEF e, F
    <3>7. c[u] * FormValue(m, F, c) = e * c[u] /\ e * c[u] \in Int
      BY <3>3, <3>4, <3>5
    <3> QED BY <3>2, <3>3, <3>6, <3>7
  <2>3. e \in 1..P-1
    <3>1. e # 0
      BY <1>2 DEF IsConstant
    <3>2. e \in Field
      BY <1>3, UnknownFormMeans DEF IsForm
    <3> QED BY <1>7, <3>1, <3>2 DEF Field
  <2> DEFINE p == OpenPart(o, D, a)
             q == OpenPart(o, D, b)
  <2>4. SameModulo(P, p, e * a[u]) /\ e * a[u] \in Int /\ p \in Int
    BY <1>7, <2>2
  <2>5. SameModulo(P, q, e * b[u]) /\ e * b[u] \in Int /\ q \in Int
    BY <1>7, <1>8, <2>2
  <2>6. SameModulo(P, p, q)
    BY <1>3, <1>7, OpenSame
  <2> HIDE DEF e, p, q, x
  <2>7. SameModulo(P, e * a[u], p)
    BY <1>7, <2>4, ModuloSymmetric
  <2>8. SameModulo(P, e * a[u], q)
    BY <1>7, <2>4, <2>5, <2>6, <2>7, ModuloTransitive
  <2>9. SameModulo(P, e * a[u], e * b[u])
    BY <1>7, <2>4, <2>5, <2>8, ModuloTransitive
  <2>10. e \in Int /\ e % P # 0
    BY <1>7, <2>3
  <2> QED BY <1>7, <2>9, <2>10, Cancel
<1> QED BY <1>10, <1>11

-----------------------------------------------------------------------------
(* The invariant: what the passes have learned so far holds in every run. *)

(* S has one value once the inputs are fixed. *)
Determines(m, S) ==
  /\ S \subseteq m.wires
  /\ \A a, b : Run(m, a) /\ Run(m, b) /\ SameOn(m.inputs, a, b) => SameOn(S, a, b)

LearnedFacts(m, N, B, C) == \A a : Run(m, a) => NonzeroIn(N, a) /\ BoundedBy(B, a) /\ ValuesHold(C, a)

SoundInv ==
  /\ TypeOK
  /\ LearnedFacts(circuit, nonzero, bounds, constants)
  /\ circuit.inputs \subseteq determined
  /\ Determines(circuit, determined)
  /\ ZerosHold(circuit, determined, zeros)

(* To determine a set of wires is to name unique ones. *)
LEMMA DeterminesUnique ==
  ASSUME NEW m \in Models, NEW S
  PROVE  Determines(m, S) <=> S \subseteq UniqueWires[m]
<1>1. \A a : Run(m, a) <=> a \in Solutions(m)
  BY DEF Run
<1>2. UniqueWires[m] = {w \in m.wires : Unique(m, w)}
  BY DEF UniqueWires
<1>3. ASSUME Determines(m, S), NEW w \in S PROVE w \in UniqueWires[m]
  <2>1. w \in m.wires
    BY <1>3 DEF Determines
  <2>2. ASSUME NEW a \in Solutions(m), NEW b \in Solutions(m), SameOn(m.inputs, a, b) PROVE a[w] = b[w]
    <3>1. SameOn(S, a, b)
      BY <1>1, <1>3, <2>2 DEF Determines
    <3> QED BY <3>1 DEF SameOn
  <2> QED BY <1>2, <2>1, <2>2 DEF Unique
<1>4. ASSUME S \subseteq UniqueWires[m] PROVE Determines(m, S)
  <2>1. S \subseteq m.wires
    BY <1>2, <1>4
  <2>2. ASSUME NEW a, NEW b, Run(m, a), Run(m, b), SameOn(m.inputs, a, b), NEW w \in S PROVE a[w] = b[w]
    <3>1. Unique(m, w)
      BY <1>2, <1>4
    <3> QED BY <1>1, <2>2, <3>1 DEF Unique
  <2> QED BY <2>1, <2>2 DEF Determines, SameOn
<1> QED BY <1>3, <1>4

(* A set of wires that two runs agree on when they agree on D may be added. *)
LEMMA DeterminesMore ==
  ASSUME NEW m, NEW D, Determines(m, D), NEW S, S \subseteq m.wires,
         \A a, b : Agree(m, D, a, b) => SameOn(S, a, b)
  PROVE  Determines(m, D \cup S)
<1>1. D \cup S \subseteq m.wires
  BY DEF Determines
<1>2. ASSUME NEW a, NEW b, Run(m, a), Run(m, b), SameOn(m.inputs, a, b) PROVE SameOn(D \cup S, a, b)
  <2>1. SameOn(D, a, b)
    BY <1>2 DEF Determines
  <2>2. SameOn(S, a, b)
    BY <1>2, <2>1 DEF Agree
  <2> QED BY <2>1, <2>2 DEF SameOn
<1> QED BY <1>1, <1>2 DEF Determines

(* The same for what a lemma adds, when NOIR_PICUS_LEMMAS has it on. *)
LEMMA DeterminesIf ==
  ASSUME NEW m, NEW D, Determines(m, D), NEW S, S \subseteq m.wires, NEW lemma,
         \A a, b : Agree(m, D, a, b) => SameOn(S, a, b)
  PROVE  Determines(m, D \cup If(lemma, S))
<1>1. If(lemma, S) \subseteq S
  BY DEF If
<1>2. If(lemma, S) \subseteq m.wires
  BY <1>1
<1>3. \A a, b : Agree(m, D, a, b) => SameOn(If(lemma, S), a, b)
  BY <1>1 DEF SameOn
<1> QED BY <1>2, <1>3, DeterminesMore

(* The wires the lemmas add. *)
LEMMA LemmasAddWires ==
  ASSUME NEW m \in Models, NEW o \in Ops(m), NEW D, NEW N, NEW B, NEW Z
  PROVE  /\ SolveSingleUnknown(o, D, N) \subseteq m.wires
         /\ SolveEuclidean(o, D, B) \subseteq m.wires
         /\ ApplyBlackBox(o, D) \subseteq m.wires
         /\ SolveConditionalZero(m, o, D, Z) \subseteq m.wires
<1>1. o.wires \subseteq m.wires /\ o.outs \subseteq o.wires
  BY ModelsWellFormed DEF WellFormed
<1>2. SolveSingleUnknown(o, D, N) \subseteq o.wires
  BY DEF SolveSingleUnknown
<1>3. SolveEuclidean(o, D, B) \subseteq o.wires
  <2>1. CASE IsAssertZero(o)
    <3>1. \A i \in OpenLin(o, D) : o.lin[i][2] \in o.wires
      BY <2>1, ExpressionFacts DEF Expression, OpenLin, Live
    <3> QED BY <3>1 DEF SolveEuclidean
  <2>2. CASE ~IsAssertZero(o)
    BY <2>2 DEF SolveEuclidean
  <2> QED BY <2>1, <2>2
<1>4. ApplyBlackBox(o, D) \subseteq o.wires
  BY <1>1 DEF ApplyBlackBox
<1>5. SolveConditionalZero(m, o, D, Z) \subseteq o.wires
  BY DEF SolveConditionalZero, Unknowns
<1> QED BY <1>1, <1>2, <1>3, <1>4, <1>5

(* All the folded values of one opcode are of one wire. *)
LEMMA FoldTypes ==
  ASSUME NEW m \in Models, NEW o \in Ops(m), NEW C, NEW f \in FoldConstant(o, C)
  PROVE  f[1] \in m.wires /\ f[2] \in Field /\ \A g \in FoldConstant(o, C) : g[1] = f[1]
<1>1. IsAssertZero(o)
  BY DEF FoldConstant
<1> DEFINE unknowns == {o.lin[i][2] : i \in OpenLin(o, DOMAIN C)}
<1>2. \A g \in FoldConstant(o, C) : g \in unknowns \X Field /\ unknowns = {g[1]}
  BY DEF FoldConstant
<1>3. unknowns \subseteq m.wires
  BY <1>1, ExpressionFacts DEF Expression, OpenLin, Live
<1> HIDE DEF unknowns
<1>4. f \in unknowns \X Field
  BY <1>2
<1>5. f[1] \in m.wires /\ f[2] \in Field
  BY <1>3, <1>4
<1>6. ASSUME NEW g \in FoldConstant(o, C) PROVE g[1] = f[1]
  <2>1. unknowns = {g[1]} /\ unknowns = {f[1]}
    BY <1>2
  <2> QED BY <2>1
<1> QED BY <1>5, <1>6

(* The non-zero facts are about wires of the circuit. *)
LEMMA LearnsWires ==
  ASSUME NEW m \in Models, NEW o \in Ops(m)
  PROVE  LearnNonzero(o) \subseteq m.wires
<1>1. CASE IsAssertZero(o) /\ Len(o.mul) = 1
  <2>1. Expression(m, o) /\ MeansWhatItSays(m, o)
    BY <1>1, OpcodesMeanWhatTheySay DEF Expression
  <2>2. o.mul \in Seq(Field \X m.wires \X m.wires)
    BY <1>1, <2>1 DEF MeansWhatItSays, IsAssertZero
  <2>3. 1 \in DOMAIN o.mul
    BY <1>1, <2>2
  <2>4. Factors(o, 1) \subseteq o.wires /\ o.wires \subseteq m.wires
    BY <2>1, <2>3, ExpressionFacts DEF Factors
  <2> QED BY <2>4 DEF LearnNonzero
<1>2. CASE ~(IsAssertZero(o) /\ Len(o.mul) = 1)
  BY <1>2 DEF LearnNonzero
<1> QED BY <1>1, <1>2

(* A candidate looks at what was determined when it was collected. *)
LEMMA ZerosKept ==
  ASSUME NEW m, NEW D, NEW E, D \subseteq E, NEW Z, ZerosHold(m, D, Z)
  PROVE  ZerosHold(m, E, Z)
BY DEF ZerosHold, ZeroHolds

(* What the invariant says about types. *)
LEMMA SoundFacts ==
  ASSUME SoundInv
  PROVE  /\ circuit \in Models /\ lemmas \in LemmaSets /\ changed \in BOOLEAN
         /\ Len(circuit.opcodes) \in Nat /\ pc \in 1..Len(circuit.opcodes) + 1
         /\ IsFiniteSet(circuit.wires)
         /\ InSweep => opcode \in Ops(circuit) /\ pc + 1 \in 1..Len(circuit.opcodes) + 1
         /\ Bounds(circuit, bounds) /\ determined \subseteq circuit.wires /\ nonzero \subseteq circuit.wires
<1>1. /\ circuit \in Models /\ lemmas \in LemmaSets /\ changed \in BOOLEAN
      /\ pc \in 1..Len(circuit.opcodes) + 1
      /\ determined \subseteq circuit.wires /\ nonzero \subseteq circuit.wires
  BY DEF SoundInv, TypeOK
<1>2. Bounds(circuit, bounds)
  BY DEF SoundInv, TypeOK, Bounds
<1>3. circuit.opcodes \in Seq(Ops(circuit))
  BY <1>1, OpcodesAreListed
<1>4. DOMAIN circuit.opcodes = 1..Len(circuit.opcodes) /\ Len(circuit.opcodes) \in Nat
  BY <1>3
<1>5. ASSUME InSweep PROVE opcode \in Ops(circuit) /\ pc + 1 \in 1..Len(circuit.opcodes) + 1
  <2>1. pc \in DOMAIN circuit.opcodes
    BY <1>1, <1>4, <1>5 DEF InSweep
  <2>2. opcode \in Ops(circuit)
    BY <2>1 DEF opcode, Ops
  <2> QED BY <1>4, <2>1, <2>2
<1>6. IsFiniteSet(circuit.wires)
  BY <1>1, OpcodesMeanWhatTheySay
<1> QED BY <1>1, <1>2, <1>4, <1>5, <1>6

(* The bounds of the RANGE opcodes hold, and the inputs determine themselves. *)
LEMMA InitSound == Init => SoundInv
<1> SUFFICES ASSUME Init PROVE SoundInv
  OBVIOUS
<1>1. /\ circuit \in Models /\ lemmas \in LemmaSets /\ phase = "bounds" /\ pc = 1 /\ changed = FALSE
      /\ determined = circuit.inputs /\ nonzero = {} /\ bounds = RangeBounds(circuit)
      /\ zeros = {} /\ constants = << >>
  BY DEF Init
<1>2. circuit.opcodes \in Seq(Ops(circuit)) /\ WellFormed(circuit)
  BY <1>1, OpcodesAreListed, ModelsWellFormed
<1>3. Len(circuit.opcodes) \in Nat
  BY <1>2
<1>4. determined \subseteq circuit.wires
  BY <1>1, <1>2 DEF WellFormed
<1>5. DOMAIN constants = {} /\ constants \in [DOMAIN constants -> Field]
  BY <1>1
<1>6. bounds \in [DOMAIN bounds -> Nat] /\ DOMAIN bounds \subseteq circuit.wires /\ \A a : Run(circuit, a) => BoundedBy(bounds, a)
  BY <1>1, RangeSound
<1>7. TypeOK
  <2>1. pc \in 1..Len(circuit.opcodes) + 1
    BY <1>1, <1>3
  <2>2. nonzero \subseteq circuit.wires /\ (\A z \in zeros : z[1] \in circuit.wires) /\ changed \in BOOLEAN
    BY <1>1
  <2> QED BY <1>1, <1>4, <1>5, <1>6, <2>1, <2>2 DEF TypeOK
<1>8. LearnedFacts(circuit, nonzero, bounds, constants)
  BY <1>1, <1>5, <1>6 DEF LearnedFacts, NonzeroIn, ValuesHold
<1>9. Determines(circuit, determined)
  BY <1>1, <1>4 DEF Determines
<1>10. ZerosHold(circuit, determined, zeros)
  BY <1>1 DEF ZerosHold
<1>11. circuit.inputs \subseteq determined
  BY <1>1
<1> QED BY <1>7, <1>8, <1>9, <1>10, <1>11 DEF SoundInv

(* The actions preserve the invariant, one by one. *)
LEMMA BoundsKeepSound ==
  ASSUME SoundInv, PropagateBounds
  PROVE  SoundInv'
<1>1. /\ InSweep /\ bounds' = Tightened(opcode, bounds) /\ pc' = pc + 1
      /\ changed' = (changed \/ bounds' # bounds)
      /\ UNCHANGED <<circuit, lemmas, phase, determined, nonzero, zeros, constants>>
  BY DEF PropagateBounds
<1>2. /\ Bounds(circuit, Tightened(opcode, bounds))
      /\ \A a : Run(circuit, a) /\ BoundedBy(bounds, a) => BoundedBy(Tightened(opcode, bounds), a)
  BY <1>1, SoundFacts, TightenedSound
<1>3. bounds' \in [DOMAIN bounds' -> Nat] /\ DOMAIN bounds' \subseteq circuit.wires
  BY <1>1, <1>2 DEF Bounds
<1>4. TypeOK'
  <2>1. pc' \in 1..Len(circuit.opcodes) + 1 /\ changed' \in BOOLEAN
    BY <1>1, SoundFacts
  <2> QED BY <1>1, <1>3, <2>1 DEF SoundInv, TypeOK
<1>5. LearnedFacts(circuit, nonzero, bounds', constants)
  BY <1>1, <1>2 DEF SoundInv, LearnedFacts
<1>6. Determines(circuit, determined) /\ ZerosHold(circuit, determined, zeros)
  BY DEF SoundInv
<1> QED BY <1>1, <1>4, <1>5, <1>6 DEF SoundInv

(* What the lemmas of one opcode add, each on what the one before it left. *)
LEMMA ApplyKeepsSound ==
  ASSUME SoundInv, Apply
  PROVE  SoundInv'
<1> DEFINE single == determined \cup If("single", SolveSingleUnknown(opcode, determined, nonzero'))
           euclid == single \cup If("euclid", SolveEuclidean(opcode, single, bounds))
           all == euclid \cup If("blackbox", ApplyBlackBox(opcode, euclid))
<1>1. /\ InSweep /\ nonzero' = nonzero \cup LearnNonzero(opcode) /\ determined' = all /\ pc' = pc + 1
      /\ changed' = (changed \/ <<determined, nonzero>>' # <<determined, nonzero>>)
      /\ UNCHANGED <<circuit, lemmas, phase, bounds, zeros, constants>>
  BY DEF Apply
<1>2. /\ circuit \in Models /\ opcode \in Ops(circuit) /\ Bounds(circuit, bounds)
      /\ determined \subseteq circuit.wires /\ nonzero \subseteq circuit.wires
  BY <1>1, SoundFacts
<1>3. LearnedFacts(circuit, nonzero, bounds, constants) /\ Determines(circuit, determined)
      /\ ZerosHold(circuit, determined, zeros)
  BY DEF SoundInv
<1> DEFINE N == nonzero'
<1>4. \A a : Run(circuit, a) => NonzeroIn(N, a) /\ BoundedBy(bounds, a)
  <2>1. ASSUME NEW a, Run(circuit, a) PROVE NonzeroIn(N, a) /\ BoundedBy(bounds, a)
    <3>1. NonzeroIn(nonzero, a) /\ BoundedBy(bounds, a)
      BY <1>3, <2>1 DEF LearnedFacts
    <3>2. NonzeroIn(LearnNonzero(opcode), a)
      BY <1>2, <2>1, NonzeroSound
    <3> QED BY <1>1, <3>1, <3>2 DEF NonzeroIn
  <2> QED BY <2>1
<1>5. N \subseteq circuit.wires
  <2>1. LearnNonzero(opcode) \subseteq circuit.wires
    BY <1>2, LearnsWires
  <2> QED BY <1>1, <1>2, <2>1
<1> HIDE DEF N
<1>6. Determines(circuit, single)
  <2>1. SolveSingleUnknown(opcode, determined, N) \subseteq circuit.wires
    BY <1>2, LemmasAddWires
  <2>2. ASSUME NEW a, NEW b, Agree(circuit, determined, a, b)
        PROVE  SameOn(SolveSingleUnknown(opcode, determined, N), a, b)
    <3>1. NonzeroIn(N, a)
      BY <1>4, <2>2 DEF Agree
    <3> QED BY <1>2, <2>2, <3>1, SingleSound
  <2>3. Determines(circuit, determined \cup If("single", SolveSingleUnknown(opcode, determined, N)))
    BY <1>3, <2>1, <2>2, DeterminesIf
  <2> QED BY <2>3 DEF N
<1> HIDE DEF single
<1>7. Determines(circuit, euclid)
  <2>1. SolveEuclidean(opcode, single, bounds) \subseteq circuit.wires
    BY <1>2, LemmasAddWires
  <2>2. ASSUME NEW a, NEW b, Agree(circuit, single, a, b)
        PROVE  SameOn(SolveEuclidean(opcode, single, bounds), a, b)
    <3>1. BoundedBy(bounds, a) /\ BoundedBy(bounds, b)
      BY <1>4, <2>2 DEF Agree
    <3>2. bounds \in [DOMAIN bounds -> Nat]
      BY <1>2 DEF Bounds
    <3> QED BY <1>2, <2>2, <3>1, <3>2, EuclideanSound
  <2> QED BY <1>6, <2>1, <2>2, DeterminesIf
<1> HIDE DEF euclid
<1>8. Determines(circuit, all)
  <2>1. ApplyBlackBox(opcode, euclid) \subseteq circuit.wires
    BY <1>2, LemmasAddWires
  <2>2. \A a, b : Agree(circuit, euclid, a, b) => SameOn(ApplyBlackBox(opcode, euclid), a, b)
    BY <1>2, BlackBoxSound
  <2> QED BY <1>7, <2>1, <2>2, DeterminesIf
<1>9. determined \subseteq all
  BY DEF single, euclid
<1> HIDE DEF all
<1>10. ZerosHold(circuit, all, zeros)
  BY <1>3, <1>9, ZerosKept
<1>11. LearnedFacts(circuit, N, bounds, constants)
  BY <1>3, <1>4 DEF LearnedFacts
<1>12. TypeOK'
  <2>1. pc' \in 1..Len(circuit.opcodes) + 1 /\ changed' \in BOOLEAN
    BY <1>1, SoundFacts
  <2>2. all \subseteq circuit.wires
    BY <1>8 DEF Determines
  <2> QED BY <1>1, <1>5, <2>1, <2>2 DEF SoundInv, TypeOK, N
<1>13. circuit.inputs \subseteq all
  BY <1>9 DEF SoundInv
<1> QED BY <1>1, <1>8, <1>10, <1>11, <1>12, <1>13 DEF SoundInv, N

(* A step that leaves what was learned alone, or drops the candidates. *)
LEMMA QuietKeepsSound ==
  ASSUME SoundInv, UNCHANGED <<circuit, lemmas, determined, nonzero, bounds, constants>>,
         zeros' \in {{}, zeros}, phase' \in {"bounds", "lemmas", "condzero", "constants", "done"},
         pc' \in {1, pc}, changed' \in BOOLEAN
  PROVE  SoundInv'
<1>1. pc' \in 1..Len(circuit.opcodes) + 1
  BY SoundFacts
<1>2. TypeOK'
  BY <1>1 DEF SoundInv, TypeOK
<1>3. ZerosHold(circuit, determined, zeros')
  BY DEF SoundInv, ZerosHold
<1> QED BY <1>2, <1>3 DEF SoundInv

LEMMA CollectKeepsSound ==
  ASSUME SoundInv, CollectConditionalZeros
  PROVE  SoundInv'
<1>1. /\ zeros' = If("condzero", ConditionalZeros(circuit, determined)) /\ phase' = "condzero"
      /\ pc' = IF zeros' = {} THEN Len(circuit.opcodes) + 1 ELSE 1
      /\ UNCHANGED <<circuit, lemmas, changed, determined, nonzero, bounds, constants>>
  BY DEF CollectConditionalZeros
<1>2. pc' \in 1..Len(circuit.opcodes) + 1
  BY <1>1, SoundFacts
<1>3. ZerosHold(circuit, determined, zeros')
  <2>1. ZerosHold(circuit, determined, ConditionalZeros(circuit, determined))
    BY SoundFacts, CandidatesHold
  <2>2. zeros' \subseteq ConditionalZeros(circuit, determined)
    BY <1>1 DEF If
  <2> QED BY <2>1, <2>2 DEF ZerosHold
<1>4. TypeOK'
  <2>1. \A z \in zeros' : z[1] \in circuit.wires
    BY <1>3 DEF ZerosHold, ZeroHolds
  <2> QED BY <1>1, <1>2, <2>1 DEF SoundInv, TypeOK
<1> QED BY <1>1, <1>3, <1>4 DEF SoundInv

LEMMA CaseSplitKeepsSound ==
  ASSUME SoundInv, ApplyConditionalZero
  PROVE  SoundInv'
<1> DEFINE S == SolveConditionalZero(circuit, opcode, determined, zeros)
<1>1. /\ InSweep /\ determined' = determined \cup S /\ pc' = pc + 1
      /\ changed' = (changed \/ determined' # determined)
      /\ UNCHANGED <<circuit, lemmas, phase, nonzero, bounds, zeros, constants>>
  BY DEF ApplyConditionalZero
<1>2. circuit \in Models /\ opcode \in Ops(circuit)
  BY <1>1, SoundFacts
<1>3. Determines(circuit, determined) /\ ZerosHold(circuit, determined, zeros)
  BY DEF SoundInv
<1>4. S \subseteq circuit.wires
  BY <1>2, LemmasAddWires
<1>5. \A a, b : Agree(circuit, determined, a, b) => SameOn(S, a, b)
  BY <1>2, <1>3, ConditionalZeroSound
<1> HIDE DEF S
<1>6. Determines(circuit, determined \cup S)
  BY <1>3, <1>4, <1>5, DeterminesMore
<1>7. ZerosHold(circuit, determined \cup S, zeros)
  BY <1>3, ZerosKept
<1>8. TypeOK'
  <2>1. pc' \in 1..Len(circuit.opcodes) + 1 /\ changed' \in BOOLEAN
    BY <1>1, SoundFacts
  <2>2. determined \cup S \subseteq circuit.wires
    BY <1>4, SoundFacts
  <2> QED BY <1>1, <2>1, <2>2 DEF SoundInv, TypeOK
<1> QED BY <1>1, <1>6, <1>7, <1>8 DEF SoundInv

LEMMA FoldKeepsSound ==
  ASSUME SoundInv, FoldConstants
  PROVE  SoundInv'
<1> DEFINE folded == FoldConstant(opcode, constants)
           W == DOMAIN constants \cup {f[1] : f \in folded}
           new == [w \in W |-> IF w \in DOMAIN constants THEN constants[w] ELSE (CHOOSE f \in folded : TRUE)[2]]
<1>1. /\ InSweep /\ constants' = new /\ pc' = pc + 1
      /\ changed' = (changed \/ folded # {})
      /\ UNCHANGED <<circuit, lemmas, phase, determined, nonzero, bounds, zeros>>
  BY DEF FoldConstants
<1>2. circuit \in Models /\ opcode \in Ops(circuit)
  BY <1>1, SoundFacts
<1>3. \A f \in folded : f[1] \in circuit.wires /\ f[2] \in Field /\ \A g \in folded : g[1] = f[1]
  BY <1>2, FoldTypes
<1>4. constants \in [DOMAIN constants -> Field] /\ DOMAIN constants \subseteq circuit.wires
  BY DEF SoundInv, TypeOK
<1>5. \A a : Run(circuit, a) => ValuesHold(constants, a)
  BY DEF SoundInv, LearnedFacts
<1>6. \A f \in folded : \A a : Run(circuit, a) => a[f[1]] = f[2]
  BY <1>2, <1>5, FoldSound
<1> HIDE DEF folded
<1>7. ASSUME NEW w \in W PROVE new[w] \in Field /\ w \in circuit.wires /\ \A a : Run(circuit, a) => a[w] = new[w]
  <2>1. CASE w \in DOMAIN constants
    <3>1. new[w] = constants[w]
      BY <2>1
    <3>2. constants[w] \in Field /\ w \in circuit.wires
      BY <1>4, <2>1
    <3> HIDE DEF new
    <3> QED BY <1>5, <2>1, <3>1, <3>2 DEF ValuesHold
  <2>2. CASE w \notin DOMAIN constants
    <3> DEFINE f == CHOOSE f \in folded : TRUE
    <3>1. PICK g \in folded : w = g[1]
      BY <2>2
    <3>2. f \in folded
      BY <3>1
    <3>3. new[w] = f[2]
      BY <2>2
    <3> HIDE DEF new, f
    <3>4. f[1] = w
      BY <1>3, <3>1, <3>2
    <3> QED BY <1>3, <1>6, <3>2, <3>3, <3>4
  <2> QED BY <2>1, <2>2
<1>8. DOMAIN new = W /\ new = [w \in W |-> new[w]]
  OBVIOUS
<1> HIDE DEF new, W
<1>9. new \in [DOMAIN new -> Field] /\ DOMAIN new \subseteq circuit.wires
  BY <1>7, <1>8
<1>10. \A a : Run(circuit, a) => ValuesHold(new, a)
  BY <1>7, <1>8 DEF ValuesHold
<1>11. LearnedFacts(circuit, nonzero, bounds, new)
  BY <1>10 DEF SoundInv, LearnedFacts
<1>12. TypeOK'
  <2>1. pc' \in 1..Len(circuit.opcodes) + 1 /\ changed' \in BOOLEAN
    BY <1>1, SoundFacts
  <2> QED BY <1>1, <1>9, <2>1 DEF SoundInv, TypeOK
<1>13. Determines(circuit, determined) /\ ZerosHold(circuit, determined, zeros)
  BY DEF SoundInv
<1> QED BY <1>1, <1>11, <1>12, <1>13 DEF SoundInv

LEMMA NextSound == SoundInv /\ [Next]_vars => SoundInv'
<1> SUFFICES ASSUME SoundInv, [Next]_vars PROVE SoundInv'
  OBVIOUS
<1>1. phase \in {"bounds", "lemmas", "condzero", "constants", "done"} /\ changed \in BOOLEAN
  BY DEF SoundInv, TypeOK
<1>2. CASE PropagateBounds
  BY <1>2, BoundsKeepSound
<1>3. CASE EndBoundsSweep
  BY <1>1, <1>3, QuietKeepsSound DEF EndBoundsSweep, Repeat
<1>4. CASE Apply
  BY <1>4, ApplyKeepsSound
<1>5. CASE CollectConditionalZeros
  BY <1>5, CollectKeepsSound
<1>6. CASE ApplyConditionalZero
  BY <1>6, CaseSplitKeepsSound
<1>7. CASE EndLemmaSweep
  BY <1>1, <1>7, QuietKeepsSound DEF EndLemmaSweep, Repeat
<1>8. CASE FoldConstants
  BY <1>8, FoldKeepsSound
<1>9. CASE EndConstantsSweep
  BY <1>1, <1>9, QuietKeepsSound DEF EndConstantsSweep, Repeat
<1>10. CASE UNCHANGED vars
  BY <1>1, <1>10, QuietKeepsSound DEF vars
<1> QED BY <1>2, <1>3, <1>4, <1>5, <1>6, <1>7, <1>8, <1>9, <1>10 DEF Next

(* The invariant holds: every fact the passes have recorded, at any point of any
   loop, is true of every run of the circuit.                                  *)
THEOREM SoundInvHolds == Spec => []SoundInv
BY InitSound, NextSound, PTL DEF Spec

(* No bound and no non-zero fact that a lemma divides by, or rules wrap-around out
   with, is wrong (uniqueness.rs:304, 424).                                     *)
THEOREM FactsAreSound == Spec => []FactsHold
<1>1. SoundInv => FactsHold
  <2> SUFFICES ASSUME SoundInv PROVE FactsHold
    OBVIOUS
  <2>1. TypeOK /\ circuit \in Models /\ LearnedFacts(circuit, nonzero, bounds, constants)
    BY DEF SoundInv, TypeOK
  <2>2. \A a \in SolutionsOf[circuit] : Run(circuit, a)
    BY <2>1 DEF SolutionsOf, Run
  <2> QED BY <2>1, <2>2 DEF FactsHold, LearnedFacts, NonzeroIn, BoundedBy
<1> QED BY <1>1, SoundInvHolds, PTL

(* A wire that is called determined has one value once the inputs are fixed, and a
   constant its value in every run (translate.rs:523).                           *)
THEOREM ResultSound == Spec => []ResultIsSound
<1>1. SoundInv => ResultIsSound
  <2> SUFFICES ASSUME SoundInv
               PROVE  /\ determined \subseteq UniqueWires[circuit]
                      /\ \A w \in DOMAIN constants : \A a \in SolutionsOf[circuit] : a[w] = constants[w]
    BY DEF ResultIsSound
  <2>1. circuit \in Models /\ Determines(circuit, determined) /\ LearnedFacts(circuit, nonzero, bounds, constants)
    BY DEF SoundInv, TypeOK
  <2>2. determined \subseteq UniqueWires[circuit]
    BY <2>1, DeterminesUnique
  <2>3. \A a \in SolutionsOf[circuit] : Run(circuit, a)
    BY <2>1 DEF SolutionsOf, Run
  <2> QED BY <2>1, <2>2, <2>3 DEF LearnedFacts, ValuesHold
<1> QED BY <1>1, SoundInvHolds, PTL

(* The result changes two fields of the circuit. *)
LEMMA ResultFields ==
  ASSUME circuit \in Models
  PROVE  /\ Result.wires = circuit.wires /\ Result.inputs = circuit.inputs /\ Result.opcodes = circuit.opcodes
         /\ Result.proved = circuit.proved /\ Result.known = determined /\ Result.consts = constants
         /\ DOMAIN Result = DOMAIN circuit
<1>1. {"wires", "inputs", "opcodes", "consts", "known", "proved"} \subseteq DOMAIN circuit
  BY ModelsWellFormed DEF WellFormed
<1> QED BY <1>1 DEF Result

(* The model built from the two results. *)
HandsOverAModel == phase = "done" => WellFormed(Result) /\ SoundModel(Result)

(* What the passes hand over is a model as module Circuit assumes one: their part
   of what the solver, the refinement and the scan take for granted is true.     *)
THEOREM ResultIsAModel == Spec => []HandsOverAModel
<1>1. SoundInv => HandsOverAModel
  <2> SUFFICES ASSUME SoundInv PROVE WellFormed(Result) /\ SoundModel(Result)
    BY DEF HandsOverAModel
  <2>1. circuit \in Models /\ WellFormed(circuit) /\ SoundModel(circuit)
    BY ModelsWellFormed, ModelsSound DEF SoundInv, TypeOK
  <2>2. /\ Result.wires = circuit.wires /\ Result.inputs = circuit.inputs /\ Result.opcodes = circuit.opcodes
        /\ Result.proved = circuit.proved /\ Result.known = determined /\ Result.consts = constants
        /\ DOMAIN Result = DOMAIN circuit
    BY <2>1, ResultFields
  <2> DEFINE r == Result
  <2> HIDE DEF r
  <2>3. Ops(r) = Ops(circuit) /\ Assignments(r) = Assignments(circuit)
    BY <2>2 DEF r, Ops, Assignments
  <2>4. Solutions(r) = Solutions(circuit)
    BY <2>3 DEF Solutions
  <2>5. \A w : Unique(r, w) <=> Unique(circuit, w)
    BY <2>2, <2>4 DEF Unique, r
  <2>6. \A o : IsFunction(r, o) <=> IsFunction(circuit, o)
    BY <2>3 DEF IsFunction
  <2>7. \A o : LocalOpcode(r, o) <=> LocalOpcode(circuit, o)
    BY <2>2, <2>3 DEF LocalOpcode, OnOwnWires, r
  <2>8. \A o : Treatment(r, o) = Treatment(circuit, o)
    BY <2>2 DEF Treatment, r
  <2>9. /\ circuit.inputs \subseteq determined /\ determined \subseteq circuit.wires
        /\ constants \in [DOMAIN constants -> Values] /\ DOMAIN constants \subseteq circuit.wires
        /\ determined \subseteq UniqueWires[circuit]
        /\ \A w \in DOMAIN constants : \A a \in Solutions(circuit) : a[w] = constants[w]
    <3>1. /\ circuit.inputs \subseteq determined /\ determined \subseteq circuit.wires
          /\ constants \in [DOMAIN constants -> Values] /\ DOMAIN constants \subseteq circuit.wires
      BY FieldIsPrime DEF SoundInv, TypeOK
    <3>2. determined \subseteq UniqueWires[circuit]
      BY <2>1, DeterminesUnique DEF SoundInv
    <3>3. \A w \in DOMAIN constants : \A a \in Solutions(circuit) : a[w] = constants[w]
      BY <2>1 DEF SoundInv, LearnedFacts, ValuesHold, Run
    <3> QED BY <3>1, <3>2, <3>3
  <2>10. WellFormed(r)
    BY <2>1, <2>2, <2>3, <2>7, <2>9 DEF WellFormed, r
  <2>11. SoundModel(r)
    <3>1. \A w \in determined : Unique(circuit, w)
      BY <2>1, <2>9 DEF UniqueWires
    <3> QED BY <2>1, <2>2, <2>3, <2>4, <2>5, <2>6, <2>8, <2>9, <3>1 DEF SoundModel, r
  <2> QED BY <2>10, <2>11 DEF r
<1> QED BY <1>1, SoundInvHolds, PTL

-----------------------------------------------------------------------------
(* The passes stop at a fixpoint. *)

(* The opcodes the running sweep has handled. *)
Swept == {circuit.opcodes[i] : i \in 1..pc-1}

BoundsSettled(O) == \A o \in O : Tightened(o, bounds) = bounds

LemmasSettled(O) ==
  \A o \in O :
    /\ LearnNonzero(o) \subseteq nonzero
    /\ "single" \in lemmas => SolveSingleUnknown(o, determined, nonzero) = {}
    /\ "euclid" \in lemmas => SolveEuclidean(o, determined, bounds) = {}
    /\ "blackbox" \in lemmas => ApplyBlackBox(o, determined) \subseteq determined

CaseSplitSettled(O) ==
  \A o \in O : "condzero" \in lemmas =>
    SolveConditionalZero(circuit, o, determined, ConditionalZeros(circuit, determined)) \subseteq determined

FoldingSettled(O) == \A o \in O : FoldConstant(o, constants) = {}

LoopInv ==
  /\ circuit \in Models
  /\ phase \in {"bounds", "lemmas", "condzero", "constants", "done"}
  /\ pc \in 1..Len(circuit.opcodes) + 1
  /\ constants = [w \in DOMAIN constants |-> constants[w]]

(* A sweep that has changed nothing so far has found every opcode before pc
   closed; a loop that is over has left all of them closed, and no later loop
   takes that back.                                                          *)
SweepInv ==
  /\ phase = "bounds" /\ ~changed => BoundsSettled(Swept)
  /\ phase # "bounds" => BoundsSettled(Ops(circuit))
  /\ phase = "lemmas" /\ ~changed => LemmasSettled(Swept)
  /\ phase = "condzero" /\ ~changed =>
       /\ LemmasSettled(Ops(circuit))
       /\ CaseSplitSettled(Swept)
       /\ zeros = If("condzero", ConditionalZeros(circuit, determined))
  /\ phase \in {"constants", "done"} => LemmasSettled(Ops(circuit)) /\ CaseSplitSettled(Ops(circuit))
  /\ phase = "constants" /\ ~changed => FoldingSettled(Swept)
  /\ phase = "done" => FoldingSettled(Ops(circuit))

FixpointInv == LoopInv /\ SweepInv

LEMMA InitFixpoint == Init => FixpointInv
<1> SUFFICES ASSUME Init PROVE FixpointInv
  OBVIOUS
<1>1. circuit \in Models /\ phase = "bounds" /\ pc = 1
  BY DEF Init
<1>2. constants = [w \in DOMAIN constants |-> constants[w]]
  BY DEF Init
<1>3. Len(circuit.opcodes) \in Nat
  BY <1>1, OpcodesAreListed
<1>4. LoopInv
  BY <1>1, <1>2, <1>3 DEF LoopInv
<1>5. Swept = {}
  BY <1>1 DEF Swept
<1>6. SweepInv
  BY <1>1, <1>5 DEF SweepInv, BoundsSettled
<1> QED BY <1>4, <1>6 DEF FixpointInv

-----------------------------------------------------------------------------
(* How a sweep moves over the opcodes. *)

LEMMA Opcodes ==
  ASSUME LoopInv
  PROVE  /\ Len(circuit.opcodes) \in Nat
         /\ Ops(circuit) = {circuit.opcodes[i] : i \in 1..Len(circuit.opcodes)}
<1>1. circuit.opcodes \in Seq(Ops(circuit))
  BY OpcodesAreListed DEF LoopInv
<1>2. DOMAIN circuit.opcodes = 1..Len(circuit.opcodes) /\ Len(circuit.opcodes) \in Nat
  BY <1>1
<1> QED BY <1>2 DEF Ops

(* A loop body adds its opcode to those that were handled. *)
LEMMA SweepGrows ==
  ASSUME LoopInv, InSweep, pc' = pc + 1, circuit' = circuit
  PROVE  /\ pc' \in 1..Len(circuit.opcodes) + 1
         /\ Swept' = Swept \cup {opcode}
<1>1. Len(circuit.opcodes) \in Nat /\ pc \in 1..Len(circuit.opcodes)
  BY Opcodes DEF LoopInv, InSweep
<1>2. Swept' = {circuit.opcodes[i] : i \in 1..pc}
  BY <1>1 DEF Swept
<1>3. 1..pc = 1..pc-1 \cup {pc}
  BY <1>1
<1> QED BY <1>1, <1>2, <1>3 DEF Swept, opcode

(* At the end of a sweep every opcode was handled; a new one has handled none. *)
LEMMA SweepEnds ==
  ASSUME LoopInv, ~InSweep
  PROVE  Swept = Ops(circuit)
<1>1. pc = Len(circuit.opcodes) + 1 /\ Len(circuit.opcodes) \in Nat
  BY Opcodes DEF LoopInv, InSweep
<1>2. pc - 1 = Len(circuit.opcodes)
  BY <1>1
<1> QED BY <1>2, Opcodes DEF Swept

LEMMA SweepBegins ==
  ASSUME LoopInv, pc' = 1, circuit' = circuit
  PROVE  pc' \in 1..Len(circuit.opcodes) + 1 /\ Swept' = {}
BY Opcodes DEF Swept

-----------------------------------------------------------------------------
(* The bounds. *)

LEMMA StepBounds ==
  ASSUME FixpointInv, PropagateBounds
  PROVE  FixpointInv'
<1>1. phase = "bounds" /\ InSweep /\ UNCHANGED <<circuit, phase, constants>> /\ pc' = pc + 1
  BY DEF PropagateBounds
<1>2. LoopInv'
  BY <1>1, SweepGrows DEF FixpointInv, LoopInv
<1>3. ASSUME ~changed' PROVE BoundsSettled(Swept)'
  <2>1. ~changed /\ bounds' = bounds /\ Tightened(opcode, bounds) = bounds
    BY <1>3 DEF PropagateBounds
  <2>2. BoundsSettled(Swept)
    BY <1>1, <2>1 DEF FixpointInv, SweepInv
  <2>3. Swept' = Swept \cup {opcode}
    BY <1>1, SweepGrows DEF FixpointInv
  <2> QED BY <2>1, <2>2, <2>3 DEF BoundsSettled
<1>4. SweepInv'
  BY <1>1, <1>3 DEF SweepInv
<1> QED BY <1>2, <1>4 DEF FixpointInv

LEMMA StepBoundsEnd ==
  ASSUME FixpointInv, EndBoundsSweep
  PROVE  FixpointInv'
<1>1. /\ phase = "bounds" /\ ~InSweep /\ pc' = 1 /\ ~changed'
      /\ phase' = IF changed THEN "bounds" ELSE "lemmas"
      /\ UNCHANGED <<circuit, lemmas, determined, nonzero, bounds, constants>>
  BY DEF EndBoundsSweep, Repeat
<1>2. LoopInv'
  BY <1>1, SweepBegins DEF FixpointInv, LoopInv
<1>3. Swept' = {}
  BY <1>1, SweepBegins DEF FixpointInv
<1>4. BoundsSettled(Swept)' /\ LemmasSettled(Swept)'
  BY <1>3 DEF BoundsSettled, LemmasSettled
<1>5. ASSUME ~changed PROVE BoundsSettled(Ops(circuit))'
  <2>1. BoundsSettled(Ops(circuit))
    BY <1>1, <1>5, SweepEnds DEF FixpointInv, SweepInv
  <2> QED BY <1>1, <2>1 DEF BoundsSettled
<1>6. SweepInv'
  BY <1>1, <1>4, <1>5 DEF SweepInv
<1> QED BY <1>2, <1>6 DEF FixpointInv

-----------------------------------------------------------------------------
(* The lemmas. *)

LEMMA LemmasAddNewWires ==
  ASSUME NEW o, NEW D, NEW N, NEW B
  PROVE  /\ SolveSingleUnknown(o, D, N) \cap D = {}
         /\ SolveEuclidean(o, D, B) \cap D = {}
<1>1. SolveSingleUnknown(o, D, N) \cap D = {}
  BY DEF SolveSingleUnknown
<1>2. SolveEuclidean(o, D, B) \subseteq {o.lin[i][2] : i \in OpenLin(o, D)}
  BY DEF SolveEuclidean
<1>3. \A i \in OpenLin(o, D) : o.lin[i][2] \notin D
  BY DEF OpenLin
<1> QED BY <1>1, <1>2, <1>3

(* A body of the lemma loop that adds nothing has found its opcode closed. *)
LEMMA ApplyNothing ==
  ASSUME Apply, ~changed'
  PROVE  ~changed /\ determined' = determined /\ nonzero' = nonzero /\ LemmasSettled({opcode})
<1> DEFINE single == determined \cup If("single", SolveSingleUnknown(opcode, determined, nonzero'))
           euclid == single \cup If("euclid", SolveEuclidean(opcode, single, bounds))
<1>1. determined' = euclid \cup If("blackbox", ApplyBlackBox(opcode, euclid))
  BY DEF Apply
<1>2. ~changed /\ <<determined, nonzero>>' = <<determined, nonzero>>
  BY DEF Apply
<1>3. nonzero' = nonzero /\ determined' = determined
  BY <1>2
<1>4. nonzero' = nonzero \cup LearnNonzero(opcode)
  BY DEF Apply
<1>5. single = determined /\ euclid = determined
  BY <1>1, <1>3
<1>6. /\ If("single", SolveSingleUnknown(opcode, determined, nonzero)) \subseteq determined
      /\ If("euclid", SolveEuclidean(opcode, determined, bounds)) \subseteq determined
      /\ If("blackbox", ApplyBlackBox(opcode, determined)) \subseteq determined
  BY <1>1, <1>3, <1>5
<1>7. "single" \in lemmas => SolveSingleUnknown(opcode, determined, nonzero) = {}
  BY <1>6, LemmasAddNewWires DEF If
<1>8. "euclid" \in lemmas => SolveEuclidean(opcode, determined, bounds) = {}
  BY <1>6, LemmasAddNewWires DEF If
<1>9. "blackbox" \in lemmas => ApplyBlackBox(opcode, determined) \subseteq determined
  BY <1>6 DEF If
<1>10. LearnNonzero(opcode) \subseteq nonzero
  BY <1>3, <1>4
<1> QED BY <1>2, <1>3, <1>7, <1>8, <1>9, <1>10 DEF LemmasSettled

LEMMA StepApply ==
  ASSUME FixpointInv, Apply
  PROVE  FixpointInv'
<1>1. /\ phase = "lemmas" /\ InSweep /\ pc' = pc + 1
      /\ UNCHANGED <<circuit, lemmas, phase, bounds, constants>>
  BY DEF Apply
<1>2. LoopInv'
  BY <1>1, SweepGrows DEF FixpointInv, LoopInv
<1>3. ASSUME ~changed' PROVE LemmasSettled(Swept)'
  <2>1. ~changed /\ determined' = determined /\ nonzero' = nonzero /\ LemmasSettled({opcode})
    BY <1>3, ApplyNothing
  <2>2. LemmasSettled(Swept)
    BY <1>1, <2>1 DEF FixpointInv, SweepInv
  <2>3. Swept' = Swept \cup {opcode}
    BY <1>1, SweepGrows DEF FixpointInv
  <2> QED BY <1>1, <2>1, <2>2, <2>3 DEF LemmasSettled
<1>4. BoundsSettled(Ops(circuit))'
  BY <1>1 DEF FixpointInv, SweepInv, BoundsSettled
<1>5. SweepInv'
  BY <1>1, <1>3, <1>4 DEF SweepInv
<1> QED BY <1>2, <1>5 DEF FixpointInv

-----------------------------------------------------------------------------
(* The case splits. *)

LEMMA NoZerosNoCaseSplit ==
  ASSUME NEW m, NEW o, NEW D
  PROVE  SolveConditionalZero(m, o, D, {}) = {}
BY DEF SolveConditionalZero

LEMMA StepCollect ==
  ASSUME FixpointInv, CollectConditionalZeros
  PROVE  FixpointInv'
<1>1. /\ phase = "lemmas" /\ ~InSweep /\ phase' = "condzero"
      /\ zeros' = If("condzero", ConditionalZeros(circuit, determined))
      /\ pc' = IF zeros' = {} THEN Len(circuit.opcodes) + 1 ELSE 1
      /\ UNCHANGED <<circuit, lemmas, changed, determined, nonzero, bounds, constants>>
  BY DEF CollectConditionalZeros
<1>2. Len(circuit.opcodes) \in Nat
  BY Opcodes DEF FixpointInv
<1>3. LoopInv'
  BY <1>1, <1>2 DEF FixpointInv, LoopInv
<1>4. CaseSplitSettled(Swept)'
  <2>1. CASE zeros' = {}
    BY <1>1, <2>1, NoZerosNoCaseSplit DEF CaseSplitSettled, If
  <2>2. CASE zeros' # {}
    <3>1. Swept' = {}
      BY <1>1, <2>2, SweepBegins DEF FixpointInv
    <3> QED BY <3>1 DEF CaseSplitSettled
  <2> QED BY <2>1, <2>2
<1>5. ASSUME ~changed PROVE LemmasSettled(Ops(circuit))'
  <2>1. LemmasSettled(Ops(circuit))
    BY <1>1, <1>5, SweepEnds DEF FixpointInv, SweepInv
  <2> QED BY <1>1, <2>1 DEF LemmasSettled
<1>6. BoundsSettled(Ops(circuit))'
  BY <1>1 DEF FixpointInv, SweepInv, BoundsSettled
<1>7. (zeros = If("condzero", ConditionalZeros(circuit, determined)))'
  BY <1>1 DEF If
<1>8. SweepInv'
  BY <1>1, <1>4, <1>5, <1>6, <1>7 DEF SweepInv
<1> QED BY <1>3, <1>8 DEF FixpointInv

LEMMA StepCaseSplit ==
  ASSUME FixpointInv, ApplyConditionalZero
  PROVE  FixpointInv'
<1>1. /\ phase = "condzero" /\ InSweep /\ pc' = pc + 1
      /\ determined' = determined \cup SolveConditionalZero(circuit, opcode, determined, zeros)
      /\ changed' = (changed \/ determined' # determined)
      /\ UNCHANGED <<circuit, lemmas, phase, nonzero, bounds, zeros, constants>>
  BY DEF ApplyConditionalZero
<1>2. LoopInv'
  BY <1>1, SweepGrows DEF FixpointInv, LoopInv
<1>3. ASSUME ~changed'
      PROVE  /\ LemmasSettled(Ops(circuit))'
             /\ CaseSplitSettled(Swept)'
             /\ (zeros = If("condzero", ConditionalZeros(circuit, determined)))'
  <2>1. ~changed /\ determined' = determined
    BY <1>1, <1>3
  <2>2. /\ LemmasSettled(Ops(circuit))
        /\ CaseSplitSettled(Swept)
        /\ zeros = If("condzero", ConditionalZeros(circuit, determined))
    BY <1>1, <2>1 DEF FixpointInv, SweepInv
  <2>3. Swept' = Swept \cup {opcode}
    BY <1>1, SweepGrows DEF FixpointInv
  <2>4. SolveConditionalZero(circuit, opcode, determined, zeros) \subseteq determined
    BY <1>1, <2>1
  <2>5. CaseSplitSettled({opcode})
    BY <2>2, <2>4 DEF CaseSplitSettled, If
  <2>6. LemmasSettled(Ops(circuit))'
    BY <1>1, <2>1, <2>2 DEF LemmasSettled
  <2>7. CaseSplitSettled(Swept)'
    BY <1>1, <2>1, <2>2, <2>3, <2>5 DEF CaseSplitSettled
  <2> QED BY <1>1, <2>1, <2>2, <2>6, <2>7 DEF If
<1>4. BoundsSettled(Ops(circuit))'
  BY <1>1 DEF FixpointInv, SweepInv, BoundsSettled
<1>5. SweepInv'
  BY <1>1, <1>3, <1>4 DEF SweepInv
<1> QED BY <1>2, <1>5 DEF FixpointInv

LEMMA StepLemmaEnd ==
  ASSUME FixpointInv, EndLemmaSweep
  PROVE  FixpointInv'
<1>1. /\ phase = "condzero" /\ ~InSweep /\ pc' = 1 /\ ~changed'
      /\ phase' = IF changed THEN "lemmas" ELSE "constants"
      /\ UNCHANGED <<circuit, lemmas, determined, nonzero, bounds, constants>>
  BY DEF EndLemmaSweep, Repeat
<1>2. LoopInv'
  BY <1>1, SweepBegins DEF FixpointInv, LoopInv
<1>3. Swept' = {}
  BY <1>1, SweepBegins DEF FixpointInv
<1>4. LemmasSettled(Swept)' /\ FoldingSettled(Swept)'
  BY <1>3 DEF LemmasSettled, FoldingSettled
<1>5. ASSUME ~changed PROVE LemmasSettled(Ops(circuit))' /\ CaseSplitSettled(Ops(circuit))'
  <2>1. LemmasSettled(Ops(circuit)) /\ CaseSplitSettled(Ops(circuit))
    BY <1>1, <1>5, SweepEnds DEF FixpointInv, SweepInv
  <2> QED BY <1>1, <2>1 DEF LemmasSettled, CaseSplitSettled
<1>6. BoundsSettled(Ops(circuit))'
  BY <1>1 DEF FixpointInv, SweepInv, BoundsSettled
<1>7. SweepInv'
  BY <1>1, <1>4, <1>5, <1>6 DEF SweepInv
<1> QED BY <1>2, <1>7 DEF FixpointInv

-----------------------------------------------------------------------------
(* The constants. *)

LEMMA StepFold ==
  ASSUME FixpointInv, FoldConstants
  PROVE  FixpointInv'
<1> DEFINE folded == FoldConstant(opcode, constants)
<1>1. /\ phase = "constants" /\ InSweep /\ pc' = pc + 1
      /\ constants' = [w \in DOMAIN constants \cup {f[1] : f \in folded} |->
                          IF w \in DOMAIN constants THEN constants[w]
                          ELSE (CHOOSE f \in folded : TRUE)[2]]
      /\ changed' = (changed \/ folded # {})
      /\ UNCHANGED <<circuit, lemmas, phase, determined, nonzero, bounds, zeros>>
  BY DEF FoldConstants
<1> HIDE DEF folded
<1>2. LoopInv'
  <2>1. (constants = [w \in DOMAIN constants |-> constants[w]])'
    BY <1>1
  <2> QED BY <1>1, <2>1, SweepGrows DEF FixpointInv, LoopInv
<1>3. ASSUME ~changed' PROVE FoldingSettled(Swept)'
  <2>1. ~changed /\ folded = {}
    BY <1>1, <1>3
  <2>2. constants' = constants
    BY <1>1, <2>1 DEF FixpointInv, LoopInv
  <2>3. FoldingSettled(Swept)
    BY <1>1, <2>1 DEF FixpointInv, SweepInv
  <2>4. Swept' = Swept \cup {opcode}
    BY <1>1, SweepGrows DEF FixpointInv
  <2> QED BY <2>1, <2>2, <2>3, <2>4 DEF FoldingSettled, folded
<1>4. BoundsSettled(Ops(circuit))' /\ LemmasSettled(Ops(circuit))' /\ CaseSplitSettled(Ops(circuit))'
  BY <1>1 DEF FixpointInv, SweepInv, BoundsSettled, LemmasSettled, CaseSplitSettled
<1>5. SweepInv'
  BY <1>1, <1>3, <1>4 DEF SweepInv
<1> QED BY <1>2, <1>5 DEF FixpointInv

LEMMA StepFoldEnd ==
  ASSUME FixpointInv, EndConstantsSweep
  PROVE  FixpointInv'
<1>1. /\ phase = "constants" /\ ~InSweep /\ pc' = 1 /\ ~changed'
      /\ phase' = IF changed THEN "constants" ELSE "done"
      /\ UNCHANGED <<circuit, lemmas, determined, nonzero, bounds, constants>>
  BY DEF EndConstantsSweep, Repeat
<1>2. LoopInv'
  BY <1>1, SweepBegins DEF FixpointInv, LoopInv
<1>3. FoldingSettled(Swept)'
  BY <1>1, SweepBegins DEF FixpointInv, FoldingSettled
<1>4. ASSUME ~changed PROVE FoldingSettled(Ops(circuit))'
  <2>1. FoldingSettled(Ops(circuit))
    BY <1>1, <1>4, SweepEnds DEF FixpointInv, SweepInv
  <2> QED BY <1>1, <2>1 DEF FoldingSettled
<1>5. BoundsSettled(Ops(circuit))' /\ LemmasSettled(Ops(circuit))' /\ CaseSplitSettled(Ops(circuit))'
  BY <1>1 DEF FixpointInv, SweepInv, BoundsSettled, LemmasSettled, CaseSplitSettled
<1>6. SweepInv'
  BY <1>1, <1>3, <1>4, <1>5 DEF SweepInv
<1> QED BY <1>2, <1>6 DEF FixpointInv

-----------------------------------------------------------------------------
LEMMA NextFixpoint == FixpointInv /\ [Next]_vars => FixpointInv'
<1> SUFFICES ASSUME FixpointInv, [Next]_vars PROVE FixpointInv'
  OBVIOUS
<1>1. CASE PropagateBounds
  BY <1>1, StepBounds
<1>2. CASE EndBoundsSweep
  BY <1>2, StepBoundsEnd
<1>3. CASE Apply
  BY <1>3, StepApply
<1>4. CASE CollectConditionalZeros
  BY <1>4, StepCollect
<1>5. CASE ApplyConditionalZero
  BY <1>5, StepCaseSplit
<1>6. CASE EndLemmaSweep
  BY <1>6, StepLemmaEnd
<1>7. CASE FoldConstants
  BY <1>7, StepFold
<1>8. CASE EndConstantsSweep
  BY <1>8, StepFoldEnd
<1>9. CASE UNCHANGED vars
  <2>1. LoopInv'
    BY <1>9 DEF vars, FixpointInv, LoopInv
  <2>2. Swept' = Swept
    BY <1>9 DEF vars, Swept
  <2>3. SweepInv'
    BY <1>9, <2>2 DEF vars, FixpointInv, SweepInv, BoundsSettled, LemmasSettled, CaseSplitSettled, FoldingSettled, If
  <2> QED BY <2>1, <2>3 DEF FixpointInv
<1> QED BY <1>1, <1>2, <1>3, <1>4, <1>5, <1>6, <1>7, <1>8, <1>9 DEF Next

(* When infer_uniqueness and infer_constant_signals return, no lemma that is
   on, no bound and no constant has anything to add: nothing that depends on
   the order of the opcodes is left (uniqueness.rs:112, 163; known.rs:30).    *)
THEOREM StopsClosed == Spec => []StopsAtFixpoint
<1>1. FixpointInv => StopsAtFixpoint
  <2> SUFFICES ASSUME FixpointInv, phase = "done"
               PROVE  /\ LemmaClosed(circuit, lemmas, determined, nonzero, bounds)
                      /\ \A o \in Ops(circuit) : /\ LearnNonzero(o) \subseteq nonzero
                                                 /\ Tightened(o, bounds) = bounds
                                                 /\ FoldConstant(o, constants) = {}
    BY DEF StopsAtFixpoint
  <2>1. /\ BoundsSettled(Ops(circuit)) /\ LemmasSettled(Ops(circuit))
        /\ CaseSplitSettled(Ops(circuit)) /\ FoldingSettled(Ops(circuit))
    BY DEF FixpointInv, SweepInv
  <2>2. LemmaClosed(circuit, lemmas, determined, nonzero, bounds)
    BY <2>1 DEF LemmaClosed, LemmasSettled, CaseSplitSettled
  <2> QED BY <2>1, <2>2 DEF BoundsSettled, LemmasSettled, FoldingSettled
<1> QED BY <1>1, InitFixpoint, NextFixpoint, PTL DEF Spec
=============================================================================
