----------------------------- MODULE Encodings -----------------------------
(***************************************************************************)
(* What src/src/translate makes of one ACIR opcode: constraints over the    *)
(* opcode's wires and wires of its own (range.rs, bitwise.rs, memory.rs,   *)
(* expr.rs, ir.rs).  A constraint says that the sum of its products is the *)
(* sum of its linear terms; a term <<c, u, v>> stands for c*u*v, <<c, w>>  *)
(* for c*w.  Wire 0 is the constant one.                                   *)
(***************************************************************************)
EXTENDS AcirCheck, Bitwise

(* FunctionInput: a wire, or a constant of the program. *)
Wire(w) == [constant |-> FALSE, at |-> w]
Literal(v) == [constant |-> TRUE, at |-> v]
InputWires(x) == IF x.constant THEN {} ELSE {x.at}
Resolve(x, a) == IF x.constant THEN x.at ELSE a[x.at]

RangeOp(input, bits) ==
  Opcode("RANGE", "exact", InputWires(input), {}, {}, 0, TRUE,
         {a \in [InputWires(input) -> Field] : Resolve(input, a) < 2^bits})
    @@ [input |-> input, bits |-> bits]

(* op is "AND" or "XOR". *)
LogicOp(op, bits, lhs, rhs, out) ==
  LET wires == InputWires(lhs) \cup InputWires(rhs) \cup {out}
      combined(x, y) == IF op = "AND" THEN x & y ELSE x ^^ y
  IN  Opcode(op, "exact", wires, {}, {}, 0, TRUE,
             {a \in [wires -> Field] :
                /\ Resolve(lhs, a) < 2^bits /\ Resolve(rhs, a) < 2^bits
                /\ a[out] = combined(Resolve(lhs, a), Resolve(rhs, a))})
        @@ [bits |-> bits, lhs |-> lhs, rhs |-> rhs, out |-> Wire(out)]

-----------------------------------------------------------------------------
(* Constraints. *)

Linear(lin) == [products |-> << >>, linear |-> lin]
NonLinear(products, lin) == [products |-> products, linear |-> lin]

Neg(c) == (P - (c % P)) % P

Satisfies(a, c) ==
  LET product(t) == t[1] * a[t[2]] * a[t[3]]
      term(t) == t[1] * a[t[2]]
      Total(f(_), s) == MapThenSumSet(LAMBDA i : f(s[i]), DOMAIN s)
  IN  (Total(product, c.products) - Total(term, c.linear)) % P = 0

ConstraintWires(c) == ExpressionWires(c.products, c.linear)

Boolean(w) == NonLinear(<<<<1, w, w>>>>, <<<<1, w>>>>)

NonZero(terms) == SelectSeq(terms, LAMBDA t : t[1] % P # 0)
Negated(terms) == [i \in DOMAIN terms |-> <<Neg(terms[i][1]), terms[i][2]>>]

(* expression_to_ir: an expression with no term left is no constraint. *)
ExpressionConstraints(o) ==
  LET products == NonZero(o.mul)
      linear == NonZero(Append(o.lin, <<o.q, 0>>))
  IN  IF products = << >> /\ linear = << >> THEN << >> ELSE <<NonLinear(products, Negated(linear))>>

-----------------------------------------------------------------------------
(* RANGE.  fresh is the sequence of wires allocated for the input: one for each
   bit, or none when the constraint needs none.                                *)

FitsInBits(v, bits) == bits >= FieldBits \/ v < 2^bits
Translatable(x, bits) == x.constant => FitsInBits(x.at, bits)
BitsNeeded(x, bits) == IF x.constant \/ bits <= 1 \/ bits >= FieldBits THEN 0 ELSE bits

FreshWires(next, count) == [i \in 1..count |-> next + i - 1]

(* Mutant: the last bit is left without its boolean constraint. *)
RangeConstraintsLoose(x, bits, fresh) ==
  IF x.constant \/ bits >= FieldBits THEN << >>
  ELSE IF bits = 0 THEN <<Linear(<<<<1, x.at>>>>)>>
  ELSE IF bits = 1 THEN <<Boolean(x.at)>>
  ELSE [i \in 1..bits-1 |-> Boolean(fresh[i])]
         \o <<Linear(<<<<1, x.at>>>> \o [i \in DOMAIN fresh |-> <<Neg(2^(i-1)), fresh[i]>>])>>

RangeConstraints(x, bits, fresh) ==
  IF x.constant \/ bits >= FieldBits THEN << >>
  ELSE IF bits = 0 THEN <<Linear(<<<<1, x.at>>>>)>>
  ELSE IF bits = 1 THEN <<Boolean(x.at)>>
  ELSE [i \in DOMAIN fresh |-> Boolean(fresh[i])]
         \o <<Linear(<<<<1, x.at>>>> \o [i \in DOMAIN fresh |-> <<Neg(2^(i-1)), fresh[i]>>])>>

-----------------------------------------------------------------------------
(* AND and XOR, bit by bit.  A bit is a constant or a wire (FunctionInput
   serves for both).                                                          *)

BitRefs(x, bits, fresh) ==
  [i \in 1..bits |->
     IF x.constant THEN Literal((x.at \div 2^(i-1)) % 2) ELSE IF bits = 1 THEN x ELSE Wire(fresh[i])]

(* A constant bit multiplies the constant one. *)
BitTerm(c, b) == IF b.constant THEN <<(c * b.at) % P, 0>> ELSE <<c % P, b.at>>
BitSum(terms) == Linear(NonZero([i \in DOMAIN terms |-> BitTerm(terms[i][1], terms[i][2])]))
Same(x, y) == BitSum(<< <<1, x>>, <<Neg(1), y>> >>)

AndBit(l, r, out) ==
  IF l = Literal(0) \/ r = Literal(0) THEN BitSum(<< <<1, out>> >>)
  ELSE IF l.constant THEN Same(out, r)
  ELSE IF r.constant THEN Same(out, l)
  ELSE NonLinear(<<<<1, l.at, r.at>>>>, <<<<1, out.at>>>>)

XorBit(l, r, out) ==
  IF l = Literal(0) THEN Same(out, r)
  ELSE IF r = Literal(0) THEN Same(out, l)
  ELSE IF l.constant THEN BitSum(<< <<1, out>>, <<1, r>>, <<Neg(1), Literal(1)>> >>)
  ELSE IF r.constant THEN BitSum(<< <<1, out>>, <<1, l>>, <<Neg(1), Literal(1)>> >>)
  ELSE NonLinear(<<<<2, l.at, r.at>>>>, <<<<1, l.at>>, <<1, r.at>>, <<Neg(1), out.at>>>>)

(* The three operands are ranged, then related bit by bit.  Their bits are
   allocated one operand after the other.                                  *)
LogicConstraints(o, next) ==
  LET operands == <<o.lhs, o.rhs, o.out>>
      need(k) == BitsNeeded(operands[k], o.bits)
      first(k) == next + MapThenSumSet(need, 1..k-1)
      fresh == [k \in 1..3 |-> FreshWires(first(k), need(k))]
      ranged(k) == RangeConstraints(operands[k], o.bits, fresh[k])
      bit(k, i) == BitRefs(operands[k], o.bits, fresh[k])[i]
  IN  ranged(1) \o ranged(2) \o ranged(3)
        \o [i \in 1..o.bits |-> IF o.type = "AND" THEN AndBit(bit(1, i), bit(2, i), bit(3, i))
                                ELSE XorBit(bit(1, i), bit(2, i), bit(3, i))]

LogicWiresNeeded(o) ==
  BitsNeeded(o.lhs, o.bits) + BitsNeeded(o.rhs, o.bits) + BitsNeeded(o.out, o.bits)

-----------------------------------------------------------------------------
(* MemoryOp: the cell is selected by one-hot selectors tied to the index. *)

(* Mutant: the selectors start counting at one. *)
SelectorConstraintsFromOne(index, selectors) ==
  [i \in DOMAIN selectors |-> Boolean(selectors[i])]
    \o <<Linear([i \in DOMAIN selectors |-> <<1, selectors[i]>>] \o <<<<Neg(1), 0>>>>),
         Linear(NonZero(<<<<1, index>>>> \o [i \in DOMAIN selectors |-> <<Neg(i), selectors[i]>>]))>>

SelectorConstraints(index, selectors) ==
  [i \in DOMAIN selectors |-> Boolean(selectors[i])]
    \o <<Linear([i \in DOMAIN selectors |-> <<1, selectors[i]>>] \o <<<<Neg(1), 0>>>>),
         Linear(NonZero(<<<<1, index>>>> \o [i \in DOMAIN selectors |-> <<Neg(i - 1), selectors[i]>>]))>>

ReadConstraint(value, cells, selectors) ==
  NonLinear([i \in DOMAIN cells |-> <<1, cells[i], selectors[i]>>], <<<<1, value>>>>)

(* new - old = selector * (value - old) *)
WriteConstraint(old, new, value, selector) ==
  NonLinear(<<<<1, selector, value>>, <<Neg(1), selector, old>>>>, <<<<1, new>>, <<Neg(1), old>>>>)

AccessConstraints(o, cells, selectors, new) ==
  SelectorConstraints(o.index, selectors)
    \o (IF o.type = "Read" THEN <<ReadConstraint(o.value, cells, selectors)>>
        ELSE [i \in DOMAIN cells |-> WriteConstraint(cells[i], new[i], o.value, selectors[i])])
=============================================================================
