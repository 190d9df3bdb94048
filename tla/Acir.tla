-------------------------------- MODULE Acir --------------------------------
(***************************************************************************)
(* ACIR opcodes over a small prime field, as check_opcode of               *)
(* src/src/dynamic/certify.rs evaluates them.  Each constructor returns an *)
(* opcode record of module Circuit with the ACIR type, the fields that     *)
(* propagation reads, and `accepts`: the assignments of the opcode's own   *)
(* wires that satisfy it.  `rejected` are those of them that the ACVM, when *)
(* a certificate runs it on the opcode, refuses to evaluate.               *)
(***************************************************************************)
EXTENDS Integers, Sequences, TLC

CONSTANTS
  P,             \* the field modulus, a prime
  FieldBits,     \* FieldElement::max_num_bits()
  MaxRangeBits   \* ModelOptions.max_range_bits

Field == 0..P-1

AcirHolds(o, a) == [w \in o.wires |-> a[w]] \in o.accepts

Opcode(type, kind, wires, ins, outs, callee, evaluable, accepts) ==
  [type |-> type, kind |-> kind, wires |-> wires, ins |-> ins, outs |-> outs, callee |-> callee,
   evaluable |-> evaluable, accepts |-> accepts, rejected |-> {}]

(* A term <<c, u, v>> of mul stands for c*u*v, <<c, w>> of lin for c*w. *)
ExpressionWires(mul, lin) ==
  (UNION {{mul[i][2], mul[i][3]} : i \in DOMAIN mul}) \cup {lin[i][2] : i \in DOMAIN lin}

(* The sum of a sequence. *)
SumSeq(s) == LET F[i \in 0..Len(s)] == IF i = 0 THEN 0 ELSE F[i-1] + s[i] IN F[Len(s)]

Evaluate(mul, lin, q, a) ==
  (q + SumSeq([i \in DOMAIN mul |-> mul[i][1] * a[mul[i][2]] * a[mul[i][3]]])
     + SumSeq([i \in DOMAIN lin |-> lin[i][1] * a[lin[i][2]]])) % P

AssertZero(mul, lin, q) ==
  LET W == ExpressionWires(mul, lin)
  IN  Opcode("AssertZero", "exact", W, {}, {}, 0, TRUE,
             {a \in [W -> Field] : Evaluate(mul, lin, q, a) = 0})
        @@ [mul |-> mul, lin |-> lin, q |-> q]

RANGE(w, bits) ==
  Opcode("RANGE", IF bits > MaxRangeBits /\ bits < FieldBits THEN "dropped" ELSE "exact",
         {w}, {}, {}, 0, TRUE, {a \in [{w} -> Field] : a[w] < 2^bits})
    @@ [bits |-> bits]

(* A black box on the functional allow-list: out = F[in]. *)
BlackBox(F, in, out) ==
  Opcode("BlackBox", "functional", {in, out}, {in}, {out}, 0, TRUE,
         {a \in [{in, out} -> Field] : a[out] = F[a[in]]})
    @@ [F |-> F, in |-> in, out |-> out]

(* AND and XOR: out = combine of two operands of so many bits. *)
BitwiseOp(combine, bits, lhs, rhs, out) ==
  Opcode("Bitwise", "exact", {lhs, rhs, out}, {lhs, rhs}, {out}, 0, TRUE,
         {a \in [{lhs, rhs, out} -> Field] :
            a[lhs] < 2^bits /\ a[rhs] < 2^bits /\ a[out] = combine[a[lhs], a[rhs]]})
    @@ [bits |-> bits, lhs |-> lhs, rhs |-> rhs, out |-> out, combine |-> combine]

(* A curve opcode: its precondition (here in # 0) is assumed, not enforced, and
   its evaluation fails where it does not hold.                               *)
Curve(F, in, out) ==
  [Opcode("Curve", "unsupported", {in, out}, {in}, {out}, 0, TRUE,
          {a \in [{in, out} -> Field] : a[in] # 0 => a[out] = F[a[in]]})
     EXCEPT !.rejected = {a \in [{in, out} -> Field] : a[in] = 0}]
    @@ [F |-> [x \in Field \ {0} |-> F[x]], in |-> in, out |-> out]

(* A call to another circuit whose parameters and returns are pairs of Rel. *)
Call(callee, Rel, ins, outs) ==
  LET at(a, s) == [i \in DOMAIN s |-> a[s[i]]]
      I == {ins[i] : i \in DOMAIN ins}
      O == {outs[i] : i \in DOMAIN outs}
  IN  Opcode("Call", "call", I \cup O, I, O, callee, FALSE,
             {a \in [I \cup O -> Field] : <<at(a, ins), at(a, outs)>> \in Rel})

(* BrilligCall: opcode_wires is empty, nothing is constrained. *)
Hint == Opcode("BrilligCall", "hint", {}, {}, {}, 0, TRUE, {<<>>})
=============================================================================
