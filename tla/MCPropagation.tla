--------------------------- MODULE MCPropagation ---------------------------
(***************************************************************************)
(* Propagation over families of circuits in the field of P = 7: every      *)
(* coefficient that can move a lemma across one of its side conditions.    *)
(***************************************************************************)
EXTENDS Propagation

Given(wires, inputs, opcodes) ==
  [wires |-> wires, inputs |-> inputs, opcodes |-> opcodes, consts |-> << >>,
   known |-> inputs, proved |-> {}]

Neg(c) == (P - c) % P
Orders(s) == {s, [i \in DOMAIN s |-> s[Len(s) + 1 - i]]}

(* e = c*q + u*r with q and r in range: from an exact division to one that
   wraps around (c*Qmax + Rmax >= P) or whose remainder can reach c.       *)
Divisions ==
  {Given(1..3, {1}, << AssertZero(<<>>, <<<<1, 1>>, <<c, 2>>, <<u, 3>>>>, 0), RANGE(2, bq), RANGE(3, br) >>) :
     c \in 1..6, u \in {1, 2, 6}, bq \in 1..2, br \in 1..2}

(* The quotient of a cast: its bound comes from slack = k - q, so from another
   constraint, before or after the division that needs it.                    *)
Casts ==
  {Given(1..4, {1}, ops) : ops \in UNION {Orders(
     << AssertZero(<<>>, <<<<1, 1>>, <<Neg(c), 2>>, <<6, 3>>>>, 0), RANGE(2, 2), RANGE(3, 1), RANGE(4, 2),
        AssertZero(<<>>, <<<<1, 4>>, <<s, 2>>>>, Neg(k)) >>) : c \in 2..3, k \in {1, 3, 4}, s \in {1, 6}}}

(* x = 2y + k and y = 2z + j: a bound that has to travel, maybe twice. *)
Chains ==
  {Given(1..3, {}, ops) : ops \in UNION {Orders(
     << RANGE(1, b), RANGE(2, b), RANGE(3, 2),
        AssertZero(<<>>, <<<<1, 1>>, <<5, 2>>>>, k), AssertZero(<<>>, <<<<1, 2>>, <<5, 3>>>>, j) >>) :
     k \in Field, j \in {0, 6}, b \in 1..2}}

(* (a*i + k) * u = 0 and e*u + (b*i + d)*v + g*i*u = q, IsZero among them. *)
CaseSplits ==
  {Given(1..3, {1}, ops) : ops \in UNION {Orders(
     << AssertZero(<<<<a, 1, 2>>>>, <<<<k, 2>>>>, 0),
        AssertZero(<<<<b, 1, 3>>, <<g, 1, 2>>>>, <<<<e, 2>>, <<d, 3>>>>, 6) >>) :
     a \in {0, 2}, k \in {0, 1}, b \in {0, 3}, d \in {0, 5}, e \in {0, 3}, g \in {0, 1}}}

(* d * inv = q, then d*x = n with or without another term in x. *)
Inverses ==
  {Given(1..4, {1, 2}, ops) : ops \in UNION {Orders(
     << AssertZero(<<<<1, 1, 3>>>>, <<>>, q), AssertZero(<<<<2, 1, 4>>>>, <<<<6, 2>>, <<t, 4>>>>, 0) >>) :
     q \in {0, 6}, t \in {0, 1}}}

(* A wire that is a constant, with its coefficient in two pieces, and a wire
   that follows from its value.                                             *)
Constants ==
  {Given(1..3, {}, ops) : ops \in UNION {Orders(
     << AssertZero(<<>>, <<<<3, 1>>, <<k, 1>>>>, 2), AssertZero(<<<<1, 1, 1>>>>, <<<<2, 2>>, <<k, 3>>>>, 5) >>) :
     k \in Field}}

(* A hash of a hash of a quotient, or of a bit operation, and curve points that are not functions. *)
XorTable == [x, y \in Field |-> (x + y) % 2]
Hash == [x \in Field |-> (x * x + 1) % P]
Hashes ==
  {Given(1..4, {1}, ops) : ops \in UNION {Orders(
     << Hint, AssertZero(<<>>, <<<<1, 1>>, <<5, 2>>>>, 3), middle, BlackBox(Hash, 3, 4) >>) :
     middle \in {BlackBox(Hash, 2, 3), Curve(Hash, 2, 3), BitwiseOp(XorTable, 1, 1, 2, 3)}}}

(* e*e = 2q + r where another constraint determines q as well. *)
Repeated(lin) ==
  {Given(1..3, {1}, ops) : ops \in Orders(
     << AssertZero(<<<<1, 1, 1>>>>, lin, 0), RANGE(2, 1), RANGE(3, 1), AssertZero(<<>>, <<<<1, 1>>, <<6, 2>>>>, 0) >>)}

MCModels == Repeated(<<<<5, 2>>, <<6, 3>>>>) \cup Divisions \cup Casts \cup Chains \cup CaseSplits \cup Inverses \cup Constants \cup Hashes

MCLemmaSets == {Lemmas} \cup {Lemmas \ {l} : l \in Lemmas}
=============================================================================
