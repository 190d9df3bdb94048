------------------------------ MODULE Gadgets ------------------------------
(***************************************************************************)
(* Small circuits for model checking, each the shape of an idiom of        *)
(* compiled Noir or of one way a verdict can come about.  The wires count  *)
(* from 1; coefficients are elements of the field of P = 3, so 2 is -1.    *)
(* known is what propagation determines, or part of it (NOIR_PICUS_LEMMAS  *)
(* can switch its lemmas off).                                             *)
(***************************************************************************)
EXTENDS Acir

Model(wires, inputs, opcodes, consts, known, proved) ==
  [wires |-> wires, inputs |-> inputs, opcodes |-> opcodes, consts |-> consts,
   known |-> known, proved |-> proved]

None == [w \in {} |-> 0]
Const(w, v) == [x \in {w} |-> v]

Next1 == [x \in Field |-> (x + 1) % P]     \* a permutation
Square1 == [x \in Field |-> (x * x + 1) % P]
Identity == {<<<<x>>, <<x>>>> : x \in Field}

(* d = i + 1, (d + 1) * inv = 1, (d + 1) * q = n.  Only d is determined by
   propagation; the relaxed query for q admits d = -1, the exact one does not. *)
Division ==
  Model(1..5, {1, 2},
        << AssertZero(<<>>, <<<<1, 3>>, <<2, 1>>>>, 2), Hint,
           AssertZero(<<<<1, 3, 4>>>>, <<<<1, 4>>>>, 2), Hint,
           AssertZero(<<<<1, 3, 5>>>>, <<<<1, 5>>, <<2, 2>>>>, 0) >>,
        None, {1, 2, 3}, {})

(* The IsZero gadget: u = 1 - i*v, i*u = 0.  u is determined, v is not. *)
IsZero ==
  Model(1..3, {1},
        << Hint, AssertZero(<<<<1, 1, 3>>>>, <<<<1, 2>>>>, 2),
           AssertZero(<<<<1, 1, 2>>>>, <<>>, 0) >>,
        None, {1, 2}, {})

(* x*x = i and y = x + s, with s another input. *)
Root ==
  Model(1..4, {1, 4},
        << Hint, AssertZero(<<<<1, 2, 2>>>>, <<<<2, 1>>>>, 0),
           AssertZero(<<>>, <<<<1, 3>>, <<2, 2>>, <<2, 4>>>>, 0) >>,
        None, {1, 4}, {})

(* Two chained cuts: a = i + 1, b = a*a + a determined one after the other;
   x*x + b*x = a*b leaves x to the solver.                                    *)
Chain ==
  Model(1..4, {1},
        << AssertZero(<<>>, <<<<1, 2>>, <<2, 1>>>>, 2),
           AssertZero(<<<<2, 2, 2>>>>, <<<<1, 3>>, <<2, 2>>>>, 0), Hint,
           AssertZero(<<<<1, 4, 4>>, <<1, 3, 4>>, <<2, 2, 3>>>>, <<>>, 0) >>,
        None, {1, 2, 3}, {})

(* i = hash(x): the value of the hash pins x, the abstraction forgets it. *)
HashPinned ==
  Model(1..2, {1}, << Hint, BlackBox(Next1, 2, 1) >>, None, {1}, {})

(* i = hash(x) with a hash that collides: x really is free. *)
HashCollides ==
  Model(1..3, {1}, << Hint, BlackBox(Square1, 2, 1), AssertZero(<<>>, <<<<1, 3>>, <<2, 2>>>>, 0) >>,
        None, {1}, {})

(* x*x = i with x a bit: the dropped RANGE is what makes x unique. *)
Bit ==
  Model(1..2, {1}, << Hint, AssertZero(<<<<1, 2, 2>>>>, <<<<2, 1>>>>, 0), RANGE(2, 1) >>,
        None, {1}, {})

(* c = 2 is a constant wire; x*x + c*x = i*c + i*i, the pin of c matters. *)
Pin ==
  Model(1..3, {1},
        << AssertZero(<<>>, <<<<1, 2>>>>, 1), Hint,
           AssertZero(<<<<1, 2, 3>>, <<1, 3, 2>>>>, <<<<2, 1>>, <<1, 3>>>>, 0) >>,
        Const(2, 2), {1, 2}, {})

(* r = callee(x) and x*x = i: the call is proved, so it is abstracted. *)
ProvedCall ==
  Model(1..3, {1},
        << Hint, AssertZero(<<<<1, 2, 2>>>>, <<<<2, 1>>>>, 0), Call(7, Identity, <<2>>, <<3>>) >>,
        None, {1}, {7})

(* An untranslated curve opcode on an input: the component of q is cut at the
   inputs and does not see it, the exact slice does.                          *)
CurveBeyondInput ==
  Model(1..4, {1, 2},
        << Curve(Next1, 1, 3), Hint, AssertZero(<<<<1, 1, 4>>>>, <<<<2, 2>>>>, 0) >>,
        None, {1, 2}, {})

(* An opcode without wires that no run satisfies. *)
Contradiction ==
  Model(1..2, {1}, << Hint, AssertZero(<<>>, <<>>, 1), AssertZero(<<<<1, 2, 2>>>>, <<<<2, 1>>>>, 0) >>,
        None, {1}, {})

(* No honest run, for a reason outside the cone of the target 2. *)
DeadElsewhere ==
  Model(1..3, {1},
        << Hint, AssertZero(<<<<1, 2, 2>>>>, <<<<2, 1>>>>, 0),
           AssertZero(<<<<1, 3, 3>>>>, <<>>, 1) >>,
        None, {1}, {})

(* Nothing constrains the hint 2. *)
Vacuous == Model(1..2, {1}, << Hint >>, None, {1}, {})

(* (a - b)^2 = 0, (b - c)^2 = 0, c^2 = 0: unique, wire by wire, but no single
   equation is linear.  A window of radius 1 around a does not reach c^2 = 0,
   so a is provable only once b is determined.                                 *)
Squares ==
  Model(1..3, {},
        << Hint, AssertZero(<<<<1, 1, 1>>, <<1, 1, 2>>, <<1, 2, 2>>>>, <<>>, 0),
           AssertZero(<<<<1, 2, 2>>, <<1, 2, 3>>, <<1, 3, 3>>>>, <<>>, 0),
           AssertZero(<<<<1, 3, 3>>>>, <<>>, 0) >>,
        None, {}, {})

(* A free root next to a unique one. *)
FreeAndUnique ==
  Model(1..3, {1},
        << Hint, AssertZero(<<<<1, 2, 2>>>>, <<<<2, 1>>>>, 0), AssertZero(<<<<1, 3, 3>>>>, <<>>, 0) >>,
        None, {1}, {})
=============================================================================
