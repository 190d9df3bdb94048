---------------------------- MODULE CallGadgets ----------------------------
(***************************************************************************)
(* Small programs whose circuits call each other.  P = 3.                  *)
(***************************************************************************)
EXTENDS Circuit, Acir

Function(wires, inputs, opcodes, known, returns, targets) ==
  [wires |-> wires, inputs |-> inputs, opcodes |-> opcodes, consts |-> << >>, known |-> known,
   proved |-> {}, returns |-> returns, targets |-> targets]

(* What a call to circuit c, the i-th of its program, relates. *)
Callee(c, i, params, returns, ins, outs) ==
  Call(i, {<<[k \in DOMAIN params |-> a[params[k]]], [k \in DOMAIN returns |-> a[returns[k]]]>> :
             a \in Solutions(c)}, ins, outs)

(* Callees: r = p + 1; r*r = p; both together; (r - p)^2 = 0. *)
Linear == Function(1..2, {1}, << AssertZero(<<>>, <<<<1, 1>>, <<2, 2>>>>, 1) >>, {1, 2}, {2}, <<2>>)
Root == Function(1..2, {1}, << Hint, AssertZero(<<<<1, 2, 2>>>>, <<<<2, 1>>>>, 0) >>, {1}, {2}, <<2>>)
Both ==
  Function(1..3, {1},
          << AssertZero(<<>>, <<<<1, 1>>, <<2, 2>>>>, 1), Hint, AssertZero(<<<<1, 3, 3>>>>, <<<<2, 1>>>>, 0) >>,
          {1, 2}, {2, 3}, <<2, 3>>)
Square ==
  Function(1..2, {1}, << Hint, AssertZero(<<<<1, 2, 2>>, <<1, 1, 2>>, <<1, 1, 1>>>>, <<>>, 0) >>,
          {1}, {2}, <<1, 2>>)

(* A caller that returns what the callee c, circuit i, returns for its own
   input, and one more wire that depends on it: x*x = r.                    *)
Caller(c, i) ==
  Function(1..3, {1},
          << Callee(c, i, <<1>>, <<2>>, <<1>>, <<2>>), Hint, AssertZero(<<<<1, 3, 3>>>>, <<<<2, 2>>>>, 0) >>,
          {1}, {2}, <<2, 3>>)
BothCaller ==
  Function(1..4, {1},
          << Callee(Both, 2, <<1>>, <<2, 3>>, <<1>>, <<2, 3>>),
             AssertZero(<<>>, <<<<1, 2>>, <<1, 3>>, <<2, 4>>>>, 0) >>,
          {1}, {4}, <<3, 4>>)
=============================================================================
