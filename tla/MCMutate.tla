------------------------------ MODULE MCMutate ------------------------------
(* Small circuits for the mutation search, over a field of five elements. *)
EXTENDS Mutate

Lin(terms, q) == AssertZero(<< >>, terms, q)

Program(wires, inputs, hints, returns, opcodes) ==
  [wires |-> wires, inputs |-> inputs, hints |-> hints, returns |-> returns, opcodes |-> opcodes]

(* The cast of mutate.rs:511: 1 = 2 * w2 + w3, and w6 tells whether w3 is 0. *)
Cast == Program(1..6, {1}, {2, 3, 4}, {6},
  <<Hint, RANGE(2, 2), RANGE(3, 2), Lin(<<<<1, 3>>, <<-1, 1>>, <<2, 2>>>>, 0),
    Hint, AssertZero(<<<<1, 3, 4>>>>, <<<<1, 5>>>>, -1), AssertZero(<<<<1, 3, 5>>>>, << >>, 0),
    Lin(<<<<1, 6>>, <<1, 5>>>>, -2)>>)

(* Two choices among hints, of two and of three. *)
TwoChoices == Program(1..7, {1}, {2, 3, 4, 5, 6, 7}, {2},
  <<Hint, Lin(<<<<1, 2>>, <<1, 3>>, <<1, 4>>>>, 0), RANGE(3, 1), RANGE(4, 1),
    Lin(<<<<1, 2>>, <<1, 5>>, <<1, 6>>, <<2, 7>>>>, 0), RANGE(5, 1), RANGE(6, 1), RANGE(7, 1)>>)

(* The write under a hinted index of mutate.rs:604. *)
Memory == Program(1..6, {1}, {2, 3}, {6},
  <<MemoryInit(0, <<1, 4>>), Hint, MemoryOp("Write", 0, 2, 3), MemoryOp("Read", 0, 5, 6),
    Lin(<<<<1, 4>>>>, -1), Lin(<<<<1, 5>>>>, 0)>>)

(* The value written is defined later, the hint is an offset into the block. *)
Offset == Program(1..5, {1}, {2}, {5},
  <<MemoryInit(0, <<1, 1>>), Hint, RANGE(2, 2), Lin(<<<<1, 3>>, <<-1, 2>>>>, 0),
    MemoryOp("Write", 0, 3, 4), MemoryOp("Read", 0, 3, 5), Lin(<<<<1, 4>>, <<-1, 2>>>>, -1)>>)

(* Definitions out of order, and a hint that two expressions pull apart. *)
Reversed == Program(1..5, {1}, {5}, {2},
  <<Hint, Lin(<<<<1, 2>>, <<-1, 3>>>>, 0), Lin(<<<<1, 3>>, <<-1, 4>>>>, 0),
    Lin(<<<<1, 4>>, <<-1, 5>>>>, 0), Lin(<<<<1, 5>>, <<-1, 1>>>>, 0)>>)

Square == [x \in Field |-> (x * x) % P]

Hashes == Program(1..5, {1}, {2}, {4},
  <<Hint, BlackBox(Square, 2, 3), Lin(<<<<1, 3>>, <<-1, 1>>>>, 0), Curve(Square, 2, 4),
    BitwiseOp([x, y \in Field |-> (x % 2) * (y % 2)], 1, 1, 4, 5)>>)

(* The proof is a hint; another hint is returned. *)
Proof == Program(1..4, {1}, {2, 3}, {3},
  <<Hint, Recursion({1, 2}, 2), Lin(<<<<1, 4>>, <<-1, 2>>>>, 0)>>)

Programs == {Cast, TwoChoices, Memory, Offset, Reversed, Hashes, Proof}
Searches == [hintsOnly : BOOLEAN, skipInputs : {FALSE}, deadline : {FALSE}]
              \cup {[hintsOnly |-> TRUE, skipInputs |-> TRUE, deadline |-> TRUE]}

(* "the cast forgery is reachable" (mutate.rs:591): whatever the input and the
   honest hints, if the cast has a second return value, the search finds one.
   It takes the wrapped quotient, the hints left open, and several walks.      *)
CastForgeryFound ==
  circuit = Cast /\ phase = "done" /\ ~options.deadline /\ Forgeable => report.findings # << >>
=============================================================================
