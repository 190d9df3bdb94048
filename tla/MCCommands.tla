----------------------------- MODULE MCCommands -----------------------------
(* Small programs with their Brillig code, over a field of five elements. *)
EXTENDS Commands

Lin(terms, q) == AssertZero(<< >>, terms, q)

Circuit(wires, params, hints, returns, arrays, seed, opcodes) ==
  [wires |-> wires, inputs |-> params, hints |-> hints, returns |-> returns, arrays |-> arrays,
   seed |-> seed, opcodes |-> opcodes]

(* directive_invert, which answers 0 for 0, and code that divides. *)
InverseOrZero == [t \in {<<x>> : x \in Field} |->
                    <<IF t[1] = 0 THEN 0 ELSE CHOOSE y \in Field : (t[1] * y) % P = 1>>]
Quotient == [t \in {<<x, y>> : x \in Field, y \in Field \ {0}} |->
               <<CHOOSE q \in Field : (t[2] * q) % P = t[1]>>]
SquareOf == [x \in Field |-> (x * x) % P]
RootOf == [t \in {<<0>>, <<1>>, <<4>>} |-> <<CHOOSE y \in 0..2 : (y * y) % P = t[1]>>]
Half == [t \in {<<x>> : x \in Field} |-> <<t[1] % 2, t[1] \div 2>>]

(* verified_division_hint: 3 is the inverse of the denominator 2, 4 the quotient. *)
Division == Circuit(1..4, {1, 2}, {3, 4}, {4}, << >>, (1 :> 4) @@ (2 :> 2),
  <<Brillig(InverseOrZero, <<2>>, <<3>>), AssertZero(<<<<1, 2, 3>>>>, << >>, -1),
    Brillig(Quotient, <<1, 2>>, <<4>>), AssertZero(<<<<-1, 2, 4>>>>, <<<<1, 1>>>>, 0)>>)

(* 5 is a root and one: ambiguous without any mutation.  4 hashes 1, and
   the public commitment 2 has to equal it.                                   *)
Commitment == Circuit(1..5, {1, 2}, {3}, {5}, << >>, (1 :> 4) @@ (2 :> 1),
  <<BlackBox(SquareOf, 1, 4), Lin(<<<<1, 2>>, <<-1, 4>>>>, 0), Brillig(RootOf, <<2>>, <<3>>),
    AssertZero(<<<<1, 3, 3>>>>, <<<<-1, 2>>>>, 0), Lin(<<<<1, 5>>, <<-1, 3>>>>, -1)>>)
(* Two roots at once, both returned. *)
Roots == Circuit(1..3, {1}, {2, 3}, {2, 3}, << >>, 1 :> 4,
  <<Brillig([t \in DOMAIN RootOf |-> RootOf[t] \o RootOf[t]], <<1>>, <<2, 3>>),
    AssertZero(<<<<1, 2, 2>>>>, <<<<-1, 1>>>>, 0), AssertZero(<<<<1, 3, 3>>>>, <<<<-1, 1>>>>, 0)>>)

(* Each check pins a parameter with what the one before it left. *)
Chain == Circuit(1..5, {1, 2, 3}, {}, {5}, << >>, (1 :> 2) @@ (2 :> 0) @@ (3 :> 1),
  <<BlackBox(SquareOf, 1, 4), Lin(<<<<1, 2>>, <<-1, 4>>>>, -1), Lin(<<<<1, 5>>, <<-1, 2>>>>, -1),
    Lin(<<<<1, 3>>, <<-1, 5>>>>, 0)>>)

(* Each of two checks pins the parameter that the other has just set. *)
Undo == Circuit(1..3, {1, 2}, {}, {3}, << >>, (1 :> 3) @@ (2 :> 3),
  <<Lin(<<<<1, 1>>, <<-1, 2>>>>, 0), Lin(<<<<1, 1>>>>, -3), Lin(<<<<1, 3>>, <<-1, 1>>>>, 0)>>)

(* The array <<3, 4>> holds the hashes of <<1, 2>>, and is compared in products. *)
Digest == Circuit(1..6, {1, 2, 3, 4}, {}, {5}, <<<<1, 2>>, <<3, 4>>>>,
                  (1 :> 2) @@ (2 :> 1) @@ (3 :> 4) @@ (4 :> 1),
  <<BlackBox(SquareOf, 1, 5), BlackBox(SquareOf, 2, 6), RANGE(3, 3), RANGE(4, 3),
    AssertZero(<<<<1, 3, 3>>, <<-1, 3, 5>>>>, << >>, 0), AssertZero(<<<<1, 4, 4>>, <<-1, 4, 6>>>>, << >>, 0)>>)

(* The position of a value in an array, and it may occur twice. *)
Position == Circuit(1..4, {1, 2}, {3}, {3}, <<<<1, 2>>>>, (1 :> 2) @@ (2 :> 1),
  <<MemoryInit(0, <<1, 2>>), Brillig([t \in {<<x>> : x \in Field} |-> <<0>>], <<1>>, <<3>>), RANGE(3, 2),
    MemoryOp("Read", 0, 3, 4), Lin(<<<<1, 4>>, <<-1, 1>>>>, 0)>>)

(* Low and high bit of a number below four. *)
Bits == Circuit(1..3, {1}, {2, 3}, {2}, << >>, 1 :> 3,
  <<Brillig(Half, <<1>>, <<2, 3>>), RANGE(2, 1), RANGE(3, 1), Lin(<<<<1, 1>>, <<-1, 2>>, <<-2, 3>>>>, 0)>>)

(* 3 tells whether 1 is zero. *)
IsZero(v) == Circuit(1..3, {1}, {2}, {3}, << >>, 1 :> v,
  <<Brillig(InverseOrZero, <<1>>, <<2>>),
    AssertZero(<<<<1, 1, 2>>>>, <<<<1, 3>>>>, -1), AssertZero(<<<<1, 1, 3>>>>, << >>, 0)>>)

(* A type of a parameter, and nothing else. *)
Assertion(v) == Circuit(1..2, {1}, {}, {2}, << >>, 1 :> v,
  <<RANGE(1, 1), Lin(<<<<1, 2>>, <<-1, 1>>>>, -1)>>)

(* A root that is ambiguous elsewhere, but not at the seed. *)
RootOfZero == Circuit(1..2, {1}, {2}, {2}, << >>, 1 :> 0,
  <<RANGE(1, 1), Brillig(RootOf, <<1>>, <<2>>), AssertZero(<<<<1, 2, 2>>>>, <<<<-1, 1>>>>, 0)>>)

(* 3 is 1 unless the answer 2 is zero, and then it is left unassigned. *)
Masked == Circuit(1..3, {1}, {2}, {3}, << >>, 1 :> 1,
  <<Brillig([t \in {<<x>> : x \in Field} |-> t], <<1>>, <<2>>), AssertZero(<<<<1, 2, 3>>>>, <<<<-1, 2>>>>, 0)>>)

(* 2 is the reciprocal of a bit: at zero the code of the hint fails, while the
   constraints leave 2 open.                                                  *)
Reciprocal == Circuit(1..3, {1}, {2}, {3}, << >>, 1 :> 1,
  <<RANGE(1, 1), Brillig([t \in {<<x>> : x \in Field \ {0}} |-> InverseOrZero[t]], <<1>>, <<2>>), RANGE(2, 2),
    AssertZero(<<<<1, 1, 2>>>>, <<<<-1, 3>>>>, 0), AssertZero(<<<<1, 1, 3>>>>, <<<<-1, 1>>>>, 0)>>)

(* The black box asserts that the sum of the two halves is small. *)
Small == [BlackBox(SquareOf, 4, 5) EXCEPT !.F = [x \in 0..2 |-> SquareOf[x]]]
Asserting == Circuit(1..5, {1}, {2, 3}, {5}, << >>, 1 :> 2,
  <<Brillig(Half, <<1>>, <<2, 3>>), RANGE(2, 1), Lin(<<<<1, 2>>, <<1, 3>>, <<-1, 4>>>>, 0), Small>>)

MCPrograms == {Commitment, Roots, Chain, Undo, Digest, Position, Division, Masked}
MCOriginals == {Division, Commitment, Position, Bits, IsZero(0), IsZero(2), RootOfZero, Assertion(1), Assertion(2), Chain, Reciprocal, Asserting}

(* Where each check pins one parameter, by an expression or by a link learned
   from the seed, repair turns every input into one that runs: "one parameter,
   linear, everything else known" (concrete.rs:428, 192).                      *)
PinnedInputsRun ==
  program \in {Commitment, Chain} \/ (program = Digest /\ options.seeded) => failures = 0
=============================================================================
