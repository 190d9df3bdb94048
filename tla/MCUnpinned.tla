----------------------------- MODULE MCUnpinned -----------------------------
(* Families of small circuits over a field of eleven elements, in which 0..3
   and -3..-1 are small.                                                      *)
EXTENDS Unpinned

Circ(wires, inputs, hints, returns, opcodes) ==
  [wires |-> wires, inputs |-> inputs, hints |-> hints, returns |-> returns, opcodes |-> opcodes]

Lin(terms, q) == AssertZero(<< >>, terms, q)
Either(ops) == {ops, Reverse(ops)}

(* x = u*r + c*q with q and r in range: from a division to one that wraps. *)
Divisions ==
  {Circ(1..3, {1}, {2, 3}, returns, <<RANGE(2, bq), RANGE(3, br), Lin(<<<<10, 1>>, <<c, 2>>, <<u, 3>>>>, 0)>>) :
     c \in {2, 3, 4, 8}, u \in {1, 2, 10}, bq \in 1..2, br \in 1..2, returns \in {{2}, {}}}

(* x = 3q + r where r + 1 is in range, and maybe r itself. *)
Remainders ==
  {Circ(1..4, {1}, {2, 3}, {3}, ops) : ops \in UNION {Either(
     <<RANGE(2, 1), Lin(<<<<10, 1>>, <<3, 2>>, <<1, 3>>>>, 0), Lin(<<<<1, 3>>, <<10, 4>>>>, k), RANGE(4, b)>> \o own) :
       k \in {1, 2, 9}, b \in 1..2, own \in {<< >>, <<RANGE(3, 2)>>}}}

(* x = 3q + r where q + s = k with s in range. *)
Canonical ==
  {Circ(1..4, {1}, {2, 3, 4}, {3}, ops) : ops \in UNION {Either(
     <<RANGE(3, 1), RANGE(2, 2), RANGE(4, 2), Lin(<<<<10, 1>>, <<3, 2>>, <<2, 3>>>>, 0), Lin(<<<<1, 2>>, <<1, 4>>>>, 11 - k)>>) :
       k \in 1..4}}

(* n = q*d with d = c*x*x + k. *)
Quotients ==
  {Circ(1..4, {1, 2}, {3}, {3}, ops) : ops \in UNION {Either(
     <<RANGE(2, b), AssertZero(<<<<c, 2, 2>>>>, <<<<10, 4>>>>, k), AssertZero(<<<<1, 3, 4>>>>, <<<<10, 1>>>>, 0)>>) :
       b \in 1..2, c \in {1, 10}, k \in 0..2}}

(* q*d - q*e = 0 with d = x + 1 and e = k*x + 1. *)
Differences ==
  {Circ(1..4, {1}, {3}, {3},
     <<RANGE(1, 1), Lin(<<<<1, 1>>, <<10, 2>>>>, 1), Lin(<<<<k, 1>>, <<10, 4>>>>, 1),
       AssertZero(<<<<1, 3, 2>>, <<10, 3, 4>>>>, << >>, 0)>>) : k \in 1..2}

(* y*flag = 0 and y*inverse + flag = 1, and what the inverse leads to. *)
IsZeros ==
  {Circ(1..4, {1}, {2, 3}, returns,
     <<AssertZero(<<<<1, 1, 2>>>>, <<<<10 * y, 2>>>>, 0), AssertZero(<<<<1, 1, 3>>>>, <<<<10 * y, 3>>, <<1, 2>>>>, 10),
       Lin(<<<<1, last>>, <<10, 4>>>>, 0)>>) : y \in 0..1, last \in {2, 3}, returns \in {{4}, {}}}

(* A block of an input, or of a hint that is pinned or not, and a read of it. *)
Reads ==
  {Circ(1..4, inputs, {2}, {4}, <<MemoryInit(0, <<1, 2>>), MemoryOp("Read", 0, 3, 4)>> \o last) :
     inputs \in {{1, 3}, {1, 2, 3}, {1}}, last \in {<< >>, <<RANGE(2, 1)>>, <<Lin(<<<<1, 2>>, <<10, 1>>>>, 1)>>}}

(* A hint is written over an input, and read: it is free. *)
Writes ==
  {Circ(1..4, {1, 2}, {3}, {4},
     <<MemoryInit(0, <<1, 1>>), MemoryOp("Write", 0, 2, 3), MemoryOp("Read", 0, 2, 4), Lin(<<<<1, 1>>, <<1, 2>>>>, 10)>>)}

(* A block that is set up a second time. *)
Renewed ==
  {Circ(1..4, {1, 2}, {3}, {4},
     <<MemoryInit(0, <<3>>), MemoryOp("Read", 0, 2, 4), MemoryInit(0, <<1>>), Lin(<<<<1, 1>>>>, 10)>>)}

(* A hint that only a bit operation, a hash, a predicate or a product mentions. *)
XorTable == [x, y \in Field |-> (x + y) % 2]
Square == [x \in Field |-> (x * x + 1) % P]
Mentioned(last) == Circ(1..3, {1, 3}, {2}, {2}, <<Lin(<<<<1, 1>>>>, 10), last>>)
Masked ==
  {Mentioned(BitwiseOp(XorTable, 1, 1, 2, 3)),
   Circ(1..4, {1, 2}, {4}, {4}, <<BitwiseOp(XorTable, 1, 1, 2, 3), Lin(<<<<1, 3>>, <<10, 4>>>>, 0)>>)}
Lone ==
  {Mentioned(o) : o \in {Hint, RANGE(2, 1), RANGE(2, 2), BlackBox(Square, 2, 3),
     AssertZero(<<<<1, 3, 2>>, <<10, 3, 1>>>>, << >>, 0),
     AssertZero(<<<<1, 2, 3>>, <<10, 1, 3>>>>, <<<<10, 2>>, <<1, 1>>>>, 0),
     AssertZero(<<<<1, 1, 2>>, <<1, 3, 2>>>>, << >>, 10), MemoryInit(0, <<2>>)}}

(* A hint that the value read from its block pins. *)
Stored == {Circ(1..3, {1, 3}, {2}, {2}, <<Lin(<<<<1, 1>>>>, 0), MemoryInit(0, <<2>>), MemoryOp("Read", 0, 1, 3)>>)}

(* A free pair, with a bit or without, which the return shows or not; and a
   circuit without assertions.                                             *)
Pairs ==
  {Circ(1..3, {}, {1, 2}, returns, <<RANGE(2, b), Lin(<<<<1, 1>>, <<c, 2>>, <<1, 3>>>>, 0), Lin(<<<<1, 1>>, <<10, 3>>>>, 0)>>) :
     b \in 1..2, c \in {1, 5}, returns \in {{3}, {}}}
Unconstrained == {Circ(1..2, {1}, {2}, {2}, <<Hint, RANGE(2, 1)>>)}

(* z = 2y, y = 2x: bounds that are derived from derived ones. *)
Chains ==
  {Circ(1..4, {4}, {1, 2, 3}, {3}, ops) : ops \in UNION {Either(
     <<RANGE(1, 1), Lin(<<<<2, 1>>, <<10, 2>>>>, 0), Lin(<<<<2, 2>>, <<10, 3>>>>, k), Lin(<<<<10, 4>>, <<1, 3>>, <<c, 1>>>>, 0)>>) :
       k \in 0..1, c \in {0, 3}}}

MCCircuits ==
  Divisions \cup Remainders \cup Canonical \cup Quotients \cup Differences \cup IsZeros \cup Reads \cup Writes
    \cup Renewed \cup Masked \cup Lone \cup Stored \cup Pairs \cup Unconstrained \cup Chains
=============================================================================
