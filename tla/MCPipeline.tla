----------------------------- MODULE MCPipeline -----------------------------
(* Small circuits with memory, bit operations and ranges, over a field of five
   elements.                                                                  *)
EXTENDS Pipeline

Lin(terms, q) == AssertZero(<< >>, terms, q)
None == [w \in {} |-> 0]

Program(wires, inputs, consts, maxRangeBits, opcodes) ==
  [wires |-> wires, inputs |-> inputs, consts |-> consts, known |-> DOMAIN consts,
   maxRangeBits |-> maxRangeBits, opcodes |-> opcodes]

(* The index of a read is a hint, the block holds an input and a hint. *)
Lookup == Program(1..4, {1}, None, 2,
  <<MemoryInit(0, <<1, 2>>), Hint, MemoryOp("Read", 0, 3, 4), Lin(<<<<1, 2>>, <<-1, 1>>>>, -1)>>)

(* Two writes, the second under a hinted index, and a read of the first cell. *)
Overwrite == Program(1..5, {1}, 5 :> 0, 2,
  <<Lin(<<<<1, 5>>>>, 0), MemoryInit(0, <<1, 1>>), Hint, MemoryOp("Write", 0, 5, 2),
    MemoryOp("Write", 0, 3, 1), MemoryOp("Read", 0, 5, 4)>>)

(* A block set up anew between two reads of it. *)
Twice == Program(1..5, {1, 2}, None, 2,
  <<MemoryInit(0, <<1, 2>>), Hint, MemoryOp("Write", 0, 3, 3), MemoryInit(0, <<2, 3, 1>>),
    MemoryOp("Read", 0, 4, 5)>>)

(* A constant is written at a constant index; the read is under a hinted one. *)
ConstantWrite == Program(1..5, {1}, (2 :> 0) @@ (3 :> 2), 2,
  <<Lin(<<<<1, 2>>>>, 0), Lin(<<<<1, 3>>>>, -2), MemoryInit(0, <<1, 1>>),
    MemoryOp("Write", 0, 2, 3), Hint, MemoryOp("Read", 0, 4, 5)>>)

(* A table of constants, read under a hinted index. *)
ConstantTable == Program(1..4, {}, (1 :> 3) @@ (2 :> 1), 2,
  <<Lin(<<<<1, 1>>>>, -3), Lin(<<<<1, 2>>>>, -1), MemoryInit(0, <<1, 2>>), Hint,
    MemoryOp("Read", 0, 3, 4)>>)

(* A block of constants that a hinted write changes, read at a constant index. *)
ConstantBlock == Program(1..5, {1}, (2 :> 0) @@ (3 :> 1), 2,
  <<Lin(<<<<1, 2>>>>, 0), Lin(<<<<1, 3>>>>, -1), MemoryInit(0, <<2, 3>>), Hint,
    MemoryOp("Write", 0, 4, 1), MemoryOp("Read", 0, 3, 5)>>)

(* The block that is read was never set up. *)
NoBlock == Program(1..4, {1}, None, 2,
  <<MemoryInit(0, <<1>>), Hint, MemoryOp("Read", 7, 2, 3), Lin(<<<<1, 4>>, <<-1, 1>>>>, 0)>>)

(* A hint combined with an input, or with a constant, and its low bit. *)
Masks == {Program(1..3, {1}, None, 2, <<Hint, LogicOp(op, 2, lhs, Wire(2), 3)>>) :
            op \in {"AND", "XOR"}, lhs \in {Wire(1), Literal(2), Literal(1)}}
Flags == {Program(1..3, {1}, None, 2, <<Hint, LogicOp(op, 1, Wire(2), rhs, 3), Lin(<<<<1, 3>>, <<-1, 1>>>>, 0)>>) :
            op \in {"AND", "XOR"}, rhs \in {Wire(1), Literal(0), Literal(1)}}
Folded == {Program(1..2, {1}, None, 2, <<LogicOp(op, 2, Literal(3), Literal(x), 2)>>) :
            op \in {"AND", "XOR"}, x \in {0, 2, 4}}
Wide == Program(1..3, {1}, None, 2, <<Hint, LogicOp("AND", 3, Wire(1), Wire(2), 3)>>)

(* i = q + 2*r with q and r of so many bits, under a budget of one or two bits;
   a RANGE as wide as the field, and one of a constant.                        *)
Splits == {Program(1..3, {1}, None, budget,
             <<Hint, RangeOp(Wire(2), q), RangeOp(Wire(3), r), RangeOp(Wire(1), 3), RangeOp(Literal(l), 2),
               Lin(<<<<1, 1>>, <<-1, 2>>, <<-2, 3>>>>, 0)>>) :
             budget \in 1..2, q \in 0..2, r \in 1..2, l \in {3, 4}}

(* A square root that only a RANGE beyond the budget makes unique. *)
Root == Program(1..2, {1}, None, 1, <<Hint, AssertZero(<<<<1, 2, 2>>>>, <<<<-1, 1>>>>, 0), RangeOp(Wire(2), 2)>>)

(* Terms that cancel, and an expression without a wire. *)
Degenerate == {Program(1..3, {1}, None, 2,
                 <<Hint, AssertZero(<<<<5, 2, 3>>>>, <<<<1, 2>>, <<-1, 1>>>>, 0),
                   AssertZero(<<<<1, 2, 3>>>>, <<<<5, 1>>>>, 0), Lin(<< >>, q)>>) : q \in {0, 1}}

(* What limits the input is untranslated; the root of the input is a target that
   reaches it only through the input.  3 is a constant, or another input.      *)
BeyondInput ==
  {Program(1..4, inputs, consts, 2,
     <<LogicOp("AND", 3, Wire(1), Wire(3), 2), Lin(<<<<1, 2>>, <<-1, 1>>>>, 0), Hint,
       AssertZero(<<<<1, 4, 4>>>>, <<<<-1, 1>>>>, 0)>> \o fixing) :
     <<inputs, consts, fixing>> \in {<<{1}, 3 :> 0, <<Lin(<<<<1, 3>>>>, 0)>>>>, <<{1, 3}, None, << >>>>}}

Programs == {Lookup, Overwrite, Twice, ConstantWrite, ConstantTable, ConstantBlock, NoBlock, Wide, Root}
              \cup Masks \cup Flags \cup Folded \cup Splits \cup Degenerate \cup BeyondInput

PropagationIsSound ==
  \A c \in Programs : \A a \in Runs(c) : \A w \in DOMAIN c.consts : a[w] = c.consts[w]
ASSUME PropagationIsSound
=============================================================================
