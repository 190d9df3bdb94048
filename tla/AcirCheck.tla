------------------------------ MODULE AcirCheck ------------------------------
(***************************************************************************)
(* check_opcode of src/src/dynamic/certify.rs over circuits with memory,    *)
(* for one assignment that may be partial.  Next to it, what a run of a     *)
(* circuit is, stated without the state of the blocks.                      *)
(*                                                                         *)
(* A circuit is a record [wires, inputs, hints, returns, opcodes].          *)
(***************************************************************************)
EXTENDS Acir, FiniteSetsExt

(* f, and g where f has no value; one value.  (@@ and :> of module TLC, for the
   states of proofs: tlapm does not know them.)                               *)
Overlay(f, g) == [x \in DOMAIN f \cup DOMAIN g |-> IF x \in DOMAIN f THEN f[x] ELSE g[x]]
Entry(x, v) == [y \in {x} |-> v]

MemoryInit(block, init) ==
  Opcode("MemoryInit", "exact", {init[i] : i \in DOMAIN init}, {}, {}, 0, TRUE, {})
    @@ [block |-> block, init |-> init]

MemoryOp(type, block, index, value) ==
  Opcode(type, "exact", {index, value}, {}, {}, 0, TRUE, {})
    @@ [block |-> block, index |-> index, value |-> value]

(* Recursive verification of the proof w: only the proving system checks it. *)
Recursion(valid, w) ==
  Opcode("Recursion", "unsupported", {w}, {w}, {}, 0, FALSE, {a \in [{w} -> Field] : a[w] \in valid})

(* A black box that is evaluated by the ACVM's own solver. *)
IsEvaluated(o) == o.type \in {"BlackBox", "Curve"}
IsAccess(o) == o.type \in {"Read", "Write"}

-----------------------------------------------------------------------------
(* Runs of a circuit: each opcode accepts the assignment; an access is within
   its block, and a read has the value last written there.                   *)

InitOf(c, i) ==
  Max({0} \cup {j \in 1..i-1 : c.opcodes[j].type = "MemoryInit" /\ c.opcodes[j].block = c.opcodes[i].block})

LastValue(c, a, i) ==
  LET o == c.opcodes[i]
      writes == {j \in InitOf(c, i)+1..i-1 : /\ c.opcodes[j].type = "Write" /\ c.opcodes[j].block = o.block
                                             /\ a[c.opcodes[j].index] = a[o.index]}
  IN  IF writes # {} THEN a[c.opcodes[Max(writes)].value]
      ELSE a[c.opcodes[InitOf(c, i)].init[a[o.index] + 1]]

IsRun(c, a) ==
  \A i \in DOMAIN c.opcodes :
    LET o == c.opcodes[i]
    IN  IF IsAccess(o)
        THEN /\ InitOf(c, i) # 0
             /\ a[o.index] < Len(c.opcodes[InitOf(c, i)].init)
             /\ o.type = "Read" => a[o.value] = LastValue(c, a, i)
        ELSE o.type # "MemoryInit" => AcirHolds(o, a)

Runs(c) == {a \in [c.wires -> Field] : IsRun(c, a)}

-----------------------------------------------------------------------------
(* check_opcode, with blocks the contents of the memory blocks so far. *)

(* Check::Unsupported is everything else. *)
Judgeable(o, a, blocks) ==
  /\ o.type # "Call" /\ o.evaluable
  /\ IsAccess(o) => o.block \in DOMAIN blocks
  /\ IF IsEvaluated(o)
     THEN o.in \in DOMAIN a /\ (a[o.in] \in DOMAIN o.F => o.out \in DOMAIN a)
     ELSE o.wires \subseteq DOMAIN a

InBlock(o, a, blocks) == a[o.index] < Len(blocks[o.block])

Accepts(o, a, blocks) ==
  IF IsEvaluated(o) THEN a[o.in] \in DOMAIN o.F /\ a[o.out] = o.F[a[o.in]]
  ELSE IF IsAccess(o)
  THEN InBlock(o, a, blocks) /\ (o.type = "Read" => a[o.value] = blocks[o.block][a[o.index] + 1])
  ELSE o.type # "MemoryInit" => AcirHolds(o, a)

BlocksAfter(o, a, blocks) ==
  IF o.type = "MemoryInit" THEN Overlay(Entry(o.block, [i \in DOMAIN o.init |-> a[o.init[i]]]), blocks)
  ELSE IF o.type = "Write" THEN [blocks EXCEPT ![o.block][a[o.index] + 1] = a[o.value]]
  ELSE blocks
=============================================================================
