------------------------------ MODULE Pipeline ------------------------------
(***************************************************************************)
(* One circuit on its way to a certified verdict: build_model_with_calls    *)
(* of src/src/translate.rs translates its opcodes in order (module          *)
(* Encodings), run_query of src/src/solver.rs takes the exact slice of a    *)
(* target, the solver answers with two copies, and certify of               *)
(* src/src/dynamic/certify.rs walks the opcodes again on both of them.      *)
(*                                                                         *)
(* Translation and certificate both keep the state of the memory blocks:    *)
(* the one as the wires of the cells, for every opcode; the other as their  *)
(* values, for the opcodes that touch the target's component.               *)
(***************************************************************************)
EXTENDS Encodings, SequencesExt

CONSTANT Circuits   \* with consts and known, the result of propagation, and
                    \* maxRangeBits, the budget of the command line

VARIABLES
  circuit,        \* never changes
  pc,             \* "translate", "target", "inputs", "walk", "done"
  index,          \* the opcode that is translated, or checked
  nextWire,       \* next_aux_wire
  cells,          \* memory_blocks: the wires of each block
  groups,         \* constraint_groups and global_groups: [opcode, wires, constraints]
  edges,          \* dependency_edges
  untranslated, dropped,     \* opcodes noted as unsupported, or as abstracted
  target, pair,   \* the target, and the two copies the solver answers with
  copy,           \* 1 is the original, 2 the alternative
  memory,         \* MemoryState of each copy
  checked,        \* checked_opcodes
  status          \* CertificateStatus, or "none"

built == <<nextWire, cells, groups, edges, untranslated, dropped>>
certificate == <<copy, memory, checked, status>>
vars == <<circuit, pc, index, built, target, pair, certificate>>

Init ==
  /\ circuit \in Circuits
  /\ pc = "translate"
  /\ index = 1
  /\ nextWire = Max(circuit.wires) + 1
  /\ cells = << >> /\ groups = << >> /\ edges = {} /\ untranslated = {} /\ dropped = {}
  /\ target = 0 /\ pair = << >>
  /\ copy = 1 /\ memory = <<<< >>, << >>>> /\ checked = 0 /\ status = "none"

opcode == circuit.opcodes[index]

-----------------------------------------------------------------------------
(* build_model_with_calls: one opcode. *)

Translating(types) == pc = "translate" /\ index <= Len(circuit.opcodes) /\ opcode.type \in types

(* push_dependency_edge and push_constraint_group, for an opcode with fresh wires. *)
PushGroup(wires, constraints, fresh) ==
  /\ nextWire' = nextWire + fresh
  /\ edges' = edges \cup ({wires} \ {{}})
  /\ groups' = IF constraints = << >> THEN groups
               ELSE Append(groups, [opcode |-> index, wires |-> wires, constraints |-> constraints])
  /\ index' = index + 1
  /\ UNCHANGED <<circuit, pc, untranslated, dropped, target, pair, certificate>>

PushUnsupported ==
  /\ edges' = edges \cup ({opcode.wires} \ {{}})
  /\ untranslated' = untranslated \cup {index}
  /\ index' = index + 1
  /\ UNCHANGED <<circuit, pc, nextWire, cells, groups, dropped, target, pair, certificate>>

TranslateExpression ==
  /\ Translating({"AssertZero"})
  /\ PushGroup(opcode.wires, ExpressionConstraints(opcode), 0)
  /\ UNCHANGED cells

(* A RANGE beyond the budget of bits leaves an edge and a note. *)
TooWide(o) == o.bits > circuit.maxRangeBits /\ o.bits < FieldBits

DropRange ==
  /\ Translating({"RANGE"})
  /\ TooWide(opcode)
  /\ edges' = edges \cup ({opcode.wires} \ {{}})
  /\ dropped' = IF opcode.wires = {} THEN dropped ELSE dropped \cup {index}
  /\ index' = index + 1
  /\ UNCHANGED <<circuit, pc, nextWire, cells, groups, untranslated, target, pair, certificate>>

TranslateRange ==
  /\ Translating({"RANGE"})
  /\ ~TooWide(opcode)
  /\ IF ~Translatable(opcode.input, opcode.bits) THEN PushUnsupported
     ELSE LET need == BitsNeeded(opcode.input, opcode.bits)
              fresh == FreshWires(nextWire, need)
          IN  /\ PushGroup(opcode.wires \cup Range(fresh),
                           RangeConstraints(opcode.input, opcode.bits, fresh), need)
              /\ UNCHANGED cells

TranslateLogic ==
  /\ Translating({"AND", "XOR"})
  /\ IF opcode.bits >= FieldBits \/ \E x \in {opcode.lhs, opcode.rhs} : ~Translatable(x, opcode.bits)
     THEN PushUnsupported
     ELSE LET need == LogicWiresNeeded(opcode)
          IN  /\ PushGroup(opcode.wires \cup (nextWire..nextWire + need - 1),
                           LogicConstraints(opcode, nextWire), need)
              /\ UNCHANGED cells

(* Nothing is constrained yet: the block's cells are the initial wires. *)
TranslateInit ==
  /\ Translating({"MemoryInit"})
  /\ cells' = (opcode.block :> opcode.init) @@ cells
  /\ index' = index + 1
  /\ UNCHANGED <<circuit, pc, nextWire, groups, edges, untranslated, dropped, target, pair, certificate>>

(* A write makes the cells of the block anew. *)
CellsAfter(new) == IF opcode.type = "Write" THEN (opcode.block :> new) @@ cells ELSE cells

TranslateAccess ==
  /\ Translating({"Read", "Write"})
  /\ IF opcode.block \notin DOMAIN cells \/ cells[opcode.block] = << >> THEN PushUnsupported
     ELSE LET old == cells[opcode.block]
              selectors == FreshWires(nextWire, Len(old))
              new == IF opcode.type = "Write" THEN FreshWires(nextWire + Len(old), Len(old)) ELSE << >>
          IN  /\ PushGroup(opcode.wires \cup Range(old) \cup Range(selectors) \cup Range(new),
                           AccessConstraints(opcode, old, selectors, new), Len(selectors) + Len(new))
              /\ cells' = CellsAfter(new)

TranslateHint ==
  /\ Translating({"BrilligCall"})
  /\ index' = index + 1
  /\ UNCHANGED <<circuit, pc, built, target, pair, certificate>>

Translated ==
  /\ pc = "translate" /\ index > Len(circuit.opcodes)
  /\ pc' = "target"
  /\ UNCHANGED <<circuit, index, built, target, pair, certificate>>

-----------------------------------------------------------------------------
(* The exact query of a target. *)

HardCut == DOMAIN circuit.consts

(* dependency_component_cut, a sweep over the edges at a time. *)
Sweep(S, cut) == S \cup UNION {e \ cut : e \in {f \in edges : f \cap S # {}}}

ComponentCut(t, cut) ==
  LET Reached[k \in 0..Cardinality(edges)] == IF k = 0 THEN {t} ELSE Sweep(Reached[k-1], cut)
  IN  IF t \in cut THEN {} ELSE Reached[Cardinality(edges)]

(* exact_component, which the query and the certificate are about, and
   dependency_component, in which untranslated opcodes are looked up.         *)
Component(t) == ComponentCut(t, HardCut)
DependencyComponent(t) == ComponentCut(t, circuit.inputs)

(* A group without a wire is in every query. *)
Selected(t) == SelectSeq(groups, LAMBDA g : g.wires \cap Component(t) # {} \/ g.wires = {})

(* A constant wire that the query mentions is pinned to its value. *)
Pinned(selection) == HardCut \cap UNION {g.wires : g \in Range(selection)}

(* All assignments that satisfy a list of constraints: they are extended to the
   new wires of one constraint after the other.                                *)
Solutions(constraints, fixed) ==
  LET Assigned(k) == DOMAIN fixed \cup UNION {ConstraintWires(constraints[i]) : i \in 1..k}
      Upto[k \in 0..Len(constraints)] ==
        IF k = 0 THEN {fixed}
        ELSE LET new == ConstraintWires(constraints[k]) \ Assigned(k - 1)
             IN  {s \in {a @@ x : a \in Upto[k-1], x \in [new -> Field]} : Satisfies(s, constraints[k])}
  IN  Upto[Len(constraints)]

Constraints(selection) == FoldLeft(LAMBDA cs, g : cs \o g.constraints, << >>, selection)
One == 0 :> 1

(* The witnesses of a copy, as the certificate reads them from the solver's
   model: without the wires of the encodings.  A witness that the query does not
   mention may have any value.                                                 *)
Witnesses(a) == [w \in circuit.wires \cap DOMAIN a |-> a[w]]

Copies(t) ==
  LET selection == Selected(t)
      pins == [w \in Pinned(selection) |-> circuit.consts[w]]
      solved == {Witnesses(a) : a \in Solutions(Constraints(selection), One @@ pins)}
  IN  UNION {{a @@ x : x \in [circuit.wires \ DOMAIN a -> Field]} : a \in solved}

SameOn(W, a, b) == \A w \in W : a[w] = b[w]

QueryPairs(t) ==
  {p \in Copies(t) \X Copies(t) : p[1][t] # p[2][t] /\ SameOn(circuit.inputs \cup circuit.known, p[1], p[2])}

(* scan.rs hands over only targets that no untranslated opcode reaches. *)
Admitted(t) ==
  /\ t \notin circuit.inputs \cup circuit.known
  /\ \A i \in untranslated : circuit.opcodes[i].wires # {} /\ circuit.opcodes[i].wires \cap DependencyComponent(t) = {}

(* The solver is satisfiable, and certify is called. *)
Answer ==
  /\ pc = "target"
  /\ \E t \in circuit.wires :
       /\ Admitted(t)
       /\ target' = t
       /\ \E p \in QueryPairs(t) : pair' = p
  /\ pc' = "inputs"
  /\ UNCHANGED <<circuit, index, built, certificate>>

-----------------------------------------------------------------------------
(* certify *)

Return(s) == status' = s /\ pc' = "done" /\ UNCHANGED <<circuit, index, built, target, pair, copy, memory, checked>>

(* The copies agree on the inputs and differ on the target: the query says so,
   certify looks again before it walks the opcodes.                           *)
CheckClaim ==
  /\ pc = "inputs"
  /\ IF SameOn(circuit.inputs, pair[1], pair[2]) /\ pair[1][target] # pair[2][target]
     THEN /\ pc' = "walk" /\ index' = 1
          /\ UNCHANGED <<circuit, built, target, pair, certificate>>
     ELSE Return("refuted")

Walking == pc = "walk" /\ index <= Len(circuit.opcodes)

TouchesComponent(o) == o.wires \cap Component(target) # {}

SkipOpcode ==
  /\ Walking /\ ~TouchesComponent(opcode)
  /\ index' = index + 1
  /\ UNCHANGED <<circuit, pc, built, target, pair, certificate>>

Judged(a) == Judgeable(opcode, a, memory[copy])
Checking == Walking /\ TouchesComponent(opcode)

OpcodeUnsupported == Checking /\ ~Judged(pair[copy]) /\ Return("incomplete")

OpcodeViolated ==
  /\ Checking
  /\ Judged(pair[copy]) /\ ~Accepts(opcode, pair[copy], memory[copy])
  /\ Return("refuted")

(* Mutant: the alternative is not looked at. *)
NextCopyOne == 1
(* The original copy, then the alternative, then the next opcode. *)
NextCopy == 3 - copy

OpcodeSatisfied ==
  /\ Checking
  /\ Judged(pair[copy]) /\ Accepts(opcode, pair[copy], memory[copy])
  /\ memory' = [memory EXCEPT ![copy] = BlocksAfter(opcode, pair[copy], memory[copy])]
  /\ copy' = NextCopy
  /\ IF NextCopy = 1 THEN index' = index + 1 /\ checked' = checked + 1 ELSE UNCHANGED <<index, checked>>
  /\ UNCHANGED <<circuit, pc, built, target, pair, status>>

(* A walk that checked nothing proved nothing. *)
WalkEnds ==
  /\ pc = "walk" /\ index > Len(circuit.opcodes)
  /\ Return(IF checked = 0 THEN "incomplete" ELSE "certified")

Stop == (pc = "done" \/ pc = "target") /\ UNCHANGED vars

Next ==
  \/ TranslateExpression \/ DropRange \/ TranslateRange \/ TranslateLogic
  \/ TranslateInit \/ TranslateAccess \/ TranslateHint \/ Translated
  \/ Answer \/ CheckClaim
  \/ SkipOpcode \/ OpcodeUnsupported \/ OpcodeViolated \/ OpcodeSatisfied \/ WalkEnds
  \/ Stop

Spec == Init /\ [][Next]_vars

-----------------------------------------------------------------------------
(* Properties *)

TypeOK ==
  /\ pc \in {"translate", "target", "inputs", "walk", "done"}
  /\ index \in 1..Len(circuit.opcodes) + 1
  /\ \A b \in DOMAIN cells : Range(cells[b]) \subseteq 1..nextWire-1
  /\ \A g \in Range(groups) : g.wires \subseteq 1..nextWire-1 /\ UNION {ConstraintWires(c) : c \in Range(g.constraints)} \subseteq g.wires \cup {0}
  /\ edges \subseteq SUBSET (1..nextWire-1)
  /\ pair = << >> \/ pair \in Seq([circuit.wires -> Field])
  /\ copy \in {1, 2}
  /\ checked \in 0..Len(circuit.opcodes)
  /\ status \in {"none", "certified", "refuted", "incomplete"}

(* Those that leave no constraint; of a constant, they leave no note either. *)
TooWideRanges == {o \in Range(circuit.opcodes) : o.type = "RANGE" /\ TooWide(o)}

(* The translation has the runs of the circuit: each run extends to exactly one
   solution of the constraints, and when every opcode was translated, each
   solution comes from a run (memory.rs:55, bitwise.rs:101, range.rs:43); types
   included.                                                                   *)
EncodingFaithful ==
  /\ TypeOK
  /\ pc = "target" =>
    LET solutions == Solutions(Constraints(groups), One)
        runs == Runs(circuit)
        Extends(s, a) == \A w \in circuit.wires \cap DOMAIN s : s[w] = a[w]
    IN  /\ \A a \in runs : Cardinality({s \in solutions : Extends(s, a)}) = 1
        /\ untranslated = {} /\ TooWideRanges = {} =>
             \A s \in solutions : \E a \in runs : Extends(s, a)

(* An untranslated opcode beyond an input is evaluated with whatever the solver
   gave to a constant wire that no group of the query mentions.               *)
ConstantsArePinned ==
  \A o \in Range(circuit.opcodes) : TouchesComponent(o) => o.wires \cap HardCut \subseteq Pinned(Selected(target))

(* A certificate that passes means that the target is not unique, at the very
   inputs of the counterexample that its component reaches: the opcodes that
   were not looked at take nothing away, if the constants are what they are
   (certify.rs:25).                                                            *)
CertifiedIsReal ==
  status = "certified" /\ ConstantsArePinned /\ (\E a \in [circuit.wires -> Field] : IsRun(circuit, a)) =>
    LET seen == circuit.inputs \cap Component(target)
        completed == {[w \in seen |-> pair[1][w]] @@ x : x \in [circuit.wires \ seen -> Field]}
        runs == {a \in completed : IsRun(circuit, a)}
    IN  \E a, b \in runs : SameOn(circuit.inputs, a, b) /\ a[target] # b[target]

(* A block of this circuit is set up or written by an opcode that the walk
   passes over, because all its wires are constants.                        *)
PassesOverMemory ==
  \E i \in DOMAIN circuit.opcodes :
    circuit.opcodes[i].type \in {"MemoryInit", "Write"} /\ ~TouchesComponent(circuit.opcodes[i])

(* Where the translation is exact and no change of a block is passed over, the
   certificate, which never sees the translation, agrees with it: a
   counterexample is not refuted (solver.rs:98, certify.rs:125).               *)
ExactIsNotRefuted ==
  status = "refuted" => untranslated # {} \/ TooWideRanges # {} \/ PassesOverMemory

(* "Refuted: At least one opcode rejects one of the assignments. The finding is
   an artefact of this tool's translation, not a property of the circuit"
   (certify.rs:55).                                                            *)
RefutedIsArtefact == status = "refuted" => \E i \in {1, 2} : ~IsRun(circuit, pair[i])
=============================================================================
