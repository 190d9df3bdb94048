------------------------------- MODULE Label -------------------------------
(***************************************************************************)
(* Mutants of a circuit (src/src/mutants.rs), each with one check removed  *)
(* or relaxed, and the label that src/src/dynamic/label.rs gives them.     *)
(***************************************************************************)
EXTENDS Override

CONSTANTS
  Originals,      \* circuits of which mutants are made, with inputs `seed`
  HintsFirst      \* hints tried where the honest run fails: 8 in the code

VARIABLES
  original,       \* the circuit that was mutated
  opcodeIndex,    \* the opcode of it that was
  variants,       \* other inputs still to be tried
  kind,           \* "honest", "rejected", "other": the inputs of the search
  report          \* LabelReport: [label, moved, baseline, nondetInputs]

labelOwn == <<original, opcodeIndex, variants, kind, report>>
labelVars == <<overrideVars, labelOwn>>

ASSUME HintsFirstIsNatural == HintsFirst \in Nat

(* Of exponents the proofs know nothing else. *)
ASSUME PowersOfTwo ==
  FieldBits \in Nat /\ \A n \in 0..FieldBits : 2^n \in Nat /\ 2^n <= 2^(n + 1)

Check == original.opcodes[opcodeIndex]

-----------------------------------------------------------------------------
(* mutants.rs *)

Defines(o) ==
  CASE IsEvaluated(o) -> {o.out}
    [] o.type = "Bitwise" -> {o.out}
    [] o.type = "BrilligCall" -> ToSet(o.answers)
    [] o.type = "Read" -> {o.value}
    [] o.type = "AssertZero" -> o.wires
    [] OTHER -> {}

AssignedBefore(c, i) == c.inputs \cup UNION {Defines(c.opcodes[j]) : j \in 1..i-1}

(* Mutant: every expression counts as a check. *)
AllExpressions(c) == Expressions(c)

(* Expressions that check and do not define. *)
PureChecks(c) == {i \in Expressions(c) : c.opcodes[i].wires \subseteq AssignedBefore(c, i)}

(* What the compiler emits: a constraint that is no check defines one wire, in which
   it is linear with a coefficient that does not vanish; a range follows the wire
   that it is about.                                                             *)
DefinesOne(o, new) ==
  /\ o.type = "RANGE" => new = {}
  /\ o.type = "AssertZero" /\ new # {} =>
       \E k \in DOMAIN o.lin :
         /\ new = {o.lin[k][2]} /\ o.lin[k][1] % P # 0
         /\ \A j \in DOMAIN o.lin \ {k} : o.lin[j][2] # o.lin[k][2]
         /\ o.lin[k][2] \notin InProducts(o)

Definite(c) ==
  \A i \in DOMAIN c.opcodes : DefinesOne(c.opcodes[i], c.opcodes[i].wires \ AssignedBefore(c, i))

ASSUME OriginalsDefinite ==
  \A c \in Originals :
    /\ WellFormedCircuit(c) /\ Executable(c) /\ HintsAreFresh(c) /\ Definite(c)
    /\ c.seed \in [c.inputs -> Field]

Ranges(c) == {i \in DOMAIN c.opcodes : c.opcodes[i].type = "RANGE"}

Drop(c, i) == [c EXCEPT !.opcodes = RemoveAt(@, i)]
Wider(o) ==
  [o EXCEPT !.bits = @ + 1, !.accepts = {a \in [o.wires -> Field] : \A w \in o.wires : a[w] < 2^(o.bits + 1)}]
Widen(c, i) == [c EXCEPT !.opcodes[i] = Wider(c.opcodes[i])]

(* The mutants of opcode i: drop-check, drop-range, widen-range. *)
MutantsAt(c, i) ==
  {Drop(c, j) : j \in {i} \cap (PureChecks(c) \cup Ranges(c))}
    \cup {Widen(c, j) : j \in {k \in {i} \cap Ranges(c) : c.opcodes[k].bits < FieldBits - 1}}

-----------------------------------------------------------------------------
(* label.rs *)

Mentioned(o) == IF o.type \in {"AssertZero", "RANGE"} THEN o.wires ELSE {}

(* Only the two shapes that mutants touch. *)
Violates(o, a) == Mentioned(o) \subseteq DOMAIN a /\ Mentioned(o) # {} /\ ~AcirHolds(o, a)

Hints == Dedup(FirstThose(HintWitnesses(program), LAMBDA h : h \in Mentioned(Check)))

(* A relaxed range is tried just past its bound. *)
HintCandidates(base, h) ==
  LET v == base[h]
      bound == IF Check.type = "RANGE" /\ h \in Mentioned(Check) /\ Check.bits < FieldBits
               THEN <<2^Check.bits % P, (2^Check.bits + v) % P>> ELSE << >>
  IN  Other(bound \o CandidateValues(v), v)

(* A hint that the base leaves unassigned is passed over. *)
PairsAt(base) ==
  LET hints == Hints
  IN  Pairs(Keep(hints, {k \in DOMAIN hints : hints[k] \in DOMAIN base}), LAMBDA h : HintCandidates(base, h))

(* guarded: past the call that answers h, the ACVM asserts on an operand that a
   relaxed check let through, and the failed run leaves no values.             *)
Panicked(s, ins, h, v) ==
  \E i \in DOMAIN program.opcodes :
    LET o == program.opcodes[i]
    IN  /\ o.type = "BlackBox" /\ o.in \in DOMAIN s.values /\ s.values[o.in] \notin DOMAIN o.F
        /\ ~ExecuteWithOverride([program EXCEPT !.opcodes = SubSeq(@, 1, i - 1)], ins, h, v).failed

(* Where the run fails before h has an answer, or leaves none, the call that answers
   h is skipped and its answers supplied: v for h, zero for the rest.           *)
Answered(ins, h, v) ==
  LET s == ExecuteWithOverride(program, ins, h, v)
      producer == Min(Producers(program, h))
      supplied == [w \in ToSet(program.opcodes[producer].answers) |-> IF w = h THEN v ELSE 0]
  IN  IF ~s.failed \/ (h \in DOMAIN s.values /\ ~Panicked(s, ins, h, v)) THEN s
      ELSE Execute(Drop(program, producer), Overlay(supplied, ins))

NoReport == [label |-> "no-weakening", moved |-> {}, baseline |-> FALSE, nondetInputs |-> "none"]

LabelInit ==
  /\ original \in Originals
  /\ opcodeIndex \in DOMAIN original.opcodes
  /\ program \in MutantsAt(original, opcodeIndex)
  /\ inputs = original.seed
  /\ honest = << >> /\ todo = << >> /\ late = FALSE
  /\ variants = << >> /\ kind = "honest"
  /\ report = NoReport
  /\ phase = "honest"

(* The original rejects its own inputs: an error, and no label. *)
OriginalRejects ==
  /\ phase = "honest"
  /\ Execute(original, inputs).failed
  /\ phase' = "done"
  /\ UNCHANGED <<program, inputs, honest, todo, late, labelOwn>>

OriginalRuns ==
  /\ phase = "honest"
  /\ LET s == Execute(original, inputs)
     IN  ~s.failed /\ honest' = s.values /\ todo' = PairsAt(s.values)
  /\ phase' = "override"
  /\ UNCHANGED <<program, inputs, late, labelOwn>>

MovedOutputs(a) ==
  {<<w, honest[w], a[w]>> : w \in Differ(program.returns \cap DOMAIN honest \cap DOMAIN a, honest, a)}

(* Mutant: evidence at any inputs is held against the original. *)
BaselineAnywhere(moved) == report.baseline \/ moved # {}

(* Without violating the check: the original is not unique at its own inputs. *)
Baseline(moved) == report.baseline \/ (kind = "honest" /\ moved # {})

TryAnswer ==
  /\ phase = "override" /\ todo # << >> /\ ~late
  /\ todo' = Tail(todo)
  /\ LET s == Answered(inputs, Head(todo)[1], Head(todo)[2])
         moved == MovedOutputs(s.values)
     IN  \/ s.failed /\ UNCHANGED <<report, phase>>
         \/ /\ ~s.failed /\ ~Violates(Check, s.values)
            /\ report' = [report EXCEPT !.baseline = Baseline(moved)]
            /\ UNCHANGED phase
         \/ /\ ~s.failed /\ Violates(Check, s.values) /\ moved = {}
            /\ report' = IF report.label = "no-weakening" THEN [report EXCEPT !.label = "internal"] ELSE report
            /\ UNCHANGED phase
         \/ /\ ~s.failed /\ Violates(Check, s.values) /\ moved # {}
            /\ report' = [report EXCEPT !.label = "nondet", !.moved = moved, !.nondetInputs = kind]
            /\ phase' = "done"
  /\ UNCHANGED <<program, inputs, honest, late, original, opcodeIndex, variants, kind>>

AnswersTimeOut ==
  /\ phase = "override" /\ todo # << >> /\ late
  /\ todo' = << >>
  /\ UNCHANGED <<phase, program, inputs, honest, late, labelOwn>>

(* All-zero, all-one, and one parameter at a time. *)
Variants ==
  LET params == Ascending(program.inputs)
      uniform == [k \in 1..2 |-> [w \in program.inputs |-> k - 1]]
  IN  uniform \o FlattenSeq([k \in DOMAIN params |->
        LET vs == CandidateValues(inputs[params[k]])
        IN  [j \in DOMAIN vs |-> [inputs EXCEPT ![params[k]] = vs[j]]]])

EndAnswers ==
  /\ phase = "override" /\ todo = << >>
  /\ phase' = "variants"
  /\ variants' = IF kind = "honest" THEN Variants ELSE variants
  /\ UNCHANGED <<program, inputs, honest, todo, late, original, opcodeIndex, kind, report>>

(* The first assignment that the mutant accepts with one small answer.  (A
   deadline that passes on the way to it has passed before the variant.)      *)
FirstAccepted(ins) ==
  LET pairs == Pairs(SubSeq(Hints, 1, Min({HintsFirst, Len(Hints)})), LAMBDA h : <<0, 1>>)
      runs == [k \in DOMAIN pairs |-> Answered(ins, pairs[k][1], pairs[k][2])]
      accepted == {k \in DOMAIN runs : ~runs[k].failed}
  IN  IF accepted = {} THEN {} ELSE {runs[Min(accepted)].values}

Bases(ins) ==
  LET s == Execute(program, ins)
  IN  IF s.failed THEN FirstAccepted(ins) ELSE {s.values}

OverAccepts(ins, base) == Execute(original, ins).failed /\ Violates(Check, base)

TryVariant ==
  /\ phase = "variants" /\ variants # << >> /\ ~late
  /\ variants' = Tail(variants)
  /\ \E base \in Bases(Head(variants)) :
       /\ inputs' = Head(variants)
       /\ honest' = base
       /\ kind' = IF Execute(original, Head(variants)).failed THEN "rejected" ELSE "other"
       /\ report' = IF OverAccepts(Head(variants), base) THEN [report EXCEPT !.label = "over-accept"] ELSE report
       /\ todo' = PairsAt(base)
  /\ phase' = "override"
  /\ UNCHANGED <<program, late, original, opcodeIndex>>

SkipVariant ==
  /\ phase = "variants" /\ variants # << >> /\ ~late
  /\ Bases(Head(variants)) = {}
  /\ variants' = Tail(variants)
  /\ UNCHANGED <<overrideVars, original, opcodeIndex, kind, report>>

EndVariants ==
  /\ phase = "variants" /\ (variants = << >> \/ late)
  /\ phase' = "done"
  /\ UNCHANGED <<program, inputs, honest, todo, late, labelOwn>>

LabelNext ==
  \/ OriginalRejects \/ OriginalRuns
  \/ TryAnswer \/ AnswersTimeOut \/ EndAnswers
  \/ TryVariant \/ SkipVariant \/ EndVariants
=============================================================================
