----------------------------- MODULE Candidates -----------------------------
(***************************************************************************)
(* The values that the mutation search tries for a witness                  *)
(* (src/src/dynamic/candidates.rs), read off the circuit.                   *)
(***************************************************************************)
EXTENDS AcirCheck, SequencesExt

CONSTANTS
  Attempts,    \* attempts_per_witness
  MaxMentions, \* a witness in more expressions than this is a hub
  LastSlot     \* the last of the positions 2..8 tried for every hint

ASSUME ParametersAreNatural == P \in Nat \ {0, 1} /\ Attempts \in Nat /\ LastSlot \in Nat

(* What the fields of an opcode are to its wires, and what a black box that can
   be evaluated accepts. No array is longer than the field.                    *)
WellFormedOpcode(o) ==
  /\ {"type", "wires", "ins", "outs", "evaluable", "accepts"} \subseteq DOMAIN o
  /\ o.ins \cup o.outs \subseteq o.wires
  /\ o.type = "AssertZero" => \A k \in DOMAIN o.lin : o.lin[k][1] \in Int
  /\ o.type = "MemoryInit" => o.init \in Seq(o.wires) /\ Len(o.init) \in 1..P
  /\ IsAccess(o) => o.wires = {o.index, o.value}
  /\ o.type = "RANGE" => "bits" \in DOMAIN o /\ o.bits \in Nat /\ 2^o.bits \in Nat
  /\ o.type = "Bitwise" => /\ o.ins = {o.lhs, o.rhs} /\ o.outs = {o.out}
                           /\ o.combine \in [Field \X Field -> Field]
  /\ IsEvaluated(o) => /\ o.ins = {o.in} /\ o.outs = {o.out} /\ o.wires = {o.in, o.out}
                       /\ o.F \in [DOMAIN o.F -> Field]
                       /\ \A a \in [o.wires -> Field] :
                            a[o.in] \in DOMAIN o.F /\ a[o.out] = o.F[a[o.in]] => a \in o.accepts

(* The parameters are not hints (mutate.rs:235). *)
WellFormedCircuit(c) ==
  /\ {"wires", "inputs", "hints", "returns", "opcodes"} \subseteq DOMAIN c
  /\ c.wires \subseteq Nat /\ IsFiniteSet(c.wires)
  /\ c.inputs \cup c.hints \cup c.returns \subseteq c.wires
  /\ c.hints \cap c.inputs = {}
  /\ c.opcodes \in Seq({c.opcodes[i] : i \in DOMAIN c.opcodes})
  /\ \A i \in DOMAIN c.opcodes : c.opcodes[i].wires \subseteq c.wires /\ WellFormedOpcode(c.opcodes[i])

-----------------------------------------------------------------------------
(* Ascending, as a BTreeSet is walked. *)
Ascending(S) == [k \in 1..Cardinality(S) |-> CHOOSE v \in S : Cardinality({u \in S : u < v}) = k - 1]

Keep(s, I) == LET at == Ascending(I) IN [k \in DOMAIN at |-> s[at[k]]]

(* Vec::dedup: only neighbours are compared. *)
Dedup(s) == Keep(s, {i \in DOMAIN s : i = 1 \/ s[i] # s[i-1]})

(* Duplicates anywhere; the first of them stays. *)
Distinct(s) == Keep(s, {i \in DOMAIN s : \A j \in 1..i-1 : s[j] # s[i]})

Other(s, original) == Keep(s, {i \in DOMAIN s : s[i] # original})

CandidateValues(v) ==
  LET values == Dedup(Other(<<(v + 1) % P, (v - 1) % P, 0, 1, P - 1, (v + v) % P, (v + 256) % P>>, v))
  IN  SubSeq(values, 1, Min({Max({Attempts, 1}), Len(values)}))

Widths(c, w) == {c.opcodes[i].bits : i \in {j \in DOMAIN c.opcodes :
                   c.opcodes[j].type = "RANGE" /\ c.opcodes[j].wires = {w}}}

(* The edges of the type of an input: its tightest RANGE. *)
InputCandidates(c, w, v) ==
  LET top == 2^Min(Widths(c, w)) - 1
      edges == IF Widths(c, w) = {} THEN << >> ELSE <<top % P, (top - 1) % P, ((top + 1) \div 2) % P>>
  IN  Dedup(Other(CandidateValues(v) \o edges, v))

Expressions(c) == {i \in DOMAIN c.opcodes : c.opcodes[i].type = "AssertZero"}

(* Steps that take a term with this coefficient around the modulus. *)
WrapSteps(c, w) ==
  LET terms == UNION {{c.opcodes[i].lin[k] : k \in DOMAIN c.opcodes[i].lin} : i \in Expressions(c)}
      magnitudes == {Min({t[1] % P, P - (t[1] % P)}) : t \in {u \in terms : u[2] = w}} \ {0, 1}
  IN  UNION {{P \div m, (P \div m + 1) % P, P - (P \div m)} : m \in magnitudes}

-----------------------------------------------------------------------------
(* index_candidates *)

(* Lengths of the blocks that a witness indexes. *)
IndexLens(c, w) ==
  {Len(c.opcodes[InitOf(c, i)].init) :
     i \in {j \in DOMAIN c.opcodes : IsAccess(c.opcodes[j]) /\ c.opcodes[j].index = w /\ InitOf(c, j) # 0}}
Indices(c) == {w \in c.wires : IndexLens(c, w) # {}}
Slots(c, x) == 0..Max(IndexLens(c, x))-1

(* x = w + shift by an expression of two linear terms. *)
Shifts(c, x, w) ==
  {s \in Field : \E i \in Expressions(c) :
     LET o == c.opcodes[i]
     IN  /\ o.mul = << >> /\ Len(o.lin) = 2
         /\ \E k \in {1, 2} :
              /\ o.lin[k][2] = x /\ o.lin[3-k][2] = w
              /\ o.lin[k][1] % P # 0 /\ (o.lin[1][1] + o.lin[2][1]) % P = 0
              /\ (o.lin[k][1] * s + o.q) % P = 0}

Mentions(c, w) == {i \in Expressions(c) : w \in c.opcodes[i].wires}
Beside(c, w) == IF Cardinality(Mentions(c, w)) > MaxMentions THEN {}
                ELSE UNION {c.opcodes[i].wires : i \in Mentions(c, w)}

(* Hints at most three expressions away from the index x, hints not crossed. *)
HintsNear(c, x) ==
  LET Reach[d \in 0..3] == IF d = 0 THEN {x}
                           ELSE Reach[d-1] \cup UNION {Beside(c, w) : w \in Reach[d-1] \ (c.hints \ {x})}
  IN  (Reach[3] \ {x}) \cap c.hints

IndexCandidates(c, w) ==
  UNION {(IF x = w THEN Slots(c, x) ELSE {})
           \cup {(p[1] - p[2]) % P : p \in Slots(c, x) \X Shifts(c, x, w)}
           \cup (IF w \in HintsNear(c, x) THEN Slots(c, x) ELSE {}) : x \in Indices(c)}

(* The hint holds a position now. *)
HoldsPosition(c, w, v) ==
  /\ Widths(c, w) # {} /\ Min(Widths(c, w)) \in 2..64
  /\ v < Cardinality(IndexCandidates(c, w))

SurfaceCandidates(c, w, v) ==
  LET wraps == Ascending(WrapSteps(c, w))
      positions == IF w \notin c.hints THEN << >>
                   ELSE [k \in 1..LastSlot-1 |-> (k + 1) % P]
                          \o (IF HoldsPosition(c, w, v) THEN Ascending(IndexCandidates(c, w)) ELSE << >>)
  IN  Distinct(Other(CandidateValues(v) \o [k \in DOMAIN wraps |-> (v + wraps[k]) % P] \o positions, v))
=============================================================================
