--------------------------- MODULE UnpinnedProofs ---------------------------
(***************************************************************************)
(* The `unpinned` command, for every field and every circuit: each bound   *)
(* and non-zero wire that its rules rest on holds in every run, and a hint *)
(* it calls free takes every value within its ranges, in every run.        *)
(***************************************************************************)
EXTENDS Unpinned, CircuitTheorems

(* A circuit under study, one of its opcodes, one of its runs. *)
Studied(c, o) == c \in Circuits /\ o \in Range(c.opcodes)
RunOf(c, a) == c \in Circuits /\ a \in RunsOf[c]

LEMMA OpcodeFacts ==
  ASSUME NEW c \in Circuits
  PROVE  /\ Len(c.opcodes) \in Nat /\ DOMAIN c.opcodes = 1..Len(c.opcodes)
         /\ \A i \in DOMAIN c.opcodes : Studied(c, c.opcodes[i])
         /\ \A o : Studied(c, o) => MeansWhatItSays(c, o) /\ \E i \in DOMAIN c.opcodes : o = c.opcodes[i]
<1>1. c.opcodes \in Seq(Range(c.opcodes)) /\ \A o \in Range(c.opcodes) : MeansWhatItSays(c, o)
  BY CircuitsMeanWhatTheySay
<1>2. Range(c.opcodes) = {c.opcodes[i] : i \in DOMAIN c.opcodes}
  BY DEF Range
<1> QED BY <1>1, <1>2 DEF Studied

LEMMA OpcodeWires ==
  ASSUME NEW c, NEW o, Studied(c, o)
  PROVE  /\ o.wires \subseteq c.wires /\ o.outs \subseteq o.wires
         /\ IsAccess(o) => o.wires = {o.index, o.value}
         /\ o.type = "MemoryInit" => o.init \in Seq(o.wires)
<1>1. MeansWhatItSays(c, o)
  BY OpcodeFacts DEF Studied
<1>2. o.wires \subseteq c.wires /\ o.outs \subseteq o.wires
  BY <1>1 DEF MeansWhatItSays
<1>3. o.type \in {"Read", "Write"} => o.wires = {o.index, o.value}
  BY <1>1 DEF MeansWhatItSays
<1>4. o.type = "MemoryInit" => o.init \in Seq(o.wires)
  BY <1>1 DEF MeansWhatItSays
<1> QED BY <1>2, <1>3, <1>4 DEF IsAccess

(* The wires of a circuit are numbers below P in every run. *)
LEMMA WidestFacts ==
  ASSUME NEW c \in Circuits, Asserts(c) # {}
  PROVE  Widest(c) \in Asserts(c)
<1> DEFINE n(S) == Cardinality(S)
           S == {n(o.wires) : o \in Asserts(c)}
<1>1. \A o \in Asserts(c) : IsFiniteSet(o.wires) /\ n(o.wires) \in 0..n(c.wires)
  <2> SUFFICES ASSUME NEW o \in Asserts(c) PROVE IsFiniteSet(o.wires) /\ n(o.wires) \in 0..n(c.wires)
    OBVIOUS
  <2>1. o.wires \in SUBSET c.wires /\ IsFiniteSet(c.wires)
    BY OpcodeFacts, CircuitsMeanWhatTheySay DEF Asserts, Studied, MeansWhatItSays
  <2>2. IsFiniteSet(o.wires) /\ n(o.wires) <= n(c.wires)
    BY <2>1, FS_Subset
  <2> QED BY <2>1, <2>2, FS_CardinalityType
<1>2. S \in SUBSET Int /\ S # {} /\ IsFiniteSet(S)
  <2>1. n(c.wires) \in Nat
    BY CircuitsMeanWhatTheySay, FS_CardinalityType
  <2>2. IsFiniteSet(0..n(c.wires))
    BY <2>1, FS_Interval
  <2>3. S \in SUBSET (0..n(c.wires)) /\ S # {}
    BY <1>1
  <2>4. 0..n(c.wires) \subseteq Int
    BY <2>1
  <2> HIDE DEF S, n
  <2> QED BY <2>2, <2>3, <2>4, FS_Subset
<1>3. Max(S) \in S /\ \A u \in S : u <= Max(S)
  BY <1>2, MaxExists
<1>4. \E p \in Asserts(c) : \A q \in Asserts(c) : n(q.wires) <= n(p.wires)
  BY <1>3
<1> QED BY <1>4 DEF Widest

LEMMA RunType ==
  ASSUME NEW c, NEW a, RunOf(c, a)
  PROVE  /\ c \in Circuits /\ a \in [c.wires -> Field] /\ IsRun(c, a)
         /\ \A w \in c.wires : a[w] \in Nat /\ a[w] < P
<1>1. a \in [c.wires -> Field] /\ IsRun(c, a)
  <2>0. c \in Circuits /\ a \in IF Asserts(c) = {} THEN Runs(c) ELSE RunsWithin(c, Widest(c))
    BY DEF RunOf, RunsOf
  <2>1. CASE Asserts(c) = {}
    BY <2>0, <2>1 DEF Runs
  <2>2. CASE Asserts(c) # {}
    <3>1. Widest(c) \in Asserts(c)
      BY <2>0, <2>2, WidestFacts
    <3>2. Widest(c).accepts \subseteq [Widest(c).wires -> Field] /\ Widest(c).wires \subseteq c.wires
      BY <2>0, <3>1, OpcodeFacts DEF Asserts, Studied, MeansWhatItSays
    <3>3. PICK x \in Widest(c).accepts, y \in [c.wires \ Widest(c).wires -> Field] :
            a = Overlay(x, y) /\ IsRun(c, a)
      BY <2>0, <2>2 DEF RunsWithin
    <3> QED BY <3>2, <3>3 DEF Overlay
  <2> QED BY <2>1, <2>2
<1>2. Field \subseteq Nat /\ \A v \in Field : v < P
  BY CircuitsMeanWhatTheySay DEF Field
<1> QED BY <1>1, <1>2 DEF RunOf

-----------------------------------------------------------------------------
(* A hint that is called free.  Nothing but a RANGE, or a black box, sees it. *)
Unseen(c, w) == Mentioning(c, w) = {} /\ ~InMemory(c, w)

(* What an access reads is not where an unseen wire is. *)
LEMMA LastValueSame ==
  ASSUME NEW c \in Circuits, NEW a \in [c.wires -> Field], NEW w \in c.wires, Unseen(c, w),
         NEW b \in [c.wires -> Field], \A v \in c.wires : v # w => b[v] = a[v],
         NEW i \in DOMAIN c.opcodes, IsAccess(c.opcodes[i]), InitOf(c, i) # 0,
         a[c.opcodes[i].index] < Len(c.opcodes[InitOf(c, i)].init)
  PROVE  LastValue(c, b, i) = LastValue(c, a, i)
<1> DEFINE o == c.opcodes[i]
           first == InitOf(c, i)
           W(x) == {j \in first+1..i-1 : /\ c.opcodes[j].type = "Write" /\ c.opcodes[j].block = o.block
                                         /\ x[c.opcodes[j].index] = x[o.index]}
<1>1. \A x : LastValue(c, x, i) = IF W(x) # {} THEN x[c.opcodes[Max(W(x))].value]
                                   ELSE x[c.opcodes[first].init[x[o.index] + 1]]
  BY DEF LastValue
<1>2. first \in 1..i-1 /\ c.opcodes[first].type = "MemoryInit" /\ i \in Nat /\ i <= Len(c.opcodes)
  BY OpcodeFacts, InitIs
<1>3. \A j \in 1..i : c.opcodes[j].type \in {"MemoryInit", "Read", "Write"} =>
        Studied(c, c.opcodes[j]) /\ w \notin c.opcodes[j].wires
  <2>1. \A j \in 1..i : j \in DOMAIN c.opcodes
    BY <1>2, OpcodeFacts
  <2> QED BY <2>1, OpcodeFacts DEF Unseen, InMemory, Studied
<1>4. \A j \in 1..i : IsAccess(c.opcodes[j]) =>
        /\ {c.opcodes[j].index, c.opcodes[j].value} \subseteq c.wires
        /\ b[c.opcodes[j].index] = a[c.opcodes[j].index] /\ b[c.opcodes[j].value] = a[c.opcodes[j].value]
  <2> SUFFICES ASSUME NEW j \in 1..i, IsAccess(c.opcodes[j])
               PROVE  /\ {c.opcodes[j].index, c.opcodes[j].value} \subseteq c.wires
                      /\ b[c.opcodes[j].index] = a[c.opcodes[j].index] /\ b[c.opcodes[j].value] = a[c.opcodes[j].value]
    OBVIOUS
  <2>1. Studied(c, c.opcodes[j]) /\ w \notin c.opcodes[j].wires
    BY <1>3 DEF IsAccess
  <2>2. {c.opcodes[j].index, c.opcodes[j].value} = c.opcodes[j].wires /\ c.opcodes[j].wires \subseteq c.wires
    BY <2>1, OpcodeWires
  <2> QED BY <2>1, <2>2
<1>5. o.index \in c.wires /\ b[o.index] = a[o.index] /\ a[o.index] \in Field
  BY <1>2, <1>4
<1>6. W(b) = W(a)
  BY <1>2, <1>4, <1>5 DEF IsAccess
<1>7. CASE W(a) # {}
  <2>1. W(a) \in SUBSET Int /\ IsFiniteSet(W(a))
    <3>1. W(a) \in SUBSET (first+1..i-1)
      OBVIOUS
    <3>2. first + 1 \in Int /\ i - 1 \in Int /\ first+1..i-1 \subseteq Int
      BY <1>2
    <3> HIDE DEF W, first
    <3>3. IsFiniteSet(first+1..i-1)
      BY <3>2, FS_Interval
    <3> QED BY <3>1, <3>2, <3>3, FS_Subset
  <2>2. Max(W(a)) \in W(a)
    BY <1>7, <2>1, MaxExists
  <2>3. Max(W(a)) \in 1..i /\ IsAccess(c.opcodes[Max(W(a))])
    <3> DEFINE j == Max(W(a))
    <3>1. j \in first+1..i-1 /\ c.opcodes[j].type = "Write"
      BY <2>2
    <3> HIDE DEF j, first
    <3>2. j \in 1..i
      BY <1>2, <3>1
    <3> QED BY <3>1, <3>2 DEF IsAccess, j
  <2> HIDE DEF W
  <2> QED BY <1>1, <1>4, <1>6, <1>7, <2>3
<1>8. CASE W(a) = {}
  <2> DEFINE s == c.opcodes[first].init
             k == a[o.index] + 1
  <2>1. s \in Seq(c.opcodes[first].wires) /\ w \notin c.opcodes[first].wires
        /\ c.opcodes[first].wires \subseteq c.wires
    <3>1. first \in 1..i
      <4> HIDE DEF first
      <4> QED BY <1>2
    <3>2. Studied(c, c.opcodes[first]) /\ w \notin c.opcodes[first].wires
      BY <1>2, <1>3, <3>1
    <3> QED BY <1>2, <3>2, OpcodeWires
  <2>2. k \in 1..Len(s)
    <3>1. a[o.index] \in Nat
      BY <1>5, CircuitsMeanWhatTheySay DEF Field
    <3>2. a[o.index] < Len(s) /\ Len(s) \in Nat
      BY <2>1
    <3> QED BY <3>1, <3>2
  <2>3. s[k] \in c.wires /\ s[k] # w
    BY <2>1, <2>2
  <2> HIDE DEF s, k, W
  <2>4. LastValue(c, b, i) = b[s[k]] /\ LastValue(c, a, i) = a[s[k]]
    BY <1>1, <1>5, <1>6, <1>8 DEF s, k
  <2> QED BY <2>3, <2>4
<1> QED BY <1>7, <1>8

(* An opcode that does not mention a wire does not notice its value, and a RANGE
   only that it is within its bits.                                           *)
LEMMA HoldsSame ==
  ASSUME NEW c \in Circuits, NEW o, Studied(c, o), NEW a \in [c.wires -> Field], AcirHolds(o, a),
         NEW w \in c.wires, Unseen(c, w), ~MentionedByBlackBox(c, w),
         NEW x \in Field, o.type = "RANGE" /\ w \in o.wires => x < 2^o.bits
  PROVE  IsAccess(o) \/ o.type = "MemoryInit" \/ AcirHolds(o, [a EXCEPT ![w] = x])
<1> DEFINE b == [a EXCEPT ![w] = x]
<1>0. MeansWhatItSays(c, o) /\ o.wires \subseteq c.wires
  BY OpcodeFacts, OpcodeWires
<1>1. \A v \in c.wires : b[v] = IF v = w THEN x ELSE a[v]
  OBVIOUS
<1>2. CASE w \notin o.wires
  <2>1. [v \in o.wires |-> b[v]] = [v \in o.wires |-> a[v]]
    BY <1>0, <1>1, <1>2
  <2> QED BY <2>1 DEF AcirHolds
<1>3. CASE w \in o.wires /\ o.type = "RANGE"
  <2> DEFINE r == [v \in o.wires |-> a[v]]
             s == [v \in o.wires |-> b[v]]
  <2>1. r \in o.accepts
    BY DEF AcirHolds
  <2>2. \A v \in o.wires : a[v] < 2^o.bits
    BY <1>0, <1>3, <2>1 DEF MeansWhatItSays
  <2>3. s \in [o.wires -> Field] /\ \A v \in o.wires : s[v] < 2^o.bits
    BY <1>0, <1>1, <1>3, <2>2
  <2>4. s \in o.accepts
    BY <1>0, <1>3, <2>3 DEF MeansWhatItSays
  <2> QED BY <2>4 DEF AcirHolds
<1>4. CASE w \in o.wires /\ o.type # "RANGE"
  BY <1>0, <1>4 DEF MeansWhatItSays, Unseen, Mentioning, Asserts, IsAssertZero, InMemory, MentionedByBlackBox,
                    IsAccess, Studied
<1> QED BY <1>2, <1>3, <1>4

LEMMA UnseenIsFree ==
  ASSUME NEW c \in Circuits, NEW w \in c.wires, Unseen(c, w), ~MentionedByBlackBox(c, w)
  PROVE  NeverPinned(c, w)
<1> SUFFICES ASSUME NEW a \in RunsOf[c], NEW x \in Field,
                    \A o \in Range(c.opcodes) : o.type = "RANGE" /\ w \in o.wires => x < 2^o.bits
             PROVE  IsRun(c, [a EXCEPT ![w] = x])
  BY DEF NeverPinned
<1> DEFINE b == [a EXCEPT ![w] = x]
<1>1. a \in [c.wires -> Field] /\ IsRun(c, a)
  BY RunType DEF RunOf
<1>2. b \in [c.wires -> Field] /\ \A v \in c.wires : v # w => b[v] = a[v]
  BY <1>1
<1>3. ASSUME NEW i \in DOMAIN c.opcodes, IsAccess(c.opcodes[i])
      PROVE  /\ InitOf(c, i) # 0
             /\ b[c.opcodes[i].index] < Len(c.opcodes[InitOf(c, i)].init)
             /\ c.opcodes[i].type = "Read" => b[c.opcodes[i].value] = LastValue(c, b, i)
  <2> DEFINE o == c.opcodes[i]
  <2>1. /\ InitOf(c, i) # 0 /\ a[o.index] < Len(c.opcodes[InitOf(c, i)].init)
        /\ o.type = "Read" => a[o.value] = LastValue(c, a, i)
    BY <1>1, <1>3 DEF IsRun
  <2>2. LastValue(c, b, i) = LastValue(c, a, i)
    <3> HIDE DEF b
    <3> QED BY <1>1, <1>2, <1>3, <2>1, LastValueSame
  <2>3. {o.index, o.value} \subseteq c.wires /\ w \notin {o.index, o.value}
    <3>1. Studied(c, o) /\ MeansWhatItSays(c, o)
      BY OpcodeFacts
    <3> QED BY <1>3, <3>1 DEF MeansWhatItSays, Unseen, InMemory, Studied, IsAccess
  <2> HIDE DEF b
  <2> QED BY <1>2, <2>1, <2>2, <2>3
<1>4. ASSUME NEW i \in DOMAIN c.opcodes, ~IsAccess(c.opcodes[i]), c.opcodes[i].type # "MemoryInit"
      PROVE  AcirHolds(c.opcodes[i], b)
  <2>1. AcirHolds(c.opcodes[i], a)
    BY <1>1, <1>4 DEF IsRun
  <2>2. Studied(c, c.opcodes[i])
    BY OpcodeFacts
  <2>3. c.opcodes[i].type = "RANGE" /\ w \in c.opcodes[i].wires => x < 2^c.opcodes[i].bits
    BY <2>2 DEF Studied
  <2> QED BY <1>1, <1>4, <2>1, <2>2, <2>3, HoldsSame
<1> HIDE DEF b
<1>5. IsRun(c, b)
  BY <1>3, <1>4 DEF IsRun
<1> QED BY <1>5 DEF b

(* A verdict of one of the two kinds is given to unseen wires only. *)
FreeVerdicts == {"BoundedNeverPinned", "Unconstrained"}

FreeInv ==
  /\ circuit \in Circuits
  /\ \A r \in candidates : r[1] \in circuit.wires /\ (r[2] \in FreeVerdicts => Unseen(circuit, r[1]))

LEMMA FreeVerdict ==
  ASSUME NEW c, NEW w, NEW M, NEW B, NEW N, VerdictOn(c, w, M, B, N) \in FreeVerdicts
  PROVE  Unseen(c, w)
BY DEF VerdictOn, FreeVerdicts, Unseen

LEMMA FreeStep == FreeInv /\ [Next]_vars => FreeInv'
<1> SUFFICES ASSUME FreeInv, [Next]_vars PROVE FreeInv'
  OBVIOUS
<1>1. CASE UNCHANGED <<circuit, candidates>>
  BY <1>1 DEF FreeInv
<1>2. CASE ReportHints
  <2> DEFINE verdict(w) == VerdictOn(circuit, w, circuit.wires \ determined, bounds, nonzero)
  <2>1. circuit' = circuit /\ circuit.hints \subseteq circuit.wires
    BY <1>2, CircuitsMeanWhatTheySay DEF ReportHints, given, FreeInv
  <2>2. ASSUME NEW r \in candidates'
        PROVE  r[1] \in circuit.wires /\ (r[2] \in FreeVerdicts => Unseen(circuit, r[1]))
    <3>1. PICK w \in circuit.hints : r = <<w, verdict(w)>>
      BY <1>2 DEF ReportHints
    <3>2. r[1] = w /\ r[2] = verdict(w)
      BY <3>1
    <3> QED BY <2>1, <3>2, FreeVerdict
  <2> QED BY <2>1, <2>2 DEF FreeInv
<1> QED BY <1>1, <1>2 DEF Next, vars, given, facts, CarryBounds, EndCarry, DeriveBounds, EndDerive, NarrowBounds,
                          EndNarrow, TakeGadgets, RefineByRead, RefineByAssert, RefineByNothing, Refine, EndRefine,
                          ReachFurther, EndReach

(* A hint that is reported as unconstrained, or as bounded and never pinned, can
   take every value within its ranges in every run of the circuit, whatever it
   is: unless a black box mentions the hint (explain.rs:55).                  *)
THEOREM FreeHintsAreFree == Spec => []NeverPinnedIsFree
<1>1. Init => FreeInv
  BY DEF Init, FreeInv
<1>2. FreeInv => NeverPinnedIsFree
  BY UnseenIsFree DEF FreeInv, NeverPinnedIsFree, FreeVerdicts
<1> QED BY <1>1, <1>2, FreeStep, PTL DEF Spec

-----------------------------------------------------------------------------
(* The bounds that hold in every run, if shifted copies stay below P: Proper(c)
   is closed under every rule that lowers or adds a bound.                    *)
BoundsIn(B, a) == \A w \in DOMAIN B : a[w] <= B[w]
BoundMaps(c) == UNION {[D -> Nat] : D \in SUBSET c.wires}
AtMost(c, w, v) == ShiftsStayBelow(c) => \A a \in RunsOf[c] : a[w] <= v
Proper(c) == {B \in BoundMaps(c) : ShiftsStayBelow(c) => \A a \in RunsOf[c] : BoundsIn(B, a)}

LEMMA ProperFacts ==
  ASSUME NEW c, NEW B \in Proper(c)
  PROVE  /\ DOMAIN B \in SUBSET c.wires /\ B \in [DOMAIN B -> Nat]
         /\ \A w \in DOMAIN B : w \in c.wires /\ B[w] \in Nat /\ AtMost(c, w, B[w])
         /\ ShiftsStayBelow(c) => \A a \in RunsOf[c] : BoundsIn(B, a)
<1>1. PICK D \in SUBSET c.wires : B \in [D -> Nat]
  BY DEF Proper, BoundMaps
<1>2. ShiftsStayBelow(c) => \A a \in RunsOf[c] : BoundsIn(B, a)
  BY DEF Proper
<1> QED BY <1>1, <1>2 DEF BoundsIn, AtMost

LEMMA ProperIs ==
  ASSUME NEW c, NEW D \in SUBSET c.wires, NEW B \in [D -> Nat], \A w \in D : AtMost(c, w, B[w])
  PROVE  B \in Proper(c)
BY DEF Proper, BoundMaps, BoundsIn, AtMost

LEMMA ModulusFacts == P \in Nat /\ P \in Int /\ P > 1 /\ P \in Nat \ {0}
BY CircuitsMeanWhatTheySay

(* A bound that holds may be noted. *)
LEMMA LowerFacts ==
  ASSUME NEW c, NEW B \in Proper(c), NEW w \in c.wires, NEW v \in Nat, AtMost(c, w, v)
  PROVE  Lower(B, w, v) \in Proper(c)
<1> DEFINE L == Lower(B, w, v)
           D == DOMAIN B \cup {w}
<1>1. D \in SUBSET c.wires
  BY ProperFacts
<1>2. L = [x \in D |-> IF x # w THEN B[x] ELSE IF w \in DOMAIN B THEN Min({B[w], v}) ELSE v]
  BY DEF Lower
<1>3. ASSUME NEW x \in D PROVE L[x] \in Nat /\ AtMost(c, x, L[x])
  <2>1. CASE x # w
    BY <1>2, <2>1, ProperFacts
  <2>2. CASE x = w /\ w \in DOMAIN B
    <3>1. B[w] \in Nat /\ AtMost(c, w, B[w])
      BY <2>2, ProperFacts
    <3>2. L[x] = Min({B[w], v})
      BY <1>2, <2>2
    <3> HIDE DEF L
    <3> DEFINE u == B[w]
    <3>3. u \in Int /\ v \in Int
      BY <3>1
    <3> HIDE DEF u
    <3>4. Min({u, v}) \in {u, v}
      BY <3>3, PairExtrema
    <3> QED BY <2>2, <3>1, <3>2, <3>4 DEF u
  <2>3. CASE x = w /\ w \notin DOMAIN B
    BY <1>2, <2>3
  <2> QED BY <2>1, <2>2, <2>3
<1>4. L \in [D -> Nat]
  BY <1>2, <1>3
<1> HIDE DEF L, D
<1>5. L \in Proper(c)
  BY <1>1, <1>3, <1>4, ProperIs
<1> QED BY <1>5 DEF L

-----------------------------------------------------------------------------
(* What RANGE, AND and XOR say of their wires. *)
LEMMA RunHolds ==
  ASSUME NEW c, NEW a, RunOf(c, a), NEW o, Studied(c, o), ~IsAccess(o), o.type # "MemoryInit"
  PROVE  /\ [w \in o.wires |-> a[w]] \in o.accepts
         /\ MeansWhatItSays(c, o) /\ o.wires \subseteq c.wires /\ a \in [c.wires -> Field]
<1>1. IsRun(c, a) /\ a \in [c.wires -> Field]
  BY RunType
<1>2. c \in Circuits
  BY DEF RunOf
<1>3. PICK i \in DOMAIN c.opcodes : o = c.opcodes[i]
  BY <1>2, OpcodeFacts
<1>4. AcirHolds(o, a)
  BY <1>1, <1>3 DEF IsRun
<1> QED BY <1>1, <1>2, <1>4, OpcodeFacts, OpcodeWires DEF AcirHolds

Ranged(c, w) == {o \in Range(c.opcodes) : o.type \in {"RANGE", "Bitwise"} /\ w \in o.wires}
Noted(c, w) == {2^o.bits - 1 : o \in Ranged(c, w)}

LEMMA RangedBound ==
  ASSUME NEW c \in Circuits, NEW w, NEW o \in Ranged(c, w)
  PROVE  /\ 2^o.bits - 1 \in Nat
         /\ \A a \in RunsOf[c] : a[w] <= 2^o.bits - 1
<1>1. Studied(c, o) /\ o.type \in {"RANGE", "Bitwise"} /\ w \in o.wires /\ ~IsAccess(o) /\ o.type # "MemoryInit"
  BY DEF Ranged, Studied, IsAccess
<1>2. MeansWhatItSays(c, o)
  BY <1>1, OpcodeFacts
<1>3. 2^o.bits \in Nat \ {0} /\ \A a \in o.accepts : \A v \in o.wires : a[v] < 2^o.bits
  BY <1>1, <1>2 DEF MeansWhatItSays
<1>4. ASSUME NEW a \in RunsOf[c] PROVE a[w] <= 2^o.bits - 1
  <2> DEFINE r == [v \in o.wires |-> a[v]]
  <2>1. r \in o.accepts /\ w \in c.wires /\ RunOf(c, a)
    BY <1>1, RunHolds DEF RunOf
  <2>2. r[w] < 2^o.bits /\ r[w] = a[w]
    BY <1>1, <1>3, <2>1
  <2>3. a[w] \in Nat
    BY <2>1, RunType
  <2> QED BY <1>3, <2>2, <2>3
<1> QED BY <1>3, <1>4

LEMMA NotedFacts ==
  ASSUME NEW c \in Circuits, NEW w, Noted(c, w) # {}
  PROVE  /\ Min(Noted(c, w)) \in Nat
         /\ \A a \in RunsOf[c] : a[w] <= Min(Noted(c, w))
<1>1. IsFiniteSet(Range(c.opcodes))
  <2>1. IsFiniteSet(DOMAIN c.opcodes)
    BY OpcodeFacts, FS_Interval
  <2>2. Range(c.opcodes) = {c.opcodes[i] : i \in DOMAIN c.opcodes}
    BY DEF Range
  <2> QED BY <2>1, <2>2, ImageFinite
<1> DEFINE R == Ranged(c, w)
           f == [o \in R |-> 2^o.bits - 1]
<1>2. IsFiniteSet(R)
  BY <1>1, FS_Subset DEF Ranged
<1>3. Noted(c, w) = {f[o] : o \in R}
  BY DEF Noted
<1>4. \A o \in R : f[o] \in Nat /\ f[o] = 2^o.bits - 1
  BY RangedBound
<1> DEFINE S == {f[o] : o \in R}
<1>5. IsFiniteSet(S)
  <2>1. DOMAIN f = R
    OBVIOUS
  <2> HIDE DEF f, R
  <2> QED BY <1>2, <2>1, ImageFinite
<1>6. S \in SUBSET Int /\ S # {}
  BY <1>3, <1>4
<1> HIDE DEF f
<1>7. Min(S) \in S
  <2> HIDE DEF S
  <2> QED BY <1>5, <1>6, MinExists
<1>8. PICK o \in R : Min(S) = f[o]
  BY <1>7
<1> HIDE DEF R, S
<1>9. Min(S) \in Nat /\ \A a \in RunsOf[c] : a[w] <= Min(S)
  BY <1>4, <1>8, RangedBound DEF R
<1> QED BY <1>3, <1>9 DEF S

LEMMA NotedIs ==
  ASSUME NEW c
  PROVE  NotedBounds(c) = [w \in {v \in c.wires : Noted(c, v) # {}} |-> Min(Noted(c, w))]
BY DEF NotedBounds, Noted, Ranged

LEMMA NotedProper ==
  ASSUME NEW c \in Circuits
  PROVE  /\ NotedBounds(c) \in Proper(c)
         /\ \A w \in DOMAIN NotedBounds(c) : w \in c.wires /\ NotedBounds(c)[w] \in Nat
                                            /\ \A a \in RunsOf[c] : a[w] <= NotedBounds(c)[w]
<1> DEFINE D == {v \in c.wires : Noted(c, v) # {}}
           B == [w \in D |-> Min(Noted(c, w))]
<1>1. D \in SUBSET c.wires
  OBVIOUS
<1>2. \A w \in D : w \in c.wires /\ B[w] \in Nat /\ \A a \in RunsOf[c] : a[w] <= B[w]
  BY NotedFacts
<1>3. B \in [D -> Nat] /\ DOMAIN B = D
  BY <1>2
<1>4. NotedBounds(c) = B
  BY NotedIs
<1> HIDE DEF B, D
<1>5. B \in Proper(c)
  BY <1>1, <1>2, <1>3, ProperIs DEF AtMost
<1> QED BY <1>2, <1>3, <1>4, <1>5

-----------------------------------------------------------------------------
(* An assertion of a circuit under study, and the terms of its expression in a run. *)
Asserted(c, o) == Studied(c, o) /\ IsAssertZero(o)

MulTerm(o, a) == [i \in DOMAIN o.mul |-> o.mul[i][1] * a[o.mul[i][2]] * a[o.mul[i][3]]]
LinTerm(o, a) == [i \in DOMAIN o.lin |-> o.lin[i][1] * a[o.lin[i][2]]]

LEMMA ExpressionFacts ==
  ASSUME NEW c, NEW o, Asserted(c, o)
  PROVE  /\ o.q \in Int
         /\ Len(o.mul) \in Nat /\ DOMAIN o.mul = 1..Len(o.mul) /\ IsFiniteSet(DOMAIN o.mul)
         /\ Len(o.lin) \in Nat /\ DOMAIN o.lin = 1..Len(o.lin) /\ IsFiniteSet(DOMAIN o.lin)
         /\ \A i \in DOMAIN o.mul : o.mul[i][1] \in Int /\ o.mul[i][2] \in c.wires /\ o.mul[i][3] \in c.wires
                                   /\ o.mul[i][2] \in o.wires /\ o.mul[i][3] \in o.wires
         /\ \A i \in DOMAIN o.lin : o.lin[i][1] \in Int /\ o.lin[i][2] \in c.wires /\ o.lin[i][2] \in o.wires
         /\ \A i, j \in DOMAIN o.lin : o.lin[i][2] = o.lin[j][2] => i = j
<1>1. MeansWhatItSays(c, o) /\ o.type = "AssertZero"
  BY OpcodeFacts DEF Asserted, Studied, IsAssertZero
<1>2. /\ o.mul \in Seq(Int \X o.wires \X o.wires) /\ o.lin \in Seq(Int \X o.wires) /\ o.q \in Int
      /\ \A i, j \in DOMAIN o.lin : o.lin[i][2] = o.lin[j][2] => i = j
      /\ o.wires \subseteq c.wires
  BY <1>1 DEF MeansWhatItSays
<1>3. /\ Len(o.mul) \in Nat /\ DOMAIN o.mul = 1..Len(o.mul)
      /\ Len(o.lin) \in Nat /\ DOMAIN o.lin = 1..Len(o.lin)
  BY <1>2
<1>4. IsFiniteSet(DOMAIN o.mul) /\ IsFiniteSet(DOMAIN o.lin)
  BY <1>3, FS_Interval
<1>5. \A i \in DOMAIN o.mul : o.mul[i][1] \in Int /\ o.mul[i][2] \in o.wires /\ o.mul[i][3] \in o.wires
  <2> TAKE i \in DOMAIN o.mul
  <2>1. o.mul[i] \in Int \X o.wires \X o.wires
    BY <1>2
  <2> QED BY <2>1
<1>6. \A i \in DOMAIN o.lin : o.lin[i][1] \in Int /\ o.lin[i][2] \in o.wires
  <2> TAKE i \in DOMAIN o.lin
  <2>1. o.lin[i] \in Int \X o.wires
    BY <1>2
  <2> QED BY <2>1
<1> QED BY <1>2, <1>3, <1>4, <1>5, <1>6

LEMMA TermTypes ==
  ASSUME NEW c, NEW o, Asserted(c, o), NEW a, RunOf(c, a)
  PROVE  /\ DOMAIN MulTerm(o, a) = DOMAIN o.mul /\ DOMAIN LinTerm(o, a) = DOMAIN o.lin
         /\ IntegerAt(DOMAIN o.mul, MulTerm(o, a)) /\ IntegerAt(DOMAIN o.lin, LinTerm(o, a))
<1>1. DOMAIN MulTerm(o, a) = DOMAIN o.mul /\ DOMAIN LinTerm(o, a) = DOMAIN o.lin
  BY DEF MulTerm, LinTerm
<1>2. ASSUME NEW i \in DOMAIN o.mul PROVE MulTerm(o, a)[i] \in Int
  <2>1. o.mul[i][1] \in Int /\ a[o.mul[i][2]] \in Int /\ a[o.mul[i][3]] \in Int
    BY ExpressionFacts, RunType
  <2> QED BY <2>1 DEF MulTerm
<1>3. ASSUME NEW i \in DOMAIN o.lin PROVE LinTerm(o, a)[i] \in Int
  <2>1. o.lin[i][1] \in Int /\ a[o.lin[i][2]] \in Int
    BY ExpressionFacts, RunType
  <2> QED BY <2>1 DEF LinTerm
<1> QED BY <1>1, <1>2, <1>3 DEF IntegerAt

LEMMA RunIsRoot ==
  ASSUME NEW c, NEW o, Asserted(c, o), NEW a, RunOf(c, a)
  PROVE  Evaluate(o.mul, o.lin, o.q, a) = 0
<1> DEFINE r == [w \in o.wires |-> a[w]]
<1>1. Studied(c, o) /\ o.type = "AssertZero" /\ ~IsAccess(o) /\ o.type # "MemoryInit"
  BY DEF Asserted, IsAssertZero, IsAccess
<1>2. r \in o.accepts /\ MeansWhatItSays(c, o)
  BY <1>1, RunHolds
<1>3. Evaluate(o.mul, o.lin, o.q, r) = 0
  <2> HIDE DEF r
  <2> QED BY <1>1, <1>2 DEF MeansWhatItSays
<1>4. ExpressionWires(o.mul, o.lin) \subseteq o.wires
  <2>1. /\ \A i \in DOMAIN o.mul : o.mul[i][2] \in o.wires /\ o.mul[i][3] \in o.wires
        /\ \A i \in DOMAIN o.lin : o.lin[i][2] \in o.wires
    BY ExpressionFacts
  <2> QED BY <2>1 DEF ExpressionWires
<1>5. \A w \in ExpressionWires(o.mul, o.lin) : r[w] = a[w]
  BY <1>4
<1> HIDE DEF r
<1> QED BY <1>3, <1>5, EvaluateSame

(* The constant, the products and the linear terms add up to a multiple of P. *)
LEMMA RunEquation ==
  ASSUME NEW c, NEW o, Asserted(c, o), NEW a, RunOf(c, a)
  PROVE  /\ SumFunctionOnSet(MulTerm(o, a), DOMAIN o.mul) \in Int
         /\ SumFunctionOnSet(LinTerm(o, a), DOMAIN o.lin) \in Int
         /\ SameModulo(P, o.q + SumFunctionOnSet(MulTerm(o, a), DOMAIN o.mul)
                            + SumFunctionOnSet(LinTerm(o, a), DOMAIN o.lin), 0)
<1> DEFINE mul == SumFunctionOnSet(MulTerm(o, a), DOMAIN o.mul)
           lin == SumFunctionOnSet(LinTerm(o, a), DOMAIN o.lin)
<1>1. mul \in Int /\ lin \in Int /\ o.q \in Int /\ P \in Nat \ {0}
  BY ExpressionFacts, TermTypes, SumType, ModulusFacts
<1>2. Evaluate(o.mul, o.lin, o.q, a) = 0
  BY RunIsRoot
<1>3. Evaluate(o.mul, o.lin, o.q, a) = (o.q + mul + lin) % P
  <2>1. Evaluate(o.mul, o.lin, o.q, a) = (o.q + SumSeq(MulTerm(o, a)) + SumSeq(LinTerm(o, a))) % P
    BY Zenon DEF Evaluate, MulTerm, LinTerm
  <2>2. /\ DOMAIN MulTerm(o, a) = DOMAIN o.mul /\ DOMAIN LinTerm(o, a) = DOMAIN o.lin
        /\ IntegerAt(DOMAIN o.mul, MulTerm(o, a)) /\ IntegerAt(DOMAIN o.lin, LinTerm(o, a))
    BY TermTypes
  <2>3. /\ DOMAIN o.mul = 1..Len(o.mul) /\ Len(o.mul) \in Nat
        /\ DOMAIN o.lin = 1..Len(o.lin) /\ Len(o.lin) \in Nat
    BY ExpressionFacts
  <2>4. MulTerm(o, a) \in [1..Len(o.mul) -> Int] /\ LinTerm(o, a) \in [1..Len(o.lin) -> Int]
    BY <2>2, <2>3 DEF IntegerAt, MulTerm, LinTerm
  <2>5. MulTerm(o, a) \in Seq(Int) /\ LinTerm(o, a) \in Seq(Int)
    BY <2>3, <2>4
  <2>6. /\ Len(MulTerm(o, a)) \in Nat /\ DOMAIN MulTerm(o, a) = 1..Len(MulTerm(o, a))
        /\ Len(LinTerm(o, a)) \in Nat /\ DOMAIN LinTerm(o, a) = 1..Len(LinTerm(o, a))
    BY <2>5
  <2>7. SumSeq(MulTerm(o, a)) = mul /\ SumSeq(LinTerm(o, a)) = lin
    BY <2>2, <2>6, SumOfSequence
  <2> QED BY <2>1, <2>7, Zenon
<1> HIDE DEF mul, lin
<1>4. (o.q + mul + lin) % P = 0 /\ o.q + mul + lin \in Int
  BY <1>1, <1>2, <1>3
<1>5. SameModulo(P, o.q + mul + lin, 0)
  BY <1>1, <1>4, ModuloZero
<1> QED BY <1>1, <1>5 DEF mul, lin

LEMMA MinusFacts ==
  ASSUME NEW v \in Int
  PROVE  /\ Minus(v) \in 0..P-1 /\ SameModulo(P, Minus(v), -v)
         /\ v % P \in 0..P-1 /\ SameModulo(P, v % P, v)
<1>1. P \in Nat \ {0} /\ v % P \in 0..P-1 /\ SameModulo(P, v % P, v)
  BY ModulusFacts, ModuloBasics
<1> DEFINE r == v % P
<1>2. r \in Int /\ P - r \in Int
  BY <1>1
<1> HIDE DEF r
<1>3. (P - r) % P \in 0..P-1 /\ SameModulo(P, (P - r) % P, P - r)
  BY <1>1, <1>2, ModuloBasics
<1>4. PICK k \in Int : r - v = k * P
  BY <1>1 DEF SameModulo, r
<1>5. SameModulo(P, P - r, -v)
  <2>1. (P - r) - (-v) = (1 - k) * P
    BY <1>1, <1>2, <1>4
  <2> QED BY <2>1, <1>4 DEF SameModulo
<1>6. SameModulo(P, (P - r) % P, -v)
  BY <1>1, <1>2, <1>3, <1>5, ModuloTransitive
<1>7. Minus(v) = (P - r) % P
  BY DEF Minus, r
<1> QED BY <1>1, <1>3, <1>6, <1>7

-----------------------------------------------------------------------------
(* The two wires of a shifted copy and its offset. *)
LEMMA CopyIs ==
  ASSUME NEW c, NEW o, Studied(c, o), NEW s \in Copies(o)
  PROVE  /\ Asserted(c, o) /\ o.mul = <<>> /\ Len(o.lin) = 2
         /\ \E k \in {1, 2} :
              /\ s = [larger |-> IF Small(o.q) THEN o.lin[3-k][2] ELSE o.lin[k][2],
                      smaller |-> IF Small(o.q) THEN o.lin[k][2] ELSE o.lin[3-k][2],
                      offset |-> IF Small(o.q) THEN o.q % P ELSE Minus(o.q)]
              /\ o.lin[k][1] % P = 1 /\ o.lin[3-k][1] % P = P - 1
<1>1. Asserted(c, o) /\ o.mul = <<>> /\ Len(o.lin) = 2
  BY DEF Copies, Asserted
<1>2. \E k \in {1, 2} :
        /\ s = [larger |-> IF Small(o.q) THEN o.lin[3-k][2] ELSE o.lin[k][2],
                smaller |-> IF Small(o.q) THEN o.lin[k][2] ELSE o.lin[3-k][2],
                offset |-> IF Small(o.q) THEN o.q % P ELSE Minus(o.q)]
        /\ o.lin[k][1] % P = 1 /\ o.lin[3-k][1] % P = P - 1
  <2> DEFINE copy(k) == [larger |-> IF Small(o.q) THEN o.lin[3-k][2] ELSE o.lin[k][2],
                         smaller |-> IF Small(o.q) THEN o.lin[k][2] ELSE o.lin[3-k][2],
                         offset |-> IF Small(o.q) THEN o.q % P ELSE Minus(o.q)]
             K == {l \in {1, 2} : /\ o.lin[l][1] % P = 1 /\ o.lin[3-l][1] % P = P - 1
                                  /\ Small(o.q) \/ Small(Minus(o.q))}
  <2>1. ~(~IsAssertZero(o) \/ o.mul # <<>> \/ Len(o.lin) # 2)
    BY <1>1 DEF Asserted
  <2>2. Copies(o) = {copy(k) : k \in K}
    BY <2>1, Zenon DEF Copies
  <2> HIDE DEF copy
  <2>3. PICK k \in K : s = copy(k)
    BY <2>2
  <2> QED BY <2>3 DEF copy
<1> QED BY <1>1, <1>2

LEMMA CopyTypes ==
  ASSUME NEW c, NEW o, Studied(c, o), NEW s \in Copies(o)
  PROVE  s.larger \in c.wires /\ s.smaller \in c.wires /\ s.offset \in Nat
<1>1. Asserted(c, o) /\ Len(o.lin) = 2
  BY CopyIs
<1>2. PICK k \in {1, 2} :
        s = [larger |-> IF Small(o.q) THEN o.lin[3-k][2] ELSE o.lin[k][2],
             smaller |-> IF Small(o.q) THEN o.lin[k][2] ELSE o.lin[3-k][2],
             offset |-> IF Small(o.q) THEN o.q % P ELSE Minus(o.q)]
  BY CopyIs
<1>3. DOMAIN o.lin = 1..2
  BY <1>1, ExpressionFacts
<1>4. k \in DOMAIN o.lin /\ 3 - k \in DOMAIN o.lin
  BY <1>3
<1>5. o.lin[k][2] \in c.wires /\ o.lin[3-k][2] \in c.wires
  BY <1>1, <1>4, ExpressionFacts
<1>6. o.q % P \in Nat /\ Minus(o.q) \in Nat
  <2> DEFINE q == o.q
  <2>1. q \in Int
    BY <1>1, ExpressionFacts
  <2> HIDE DEF q
  <2>2. Minus(q) \in 0..P-1 /\ q % P \in 0..P-1
    BY <2>1, MinusFacts
  <2> QED BY <2>2, ModulusFacts DEF q
<1> QED BY <1>2, <1>5, <1>6

(* A shifted copy is its origin plus the offset, over the integers. *)
LEMMA CopyEquation ==
  ASSUME NEW c, NEW o, Studied(c, o), NEW s \in Copies(o), NEW a, RunOf(c, a), ShiftsStayBelow(c)
  PROVE  /\ s.larger \in c.wires /\ s.smaller \in c.wires /\ s.offset \in Nat
         /\ a[s.larger] = a[s.smaller] + s.offset
<1>1. Asserted(c, o) /\ o.mul = <<>> /\ Len(o.lin) = 2
  BY CopyIs
<1>2. PICK k \in {1, 2} :
        /\ s = [larger |-> IF Small(o.q) THEN o.lin[3-k][2] ELSE o.lin[k][2],
                smaller |-> IF Small(o.q) THEN o.lin[k][2] ELSE o.lin[3-k][2],
                offset |-> IF Small(o.q) THEN o.q % P ELSE Minus(o.q)]
        /\ o.lin[k][1] % P = 1 /\ o.lin[3-k][1] % P = P - 1
  BY CopyIs
<1> DEFINE x == o.lin[k][1]
           y == o.lin[3-k][1]
           u == a[o.lin[k][2]]
           v == a[o.lin[3-k][2]]
           q == o.q
<1>3. k \in DOMAIN o.lin /\ 3 - k \in DOMAIN o.lin /\ k # 3 - k
  BY <1>1, ExpressionFacts
<1>4. /\ x \in Int /\ y \in Int /\ q \in Int
      /\ o.lin[k][2] \in c.wires /\ o.lin[3-k][2] \in c.wires
      /\ u \in Nat /\ v \in Nat /\ u < P /\ v < P
  BY <1>1, <1>3, ExpressionFacts, RunType
<1>5. SameModulo(P, x, 1) /\ SameModulo(P, y, -1)
  <2>1. SameModulo(P, x, x % P) /\ SameModulo(P, y, y % P)
    <3>1. \A z \in Int : SameModulo(P, z, z % P)
      <4> TAKE z \in Int
      <4> DEFINE r == z % P
      <4>1. r \in Int /\ SameModulo(P, r, z) /\ P \in Nat \ {0}
        BY ModulusFacts, ModuloBasics
      <4> HIDE DEF r
      <4>2. SameModulo(P, z, r)
        BY <4>1, ModuloSymmetric
      <4> QED BY <4>2 DEF r
    <3> QED BY <1>4, <3>1
  <2>2. SameModulo(P, P - 1, -1)
    <3>1. (P - 1) - (-1) = 1 * P
      BY ModulusFacts
    <3> QED BY <3>1 DEF SameModulo
  <2>3. SameModulo(P, y, P - 1)
    BY <1>2, <2>1
  <2>4. SameModulo(P, y, -1)
    BY <1>4, <2>2, <2>3, ModulusFacts, ModuloTransitive
  <2> QED BY <1>2, <2>1, <2>4
<1>6. SameModulo(P, q + x * u + y * v, 0)
  <2>1. SumFunctionOnSet(MulTerm(o, a), DOMAIN o.mul) = 0
    <3>1. DOMAIN o.mul = {} /\ IsFiniteSet({})
      BY <1>1, FS_EmptySet
    <3> QED BY <3>1, SumUnfold
  <2>2. SumFunctionOnSet(LinTerm(o, a), DOMAIN o.lin) = x * u + y * v
    <3> DEFINE f == LinTerm(o, a)
    <3>1. f[k] = x * u /\ f[3-k] = y * v
      BY <1>3 DEF LinTerm
    <3>2. f[k] \in Int /\ f[3-k] \in Int
      BY <1>4, <3>1
    <3> DEFINE m == 3 - k
    <3>3. DOMAIN o.lin = {k} \cup {m} /\ IsFiniteSet({k}) /\ m \notin {k}
      <4>1. DOMAIN o.lin = 1..2
        BY <1>1, ExpressionFacts
      <4>2. 1..2 = {k} \cup {m} /\ m \notin {k}
        OBVIOUS
      <4> QED BY <4>1, <4>2, FS_Singleton
    <3> HIDE DEF f, m
    <3>4. SumFunctionOnSet(f, {k}) = f[k]
      BY <3>2, SumOne
    <3>5. SumFunctionOnSet(f, {k} \cup {m}) = SumFunctionOnSet(f, {k}) + f[m]
      <4>1. \A z \in {k} \cup {m} : f[z] \in Int
        BY <3>2 DEF m
      <4> QED BY <3>3, <4>1, SumAdd
    <3>6. SumFunctionOnSet(f, DOMAIN o.lin) = x * u + f[m]
      BY <3>1, <3>3, <3>4, <3>5
    <3> QED BY <3>1, <3>6 DEF f, m
  <2> DEFINE m == SumFunctionOnSet(MulTerm(o, a), DOMAIN o.mul)
             l == SumFunctionOnSet(LinTerm(o, a), DOMAIN o.lin)
             xu == x * u
             yv == y * v
  <2>3. SameModulo(P, q + m + l, 0) /\ m = 0 /\ l = xu + yv
    BY <1>1, <2>1, <2>2, RunEquation
  <2>4. xu \in Int /\ yv \in Int
    BY <1>4
  <2> HIDE DEF m, l, xu, yv, q
  <2>5. q + m + l = q + xu + yv
    BY <1>4, <2>3, <2>4
  <2> QED BY <2>3, <2>5 DEF xu, yv
<1> HIDE DEF x, y, u, v
<1>7. SameModulo(P, q + u - v, 0)
  <2>1. SameModulo(P, u * x, u * 1) /\ SameModulo(P, v * y, v * (-1))
    <3>1. u \in Int /\ v \in Int /\ 1 \in Int /\ -1 \in Int
      BY <1>4
    <3>2. SameModulo(P, u * x, u * 1)
      BY <1>4, <1>5, <3>1, ModulusFacts, ModuloTimes
    <3>3. SameModulo(P, v * y, v * (-1))
      <4> DEFINE n == -1
      <4>1. n \in Int /\ SameModulo(P, y, n)
        BY <1>5
      <4> HIDE DEF n
      <4>2. SameModulo(P, v * y, v * n)
        BY <1>4, <3>1, <4>1, ModulusFacts, ModuloTimes
      <4> QED BY <4>2 DEF n
    <3> QED BY <3>2, <3>3
  <2>2. SameModulo(P, x * u, u) /\ SameModulo(P, y * v, -v)
    BY <1>4, <2>1
  <2>3. x * u \in Int /\ y * v \in Int
    BY <1>4
  <2> DEFINE xu == x * u
             yv == y * v
  <2>4. xu \in Int /\ yv \in Int /\ SameModulo(P, xu, u) /\ SameModulo(P, yv, -v) /\ SameModulo(P, q + xu + yv, 0)
    BY <1>6, <2>2, <2>3
  <2> HIDE DEF xu, yv
  <2>5. SameModulo(P, q + xu, q + u)
    <3>1. SameModulo(P, q, q) /\ u \in Int
      BY <1>4, ModulusFacts, ModuloBasics
    <3> QED BY <1>4, <2>4, <3>1, ModulusFacts, ModuloPlus
  <2>6. q + xu \in Int /\ q + u \in Int /\ q + xu + yv \in Int /\ q + u + (-v) \in Int /\ -v \in Int
    BY <1>4, <2>4
  <2>7. SameModulo(P, q + xu + yv, q + u + (-v))
    BY <2>4, <2>5, <2>6, ModulusFacts, ModuloPlus
  <2>8. SameModulo(P, q + u + (-v), 0)
    BY <2>4, <2>6, <2>7, ModulusFacts, ModuloSymmetric, ModuloTransitive
  <2>9. q + u + (-v) = q + u - v
    BY <1>4
  <2> QED BY <2>8, <2>9
<1>8. s.smaller \in DOMAIN NotedBounds(c) /\ NotedBounds(c)[s.smaller] + s.offset < P
  BY DEF ShiftsStayBelow, Studied
<1>9. NotedBounds(c)[s.smaller] \in Nat /\ a[s.smaller] <= NotedBounds(c)[s.smaller]
  BY <1>8, NotedProper DEF RunOf
<1>10. CASE Small(o.q)
  <2>1. s.larger = o.lin[3-k][2] /\ s.smaller = o.lin[k][2] /\ s.offset = q % P
    BY <1>2, <1>10
  <2> DEFINE r == q % P
  <2>2. r \in 0..P-1 /\ SameModulo(P, r, q)
    BY <1>4, MinusFacts
  <2>3. a[s.smaller] = u /\ a[s.larger] = v /\ s.offset = r
    BY <2>1 DEF u, v
  <2> HIDE DEF r, q
  <2>4. r \in Int /\ q \in Int /\ u + r < P
    BY <1>4, <1>8, <1>9, <2>2, <2>3, ModulusFacts
  <2>5. SameModulo(P, u + r, v)
    <3>1. PICK j \in Int : r - q = j * P
      BY <2>2 DEF SameModulo
    <3>2. PICK l \in Int : (q + u - v) - 0 = l * P
      BY <1>7 DEF SameModulo
    <3>3. (u + r) - v = (j + l) * P
      BY <1>4, <2>4, <3>1, <3>2, ModulusFacts
    <3> QED BY <3>3 DEF SameModulo
  <2>6. u + r = v
    <3> DEFINE t == u + r
    <3>1. t \in Int /\ v \in Int /\ t - v < P /\ v - t < P /\ SameModulo(P, t, v)
      BY <1>4, <2>2, <2>4, <2>5, ModulusFacts
    <3> HIDE DEF t
    <3>2. t = v
      BY <3>1, ModulusFacts, ModuloSmall
    <3> QED BY <3>2 DEF t
  <2>7. s.larger \in c.wires /\ s.smaller \in c.wires
    BY <1>4, <2>1
  <2> QED BY <2>2, <2>3, <2>6, <2>7
<1>11. CASE ~Small(o.q)
  <2>1. s.larger = o.lin[k][2] /\ s.smaller = o.lin[3-k][2] /\ s.offset = Minus(q)
    BY <1>2, <1>11
  <2> DEFINE r == Minus(q)
  <2>2. r \in 0..P-1 /\ SameModulo(P, r, -q)
    BY <1>4, MinusFacts
  <2>3. a[s.smaller] = v /\ a[s.larger] = u /\ s.offset = r
    BY <2>1 DEF u, v
  <2> HIDE DEF r, q
  <2>4. r \in Int /\ q \in Int /\ v + r < P
    BY <1>4, <1>8, <1>9, <2>2, <2>3, ModulusFacts
  <2>5. SameModulo(P, v + r, u)
    <3>1. PICK j \in Int : r - (-q) = j * P
      BY <2>2 DEF SameModulo
    <3>2. PICK l \in Int : (q + u - v) - 0 = l * P
      BY <1>7 DEF SameModulo
    <3>3. (v + r) - u = (j - l) * P
      BY <1>4, <2>4, <3>1, <3>2, ModulusFacts
    <3> QED BY <3>3 DEF SameModulo
  <2>6. v + r = u
    <3> DEFINE t == v + r
    <3>1. t \in Int /\ u \in Int /\ t - u < P /\ u - t < P /\ SameModulo(P, t, u)
      BY <1>4, <2>2, <2>4, <2>5, ModulusFacts
    <3> HIDE DEF t
    <3>2. t = u
      BY <3>1, ModulusFacts, ModuloSmall
    <3> QED BY <3>2 DEF t
  <2>7. s.larger \in c.wires /\ s.smaller \in c.wires
    BY <1>4, <2>1
  <2> QED BY <2>2, <2>3, <2>6, <2>7
<1> QED BY <1>10, <1>11

LEMMA CarriedProper ==
  ASSUME NEW c, NEW o, Studied(c, o), NEW B \in Proper(c)
  PROVE  Carried(o, B) \in Proper(c)
<1>1. CASE Copies(o) = {}
  BY <1>1 DEF Carried
<1>2. CASE Copies(o) # {}
  <2> DEFINE s == CHOOSE t \in Copies(o) : TRUE
             D == CarryDown(B, s)
  <2>1. s \in Copies(o)
    BY <1>2
  <2>2. Carried(o, B) = CarryUp(D, s)
    BY <1>2 DEF Carried
  <2>3. s.larger \in c.wires /\ s.smaller \in c.wires /\ s.offset \in Nat
    BY <2>1, CopyTypes
  <2>4. ShiftsStayBelow(c) => \A a \in RunsOf[c] : a[s.larger] = a[s.smaller] + s.offset
    BY <2>1, CopyEquation DEF RunOf, Studied
  <2>5. \A a \in RunsOf[c] : a[s.larger] \in Nat /\ a[s.smaller] \in Nat
    BY <2>3, RunType DEF RunOf, Studied
  <2> HIDE DEF s
  <2>6. D \in Proper(c)
    <3>1. CASE s.larger \notin DOMAIN B
      BY <3>1 DEF CarryDown
    <3>2. CASE s.larger \in DOMAIN B
      <4> DEFINE d == B[s.larger] - s.offset
                 v == Max({0, d})
      <4>1. B[s.larger] \in Nat /\ AtMost(c, s.larger, B[s.larger])
        BY <3>2, ProperFacts
      <4>2. d \in Int /\ 0 \in Int
        BY <2>3, <4>1
      <4>3. D = Lower(B, s.smaller, v)
        BY <3>2 DEF CarryDown
      <4> HIDE DEF d, D
      <4>4. v \in {0, d} /\ v >= 0 /\ v >= d
        BY <4>2, PairExtrema
      <4> HIDE DEF v
      <4>5. v \in Nat
        BY <4>2, <4>4
      <4>6. AtMost(c, s.smaller, v)
        <5> SUFFICES ASSUME ShiftsStayBelow(c), NEW a \in RunsOf[c] PROVE a[s.smaller] <= v
          BY DEF AtMost
        <5>1. a[s.larger] = a[s.smaller] + s.offset /\ a[s.larger] <= B[s.larger] /\ a[s.smaller] \in Nat
          BY <2>4, <2>5, <4>1 DEF AtMost
        <5> QED BY <2>3, <4>1, <4>2, <4>4, <4>5, <5>1 DEF d
      <4> QED BY <2>3, <4>3, <4>5, <4>6, LowerFacts
    <3> QED BY <3>1, <3>2
  <2> HIDE DEF D
  <2>7. CASE s.smaller \notin DOMAIN D
    BY <2>2, <2>6, <2>7 DEF CarryUp
  <2>8. CASE s.smaller \in DOMAIN D
    <3> DEFINE v == D[s.smaller] + s.offset
    <3>1. D[s.smaller] \in Nat /\ AtMost(c, s.smaller, D[s.smaller])
      BY <2>6, <2>8, ProperFacts
    <3>2. v \in Nat
      BY <2>3, <3>1
    <3>3. Carried(o, B) = Lower(D, s.larger, v)
      BY <2>2, <2>8 DEF CarryUp
    <3>4. AtMost(c, s.larger, v)
      <4> SUFFICES ASSUME ShiftsStayBelow(c), NEW a \in RunsOf[c] PROVE a[s.larger] <= v
        BY DEF AtMost
      <4>1. a[s.larger] = a[s.smaller] + s.offset /\ a[s.smaller] <= D[s.smaller] /\ a[s.smaller] \in Nat
        BY <2>4, <2>5, <3>1 DEF AtMost
      <4> QED BY <2>3, <3>1, <4>1
    <3> HIDE DEF v
    <3> QED BY <2>3, <2>6, <3>2, <3>3, <3>4, LowerFacts
  <2> QED BY <2>7, <2>8
<1> QED BY <1>1, <1>2

-----------------------------------------------------------------------------
(* A wire as the sum of the other terms, for the values or the bounds f. *)
Gains(o, i, f) == [j \in DOMAIN o.mul |-> Signed(o, i, o.mul[j][1]) * f[o.mul[j][2]] * f[o.mul[j][3]]]
Others(o, i, f) == [j \in Rest(o, i) |-> Signed(o, i, o.lin[j][1]) * f[o.lin[j][2]]]

Naturals(o, i, f) ==
  /\ \A j \in DOMAIN o.mul : f[o.mul[j][2]] \in Nat /\ f[o.mul[j][3]] \in Nat
  /\ \A j \in Rest(o, i) : f[o.lin[j][2]] \in Nat

Below(o, i, f, g) ==
  /\ \A j \in DOMAIN o.mul : f[o.mul[j][2]] <= g[o.mul[j][2]] /\ f[o.mul[j][3]] <= g[o.mul[j][3]]
  /\ \A j \in Rest(o, i) : f[o.lin[j][2]] <= g[o.lin[j][2]]

LEMMA TimesMonotone ==
  ASSUME NEW k \in Nat, NEW x \in Nat, NEW y \in Nat, x <= y
  PROVE  k * x \in Nat /\ k * y \in Nat /\ k * x <= k * y
<1>1. PICK d \in Nat : y = x + d
  <2>1. y - x \in Nat /\ y = x + (y - x)
    OBVIOUS
  <2> QED BY <2>1
<1>2. k * x \in Nat /\ k * d \in Nat /\ k * y \in Nat
  BY <1>1
<1>3. k * y = k * x + k * d
  BY <1>1
<1> QED BY <1>2, <1>3

LEMMA ProductMonotone ==
  ASSUME NEW k \in Nat, NEW x \in Nat, NEW y \in Nat, NEW u \in Nat, NEW v \in Nat, x <= u, y <= v
  PROVE  k * x * y \in Nat /\ k * u * v \in Nat /\ k * x * y <= k * u * v
<1> DEFINE kx == k * x
           ku == k * u
<1>1. kx \in Nat /\ ku \in Nat /\ kx <= ku
  BY TimesMonotone
<1> HIDE DEF kx, ku
<1>2. kx * y \in Nat /\ kx * v \in Nat /\ kx * y <= kx * v
  BY <1>1, TimesMonotone
<1>3. v * kx \in Nat /\ v * ku \in Nat /\ v * kx <= v * ku
  BY <1>1, TimesMonotone
<1>4. v * kx = kx * v /\ v * ku = ku * v
  BY <1>1
<1>5. kx * y <= ku * v /\ kx * y \in Nat /\ ku * v \in Nat
  <2> DEFINE A == kx * y
             b == kx * v
             C == ku * v
  <2>1. A \in Nat /\ b \in Nat /\ C \in Nat /\ A <= b /\ b <= C
    BY <1>2, <1>3, <1>4
  <2> HIDE DEF A, b, C
  <2>2. A <= C
    BY <2>1
  <2> QED BY <2>1, <2>2 DEF A, C
<1> QED BY <1>5 DEF kx, ku

LEMMA SumNatural ==
  ASSUME NEW S, IsFiniteSet(S), NEW f, \A x \in S : f[x] \in Nat
  PROVE  SumFunctionOnSet(f, S) \in Nat
<1> DEFINE z == [x \in S |-> 0]
<1>1. IntegerAt(S, f) /\ IntegerAt(S, z) /\ \A x \in S : z[x] = 0 /\ z[x] <= f[x]
  BY DEF IntegerAt
<1> HIDE DEF z
<1>2. SumFunctionOnSet(z, S) = 0
  BY <1>1, SumZero
<1>3. SumFunctionOnSet(z, S) <= SumFunctionOnSet(f, S) /\ SumFunctionOnSet(f, S) \in Int
  BY <1>1, SumMonotone, SumType
<1> QED BY <1>2, <1>3

(* The sign that brings the wire to the other side. *)
Sign(o, i) == IF o.lin[i][1] % P = 1 THEN -1 ELSE 1
IsSource(o, i) == i \in DOMAIN o.lin /\ o.lin[i][1] % P \in {1, P - 1}

LEMMA SignedFacts ==
  ASSUME NEW o, NEW i, NEW v \in Int
  PROVE  /\ Signed(o, i, v) \in 0..P-1 /\ Signed(o, i, v) \in Nat
         /\ Sign(o, i) \in {-1, 1}
         /\ SameModulo(P, Signed(o, i, v), Sign(o, i) * v)
<1>1. CASE o.lin[i][1] % P = 1
  <2>1. Signed(o, i, v) = Minus(v) /\ Sign(o, i) = -1
    BY <1>1 DEF Signed, Sign
  <2>2. -1 * v = -v
    OBVIOUS
  <2> QED BY <2>1, <2>2, MinusFacts, ModulusFacts
<1>2. CASE o.lin[i][1] % P # 1
  <2>1. Signed(o, i, v) = v % P /\ Sign(o, i) = 1
    BY <1>2 DEF Signed, Sign
  <2>2. Sign(o, i) * v = v
    BY <2>1
  <2> DEFINE r == v % P
  <2>3. r \in 0..P-1 /\ SameModulo(P, r, v)
    BY MinusFacts
  <2>4. Signed(o, i, v) = r
    BY <2>1
  <2> HIDE DEF r
  <2> QED BY <2>1, <2>2, <2>3, <2>4, ModulusFacts
<1> QED BY <1>1, <1>2

LEMMA SourceSign ==
  ASSUME NEW o, NEW i, IsSource(o, i), o.lin[i][1] \in Int
  PROVE  SameModulo(P, Sign(o, i) * o.lin[i][1], -1)
<1> DEFINE x == o.lin[i][1]
           r == x % P
<1>1. r \in Int /\ SameModulo(P, r, x) /\ r \in {1, P - 1}
  BY MinusFacts DEF IsSource
<1>2. PICK k \in Int : r - x = k * P
  BY <1>1 DEF SameModulo
<1>3. Sign(o, i) = IF r = 1 THEN -1 ELSE 1
  BY DEF Sign
<1>4. x \in Int
  OBVIOUS
<1> HIDE DEF x, r
<1>5. CASE r = 1
  <2>1. -1 * x - (-1) = k * P
    BY <1>1, <1>2, <1>4, <1>5, ModulusFacts
  <2> QED BY <1>3, <1>5, <2>1 DEF SameModulo, x
<1>6. CASE r # 1
  <2>1. 1 * x - (-1) = (1 - k) * P
    BY <1>1, <1>2, <1>4, <1>6, ModulusFacts
  <2>2. 1 - k \in Int
    BY <1>2
  <2> QED BY <1>3, <1>6, <2>1, <2>2 DEF SameModulo, x
<1> QED BY <1>5, <1>6

LEMMA TotalIs ==
  ASSUME NEW c, NEW o, Asserted(c, o), NEW i \in DOMAIN o.lin, NEW f
  PROVE  /\ Total(o, i, f) = Signed(o, i, o.q) + SumFunctionOnSet(Gains(o, i, f), DOMAIN o.mul)
                                               + SumFunctionOnSet(Others(o, i, f), Rest(o, i))
         /\ IsFiniteSet(DOMAIN o.mul) /\ IsFiniteSet(Rest(o, i)) /\ Rest(o, i) = DOMAIN o.lin \ {i}
<1>1. DOMAIN Gains(o, i, f) = DOMAIN o.mul /\ DOMAIN Others(o, i, f) = Rest(o, i)
  BY DEF Gains, Others
<1>2. Total(o, i, f) = Signed(o, i, o.q) + SumFunction(Gains(o, i, f)) + SumFunction(Others(o, i, f))
  BY Zenon DEF Total, Gains, Others
<1>3. /\ SumFunction(Gains(o, i, f)) = SumFunctionOnSet(Gains(o, i, f), DOMAIN o.mul)
      /\ SumFunction(Others(o, i, f)) = SumFunctionOnSet(Others(o, i, f), Rest(o, i))
  BY <1>1, Zenon DEF SumFunction
<1>4. Rest(o, i) = DOMAIN o.lin \ {i}
  BY ExpressionFacts DEF Rest
<1>5. IsFiniteSet(DOMAIN o.mul) /\ IsFiniteSet(DOMAIN o.lin)
  BY ExpressionFacts
<1>6. IsFiniteSet(Rest(o, i))
  BY <1>4, <1>5, FS_Subset
<1> QED BY <1>2, <1>3, <1>4, <1>5, <1>6

LEMMA GainTypes ==
  ASSUME NEW c, NEW o, Asserted(c, o), NEW i \in DOMAIN o.lin, NEW f, Naturals(o, i, f)
  PROVE  /\ \A j \in DOMAIN o.mul : Gains(o, i, f)[j] \in Nat
         /\ \A j \in Rest(o, i) : Others(o, i, f)[j] \in Nat
         /\ IntegerAt(DOMAIN o.mul, Gains(o, i, f)) /\ IntegerAt(Rest(o, i), Others(o, i, f))
<1>1. ASSUME NEW j \in DOMAIN o.mul PROVE Gains(o, i, f)[j] \in Nat
  <2> DEFINE s == Signed(o, i, o.mul[j][1])
             x == f[o.mul[j][2]]
             y == f[o.mul[j][3]]
  <2>1. s \in Nat /\ x \in Nat /\ y \in Nat
    BY ExpressionFacts, SignedFacts DEF Naturals
  <2>2. Gains(o, i, f)[j] = s * x * y
    BY DEF Gains
  <2> HIDE DEF s, x, y
  <2> QED BY <2>1, <2>2, ProductMonotone
<1>2. ASSUME NEW j \in Rest(o, i) PROVE Others(o, i, f)[j] \in Nat
  <2> DEFINE s == Signed(o, i, o.lin[j][1])
             x == f[o.lin[j][2]]
  <2>1. s \in Nat /\ x \in Nat
    BY ExpressionFacts, SignedFacts DEF Naturals, Rest
  <2>2. Others(o, i, f)[j] = s * x
    BY DEF Others
  <2> HIDE DEF s, x
  <2> QED BY <2>1, <2>2, TimesMonotone
<1> QED BY <1>1, <1>2 DEF IntegerAt

LEMMA TotalType ==
  ASSUME NEW c, NEW o, Asserted(c, o), NEW i \in DOMAIN o.lin, NEW f, Naturals(o, i, f)
  PROVE  Total(o, i, f) \in Nat /\ Signed(o, i, o.q) \in Nat /\ Signed(o, i, o.q) <= Total(o, i, f)
<1> DEFINE q == Signed(o, i, o.q)
           M == SumFunctionOnSet(Gains(o, i, f), DOMAIN o.mul)
           L == SumFunctionOnSet(Others(o, i, f), Rest(o, i))
<1>1. Total(o, i, f) = q + M + L /\ IsFiniteSet(DOMAIN o.mul) /\ IsFiniteSet(Rest(o, i))
  BY TotalIs
<1>2. q \in Nat
  BY ExpressionFacts, SignedFacts
<1>3. /\ \A j \in DOMAIN o.mul : Gains(o, i, f)[j] \in Nat
      /\ \A j \in Rest(o, i) : Others(o, i, f)[j] \in Nat
      /\ IntegerAt(DOMAIN o.mul, Gains(o, i, f)) /\ IntegerAt(Rest(o, i), Others(o, i, f))
  BY GainTypes
<1>4. M \in Nat
  BY <1>1, <1>3, SumNatural
<1>5. L \in Nat
  BY <1>1, <1>3, SumNatural
<1> HIDE DEF q, M, L
<1>6. q + M + L \in Nat /\ q <= q + M + L
  BY <1>2, <1>4, <1>5
<1> QED BY <1>1, <1>2, <1>6 DEF q

LEMMA TotalMonotone ==
  ASSUME NEW c, NEW o, Asserted(c, o), NEW i \in DOMAIN o.lin, NEW f, Naturals(o, i, f),
         NEW g, Naturals(o, i, g), Below(o, i, f, g)
  PROVE  Total(o, i, f) <= Total(o, i, g)
<1> DEFINE q == Signed(o, i, o.q)
           M(e) == SumFunctionOnSet(Gains(o, i, e), DOMAIN o.mul)
           L(e) == SumFunctionOnSet(Others(o, i, e), Rest(o, i))
<1>1. /\ Total(o, i, f) = q + M(f) + L(f) /\ Total(o, i, g) = q + M(g) + L(g)
      /\ IsFiniteSet(DOMAIN o.mul) /\ IsFiniteSet(Rest(o, i))
  BY TotalIs
<1>2. q \in Nat
  BY ExpressionFacts, SignedFacts
<1>3. /\ IntegerAt(DOMAIN o.mul, Gains(o, i, f)) /\ IntegerAt(Rest(o, i), Others(o, i, f))
      /\ IntegerAt(DOMAIN o.mul, Gains(o, i, g)) /\ IntegerAt(Rest(o, i), Others(o, i, g))
  BY GainTypes
<1>4. ASSUME NEW j \in DOMAIN o.mul PROVE Gains(o, i, f)[j] <= Gains(o, i, g)[j]
  <2> DEFINE s == Signed(o, i, o.mul[j][1])
             x == f[o.mul[j][2]]
             y == f[o.mul[j][3]]
             u == g[o.mul[j][2]]
             v == g[o.mul[j][3]]
  <2>1. s \in Nat
    BY ExpressionFacts, SignedFacts
  <2>2. x \in Nat /\ y \in Nat /\ u \in Nat /\ v \in Nat /\ x <= u /\ y <= v
    BY DEF Naturals, Below
  <2>3. Gains(o, i, f)[j] = s * x * y /\ Gains(o, i, g)[j] = s * u * v
    BY DEF Gains
  <2> HIDE DEF s, x, y, u, v
  <2> QED BY <2>1, <2>2, <2>3, ProductMonotone
<1>5. ASSUME NEW j \in Rest(o, i) PROVE Others(o, i, f)[j] <= Others(o, i, g)[j]
  <2> DEFINE s == Signed(o, i, o.lin[j][1])
             x == f[o.lin[j][2]]
             u == g[o.lin[j][2]]
  <2>1. s \in Nat
    BY ExpressionFacts, SignedFacts DEF Rest
  <2>2. x \in Nat /\ u \in Nat /\ x <= u
    BY DEF Naturals, Below
  <2>3. Others(o, i, f)[j] = s * x /\ Others(o, i, g)[j] = s * u
    BY DEF Others
  <2> HIDE DEF s, x, u
  <2> QED BY <2>1, <2>2, <2>3, TimesMonotone
<1>6. M(f) \in Int /\ M(g) \in Int /\ L(f) \in Int /\ L(g) \in Int
  BY <1>1, <1>3, SumType
<1>7. M(f) <= M(g)
  BY <1>1, <1>3, <1>4, SumMonotone
<1>8. L(f) <= L(g)
  BY <1>1, <1>3, <1>5, SumMonotone
<1> DEFINE mf == M(f)
           mg == M(g)
           lf == L(f)
           lg == L(g)
<1>9. q + mf + lf <= q + mg + lg
  <2>1. mf \in Int /\ mg \in Int /\ lf \in Int /\ lg \in Int /\ mf <= mg /\ lf <= lg
    BY <1>6, <1>7, <1>8
  <2> HIDE DEF q, mf, mg, lf, lg
  <2> QED BY <1>2, <2>1
<1> QED BY <1>1, <1>9

(* The equation of a run, solved for the wire. *)
LEMMA TotalCongruent ==
  ASSUME NEW c, NEW o, Asserted(c, o), NEW i, IsSource(o, i), NEW a, RunOf(c, a)
  PROVE  /\ Naturals(o, i, a) /\ a[o.lin[i][2]] \in Nat /\ a[o.lin[i][2]] < P
         /\ SameModulo(P, Total(o, i, a), a[o.lin[i][2]])
<1>0. i \in DOMAIN o.lin /\ P \in Nat \ {0} /\ P \in Int
  BY ModulusFacts DEF IsSource
<1>1. Naturals(o, i, a)
  BY ExpressionFacts, RunType DEF Naturals, Rest
<1> DEFINE e == Sign(o, i)
           x == a[o.lin[i][2]]
           l == o.lin[i][1]
           q == o.q
           Q == Signed(o, i, q)
           M == SumFunctionOnSet(Gains(o, i, a), DOMAIN o.mul)
           L == SumFunctionOnSet(Others(o, i, a), Rest(o, i))
           m == SumFunctionOnSet(MulTerm(o, a), DOMAIN o.mul)
           all == SumFunctionOnSet(LinTerm(o, a), DOMAIN o.lin)
           r == SumFunctionOnSet(LinTerm(o, a), Rest(o, i))
<1>2. /\ Total(o, i, a) = Q + M + L /\ IsFiniteSet(DOMAIN o.mul) /\ IsFiniteSet(Rest(o, i))
      /\ Rest(o, i) = DOMAIN o.lin \ {i} /\ IsFiniteSet(DOMAIN o.lin)
  BY <1>0, TotalIs, ExpressionFacts
<1>3. x \in Nat /\ x < P /\ l \in Int /\ q \in Int
  BY <1>0, ExpressionFacts, RunType
<1>4. e \in {-1, 1} /\ Q \in Nat /\ SameModulo(P, Q, e * q)
  BY <1>3, SignedFacts
<1>5. m \in Int /\ all \in Int /\ SameModulo(P, q + m + all, 0)
  BY RunEquation
<1>6. r \in Int /\ all = l * x + r
  <2>1. IntegerAt(DOMAIN o.lin, LinTerm(o, a))
    BY TermTypes
  <2>2. SumFunctionOnSet(LinTerm(o, a), DOMAIN o.lin \ {i}) \in Int
        /\ all = LinTerm(o, a)[i] + SumFunctionOnSet(LinTerm(o, a), DOMAIN o.lin \ {i})
    BY <1>0, <1>2, <2>1, SumTake
  <2>3. LinTerm(o, a)[i] = l * x
    BY <1>0 DEF LinTerm
  <2> QED BY <1>2, <2>2, <2>3
<1>7. IntegerAt(DOMAIN o.mul, Gains(o, i, a)) /\ IntegerAt(Rest(o, i), Others(o, i, a))
  BY <1>0, <1>1, GainTypes
<1>8. M \in Int /\ SameModulo(P, M, e * m)
  <2> DEFINE h == [j \in DOMAIN o.mul |-> e * MulTerm(o, a)[j]]
  <2>1. IntegerAt(DOMAIN o.mul, MulTerm(o, a))
    BY TermTypes
  <2>2. IntegerAt(DOMAIN o.mul, h) /\ \A j \in DOMAIN o.mul : h[j] = e * MulTerm(o, a)[j]
    BY <1>4, <2>1 DEF IntegerAt
  <2>3. ASSUME NEW j \in DOMAIN o.mul PROVE SameModulo(P, Gains(o, i, a)[j], h[j])
    <3> DEFINE k == o.mul[j][1]
               s == Signed(o, i, k)
               u == a[o.mul[j][2]]
               v == a[o.mul[j][3]]
    <3>1. k \in Int /\ u \in Int /\ v \in Int
      BY ExpressionFacts, RunType
    <3>2. s \in Int /\ SameModulo(P, s, e * k)
      BY <3>1, SignedFacts
    <3>3. Gains(o, i, a)[j] = s * u * v /\ h[j] = e * (k * u * v)
      BY DEF Gains, MulTerm
    <3> HIDE DEF k, s, u, v, e, h
    <3>4. SameModulo(P, (u * v) * s, (u * v) * (e * k))
      <4>1. u * v \in Int /\ e * k \in Int
        BY <1>4, <3>1
      <4> QED BY <1>0, <3>2, <4>1, ModuloTimes
    <3>5. (u * v) * s = s * u * v
      BY <3>1, <3>2
    <3>6. (u * v) * (e * k) = e * (k * u * v)
      <4>1. CASE e = 1
        BY <3>1, <4>1
      <4>2. CASE e = -1
        BY <3>1, <4>2
      <4> QED BY <1>4, <4>1, <4>2
    <3> QED BY <3>3, <3>4, <3>5, <3>6
  <2> HIDE DEF h, e
  <2>4. SameModulo(P, M, SumFunctionOnSet(h, DOMAIN o.mul))
    BY <1>0, <1>2, <1>7, <2>2, <2>3, SumModulo
  <2>5. e \in Int
    BY <1>4
  <2>6. SumFunctionOnSet(h, DOMAIN o.mul) = e * m
    BY <1>2, <2>1, <2>2, <2>5, SumTimes
  <2>7. M \in Int
    BY <1>2, <1>7, SumType
  <2> QED BY <2>4, <2>6, <2>7
<1>9. L \in Int /\ SameModulo(P, L, e * r)
  <2> DEFINE h == [j \in Rest(o, i) |-> e * LinTerm(o, a)[j]]
  <2>1. IntegerAt(Rest(o, i), LinTerm(o, a))
    BY <1>2, TermTypes DEF IntegerAt
  <2>2. IntegerAt(Rest(o, i), h) /\ \A j \in Rest(o, i) : h[j] = e * LinTerm(o, a)[j]
    BY <1>4, <2>1 DEF IntegerAt
  <2>3. ASSUME NEW j \in Rest(o, i) PROVE SameModulo(P, Others(o, i, a)[j], h[j])
    <3> DEFINE k == o.lin[j][1]
               s == Signed(o, i, k)
               u == a[o.lin[j][2]]
    <3>0. j \in DOMAIN o.lin
      BY <1>2
    <3>1. k \in Int /\ u \in Int
      BY <3>0, ExpressionFacts, RunType
    <3>2. s \in Int /\ SameModulo(P, s, e * k)
      BY <3>1, SignedFacts
    <3>3. Others(o, i, a)[j] = s * u /\ h[j] = e * (k * u)
      BY <3>0 DEF Others, LinTerm
    <3> HIDE DEF k, s, u, e, h
    <3>4. SameModulo(P, u * s, u * (e * k))
      <4>1. e * k \in Int
        BY <1>4, <3>1
      <4> QED BY <1>0, <3>1, <3>2, <4>1, ModuloTimes
    <3>5. u * s = s * u
      BY <3>1, <3>2
    <3>6. u * (e * k) = e * (k * u)
      <4>1. CASE e = 1
        BY <3>1, <4>1
      <4>2. CASE e = -1
        BY <3>1, <4>2
      <4> QED BY <1>4, <4>1, <4>2
    <3> QED BY <3>3, <3>4, <3>5, <3>6
  <2> HIDE DEF h, e
  <2>4. SameModulo(P, L, SumFunctionOnSet(h, Rest(o, i)))
    BY <1>0, <1>2, <1>7, <2>2, <2>3, SumModulo
  <2>5. e \in Int
    BY <1>4
  <2>6. SumFunctionOnSet(h, Rest(o, i)) = e * r
    BY <1>2, <2>1, <2>2, <2>5, SumTimes
  <2>7. L \in Int
    BY <1>2, <1>7, SumType
  <2> QED BY <2>4, <2>6, <2>7
<1>10. SameModulo(P, e * l, -1)
  BY <1>3, SourceSign
<1> HIDE DEF e, x, l, q, Q, M, L, m, all, r
<1>11. PICK k1 \in Int : Q - e * q = k1 * P
  BY <1>4 DEF SameModulo
<1>12. PICK k2 \in Int : M - e * m = k2 * P
  BY <1>8 DEF SameModulo
<1>13. PICK k3 \in Int : L - e * r = k3 * P
  BY <1>9 DEF SameModulo
<1>14. PICK k4 \in Int : (q + m + all) - 0 = k4 * P
  BY <1>5 DEF SameModulo
<1>15. PICK k5 \in Int : e * l - (-1) = k5 * P
  BY <1>10 DEF SameModulo
<1> DEFINE y == l * x
           ey == e * y
<1>16. y \in Int /\ ey = x * (k5 * P) - x
  <2>1. y \in Int
    BY <1>3
  <2>2. e * l = k5 * P - 1
    <3>1. e * l \in Int /\ k5 * P \in Int
      BY <1>0, <1>3, <1>4, <1>15
    <3> QED BY <1>15, <3>1
  <2>3. ey = x * (e * l)
    <3>1. CASE e = 1
      BY <1>3, <3>1
    <3>2. CASE e = -1
      BY <1>3, <3>2
    <3> QED BY <1>4, <3>1, <3>2
  <2> DEFINE p == k5 * P
  <2>4. p \in Int
    BY <1>0, <1>15
  <2> HIDE DEF p
  <2>5. x * (p - 1) = x * p - x
    BY <1>3, <2>4
  <2> QED BY <2>1, <2>2, <2>3, <2>5 DEF p
<1>17. q + m + y + r = k4 * P
  BY <1>3, <1>5, <1>6, <1>14, <1>16
<1> HIDE DEF y
<1>18. (Q + M + L) - x = (k1 + k2 + k3 + e * k4 - x * k5) * P
  <2> DEFINE A == k1 * P
             B == k2 * P
             C == k3 * P
             D == k4 * P
             E == x * (k5 * P)
  <2>1. A \in Int /\ B \in Int /\ C \in Int /\ D \in Int /\ E \in Int
    BY <1>0, <1>3, <1>11, <1>12, <1>13, <1>14, <1>15
  <2>2. Q - e * q = A /\ M - e * m = B /\ L - e * r = C /\ q + m + y + r = D /\ e * y = E - x
    BY <1>11, <1>12, <1>13, <1>16, <1>17
  <2>3. (Q + M + L) - x = A + B + C + e * D - E
    <3> HIDE DEF A, B, C, D, E
    <3>1. CASE e = 1
      BY <1>3, <1>4, <1>5, <1>6, <1>8, <1>9, <1>16, <2>1, <2>2, <3>1
    <3>2. CASE e = -1
      BY <1>3, <1>4, <1>5, <1>6, <1>8, <1>9, <1>16, <2>1, <2>2, <3>2
    <3> QED BY <1>4, <3>1, <3>2
  <2>4. A + B + C + e * D - E = (k1 + k2 + k3 + e * k4 - x * k5) * P
    <3>1. E = (x * k5) * P
      BY <1>0, <1>3, <1>15
    <3> DEFINE n == x * k5
    <3>2. n \in Int
      BY <1>3, <1>15
    <3> HIDE DEF n
    <3>3. CASE e = 1
      BY <1>0, <1>11, <1>12, <1>13, <1>14, <3>1, <3>2, <3>3 DEF n
    <3>4. CASE e = -1
      BY <1>0, <1>11, <1>12, <1>13, <1>14, <3>1, <3>2, <3>4 DEF n
    <3> QED BY <1>4, <3>3, <3>4
  <2> QED BY <2>3, <2>4
<1>19. k1 + k2 + k3 + e * k4 - x * k5 \in Int
  BY <1>3, <1>4, <1>11, <1>12, <1>13, <1>14, <1>15
<1>20. SameModulo(P, Q + M + L, x)
  BY <1>18, <1>19 DEF SameModulo
<1> QED BY <1>1, <1>2, <1>3, <1>20 DEF x, Q, M, L, q

(* A wire that is the sum of bounded terms lies between the constant of the sum
   and the sum of the bounds.                                                  *)
LEMMA SumForm ==
  ASSUME NEW c, NEW o, Asserted(c, o), NEW i \in DOMAIN o.lin, NEW B \in Proper(c),
         IsSumOf(o, i, B), Total(o, i, B) < P
  PROVE  /\ Total(o, i, B) \in Nat /\ Signed(o, i, o.q) \in Nat
         /\ ShiftsStayBelow(c) => \A a \in RunsOf[c] : /\ a[o.lin[i][2]] \in Nat
                                                      /\ Signed(o, i, o.q) <= a[o.lin[i][2]]
                                                      /\ a[o.lin[i][2]] <= Total(o, i, B)
<1>1. IsSource(o, i)
  BY DEF IsSource, IsSumOf
<1>2. /\ \A j \in DOMAIN o.mul : o.mul[j][2] \in DOMAIN B /\ o.mul[j][3] \in DOMAIN B
      /\ \A j \in Rest(o, i) : o.lin[j][2] \in DOMAIN B
  BY DEF IsSumOf
<1>3. Naturals(o, i, B)
  BY <1>2, ProperFacts DEF Naturals
<1>4. Total(o, i, B) \in Nat /\ Signed(o, i, o.q) \in Nat
  BY <1>3, TotalType
<1>5. ASSUME ShiftsStayBelow(c), NEW a \in RunsOf[c]
      PROVE  /\ a[o.lin[i][2]] \in Nat
             /\ Signed(o, i, o.q) <= a[o.lin[i][2]] /\ a[o.lin[i][2]] <= Total(o, i, B)
  <2> DEFINE x == a[o.lin[i][2]]
             t == Total(o, i, a)
             T == Total(o, i, B)
             q == Signed(o, i, o.q)
  <2>1. RunOf(c, a)
    BY DEF RunOf, Asserted, Studied
  <2>2. Naturals(o, i, a) /\ x \in Nat /\ x < P /\ SameModulo(P, t, x)
    BY <1>1, <2>1, TotalCongruent
  <2>3. t \in Nat /\ q <= t
    BY <2>2, TotalType
  <2>4. \A w \in DOMAIN B : a[w] <= B[w]
    BY <1>5, ProperFacts DEF BoundsIn
  <2>5. t <= T
    <3>1. Below(o, i, a, B)
      BY <1>2, <2>4 DEF Below
    <3> QED BY <1>3, <2>2, <3>1, TotalMonotone
  <2>6. T < P /\ T \in Nat /\ q \in Nat
    BY <1>4
  <2> HIDE DEF x, t, T, q
  <2>7. t = x
    <3>1. t \in Int /\ x \in Int /\ t - x < P /\ x - t < P
      BY <2>2, <2>3, <2>5, <2>6, ModulusFacts
    <3> QED BY <2>2, <2>3, <3>1, ModulusFacts, ModuloSmall
  <2> QED BY <2>2, <2>3, <2>5, <2>7 DEF x, T, q
<1> QED BY <1>4, <1>5

LEMMA DerivedTermProper ==
  ASSUME NEW c, NEW o, Asserted(c, o), NEW i \in DOMAIN o.lin, NEW B \in Proper(c)
  PROVE  DerivedTerm(o, i, B) \in Proper(c)
<1>1. CASE o.lin[i][2] \notin DOMAIN B /\ IsSumOf(o, i, B) /\ Total(o, i, B) < P
  <2>1. DerivedTerm(o, i, B) = Lower(B, o.lin[i][2], Total(o, i, B))
    BY <1>1 DEF DerivedTerm
  <2>2. o.lin[i][2] \in c.wires
    BY ExpressionFacts
  <2>3. Total(o, i, B) \in Nat /\ AtMost(c, o.lin[i][2], Total(o, i, B))
    BY <1>1, SumForm DEF AtMost
  <2> QED BY <2>1, <2>2, <2>3, LowerFacts
<1>2. CASE ~(o.lin[i][2] \notin DOMAIN B /\ IsSumOf(o, i, B) /\ Total(o, i, B) < P)
  <2>1. DerivedTerm(o, i, B) = B
    BY <1>2, Zenon DEF DerivedTerm
  <2> QED BY <2>1
<1> QED BY <1>1, <1>2

DerivesTo(g, o, B) == g = [i \in 0..Len(o.lin) |-> IF i = 0 THEN B ELSE DerivedTerm(o, i, g[i-1])]

LEMMA DerivedProper ==
  ASSUME NEW c, NEW o, Studied(c, o), NEW B \in Proper(c)
  PROVE  Derived(o, B) \in Proper(c)
<1>1. CASE ~IsAssertZero(o)
  BY <1>1 DEF Derived
<1>2. CASE IsAssertZero(o)
  <2> DEFINE n == Len(o.lin)
             F == [k \in 1..n |-> [x \in Proper(c) |-> DerivedTerm(o, k, x)]]
             g == CHOOSE h : DerivesTo(h, o, B)
  <2>1. Asserted(c, o)
    BY <1>2 DEF Asserted
  <2>2. n \in Nat /\ DOMAIN o.lin = 1..n
    BY <2>1, ExpressionFacts
  <2>3. Derived(o, B) = g[n]
    BY <1>2, Zenon DEF Derived, DerivesTo
  <2>4. F \in [1..n -> [Proper(c) -> Proper(c)]]
    BY <2>1, <2>2, DerivedTermProper
  <2>5. \A k \in 1..n : \A x \in Proper(c) : F[k][x] = DerivedTerm(o, k, x)
    OBVIOUS
  <2> HIDE DEF F
  <2>6. PICK h \in [0..n -> Proper(c)] : Iterates(h, n, B, F)
    BY <2>2, <2>4, Iteration
  <2>7. \A k \in 0..n : h[k] = IF k = 0 THEN B ELSE DerivedTerm(o, k, h[k-1])
    <3> SUFFICES ASSUME NEW k \in 0..n PROVE h[k] = IF k = 0 THEN B ELSE DerivedTerm(o, k, h[k-1])
      OBVIOUS
    <3>1. h[k] = IF k = 0 THEN B ELSE F[k][h[k-1]]
      BY <2>6 DEF Iterates
    <3>2. CASE k # 0
      <4>1. k \in 1..n /\ k - 1 \in 0..n
        BY <2>2, <3>2
      <4>2. h[k-1] \in Proper(c)
        BY <4>1
      <4> QED BY <2>5, <3>1, <3>2, <4>1, <4>2
    <3> QED BY <3>1, <3>2
  <2>8. DerivesTo(h, o, B)
    <3>1. h = [k \in 0..n |-> h[k]]
      OBVIOUS
    <3> QED BY <2>7, <3>1 DEF DerivesTo
  <2>9. DerivesTo(g, o, B)
    BY <2>8
  <2> HIDE DEF g
  <2>10. \A k \in 0..n : g[k] = IF k = 0 THEN B ELSE DerivedTerm(o, k, g[k-1])
    BY <2>9 DEF DerivesTo
  <2> DEFINE K == {k \in 0..n : g[k] \in Proper(c)}
  <2>11. 0 \in K
    BY <2>2, <2>10
  <2>12. ASSUME NEW k \in 0..n-1, k \in K PROVE k + 1 \in K
    <3>1. k + 1 \in 0..n /\ k + 1 # 0 /\ (k + 1) - 1 = k /\ k + 1 \in 1..n
      BY <2>2
    <3>2. g[k + 1] = DerivedTerm(o, k + 1, g[k])
      BY <2>10, <3>1
    <3>3. g[k] \in Proper(c)
      BY <2>12
    <3>4. g[k + 1] \in Proper(c)
      BY <2>1, <2>2, <3>1, <3>2, <3>3, DerivedTermProper
    <3> QED BY <3>1, <3>4
  <2>13. n \in K
    <3> HIDE DEF K
    <3>1. \A k \in 0..n : k \in K
      BY <2>2, <2>11, <2>12, CountingUp
    <3> QED BY <2>2, <3>1
  <2> QED BY <2>3, <2>13
<1> QED BY <1>1, <1>2

-----------------------------------------------------------------------------
(* Positive terms that add up to a constant: each is at most the constant. *)
LEMMA SumToConstant ==
  ASSUME NEW c, NEW o, Asserted(c, o), NEW B \in Proper(c), IsSumToConstant(o, B), NEW i \in DOMAIN o.lin
  PROVE  /\ Minus(o.q) \div (o.lin[i][1] % P) \in Nat
         /\ AtMost(c, o.lin[i][2], Minus(o.q) \div (o.lin[i][1] % P))
<1> DEFINE k(j) == o.lin[j][1] % P
           q == o.q
           Q == Minus(q)
           S == DOMAIN o.lin
           top == [j \in S |-> k(j) * B[o.lin[j][2]]]
<1>1. /\ o.mul = <<>> /\ SumFunction(top) < P
      /\ \A j \in S : k(j) # 0 /\ o.lin[j][2] \in DOMAIN B
  BY DEF IsSumToConstant, Live
<1>2. \A j \in S : k(j) \in Nat \ {0} /\ o.lin[j][1] \in Int /\ B[o.lin[j][2]] \in Nat
                   /\ SameModulo(P, k(j), o.lin[j][1])
  <2> TAKE j \in S
  <2>1. o.lin[j][1] \in Int /\ B[o.lin[j][2]] \in Nat
    BY <1>1, ExpressionFacts, ProperFacts
  <2>2. k(j) \in 0..P-1 /\ SameModulo(P, k(j), o.lin[j][1])
    BY <2>1, MinusFacts
  <2>3. k(j) \in Nat
    BY <2>2, ModulusFacts
  <2> QED BY <1>1, <2>1, <2>2, <2>3
<1>3. q \in Int /\ Q \in 0..P-1 /\ SameModulo(P, Q, -q) /\ IsFiniteSet(S)
  <2>1. q \in Int /\ IsFiniteSet(S)
    BY ExpressionFacts
  <2> HIDE DEF q
  <2> QED BY <2>1, MinusFacts
<1>4. Q \in Nat /\ Q < P
  BY <1>3, ModulusFacts
<1>5. Q \div k(i) \in Nat /\ \A x \in Nat : k(i) * x <= Q => x <= Q \div k(i)
  <2> DEFINE n == k(i)
  <2>1. n \in Nat \ {0} /\ Q \in Int /\ Q >= 0
    BY <1>2, <1>4
  <2> HIDE DEF n, Q
  <2> QED BY <2>1, QuotientBounds DEF n
<1>6. ASSUME ShiftsStayBelow(c), NEW a \in RunsOf[c] PROVE a[o.lin[i][2]] <= Q \div k(i)
  <2> DEFINE f == [j \in S |-> k(j) * a[o.lin[j][2]]]
             s == SumFunctionOnSet(f, S)
             l == SumFunctionOnSet(LinTerm(o, a), S)
  <2>1. RunOf(c, a) /\ \A w \in DOMAIN B : a[w] <= B[w]
    BY <1>6, ProperFacts DEF RunOf, Asserted, Studied, BoundsIn
  <2>2. \A j \in S : a[o.lin[j][2]] \in Nat
    BY <2>1, ExpressionFacts, RunType
  <2>3. IntegerAt(S, f) /\ IntegerAt(S, top) /\ \A j \in S : f[j] \in Nat /\ f[j] <= top[j]
    <3>1. ASSUME NEW j \in S PROVE f[j] \in Nat /\ top[j] \in Nat /\ f[j] <= top[j]
      <4> DEFINE n == k(j)
                 x == a[o.lin[j][2]]
                 y == B[o.lin[j][2]]
      <4>1. n \in Nat /\ x \in Nat /\ y \in Nat /\ x <= y
        BY <1>1, <1>2, <2>1, <2>2
      <4>2. f[j] = n * x /\ top[j] = n * y
        OBVIOUS
      <4> HIDE DEF n, x, y, f, top
      <4> QED BY <4>1, <4>2, TimesMonotone
    <3> HIDE DEF f, top
    <3> QED BY <3>1 DEF IntegerAt
  <2>4. s \in Nat /\ s < P
    <3>1. DOMAIN top = S
      OBVIOUS
    <3> HIDE DEF f, top, S
    <3>2. SumFunction(top) = SumFunctionOnSet(top, S)
      BY <3>1, Zenon DEF SumFunction
    <3>3. SumFunctionOnSet(f, S) <= SumFunctionOnSet(top, S)
      BY <1>3, <2>3, SumMonotone
    <3>4. SumFunctionOnSet(f, S) \in Nat /\ SumFunctionOnSet(top, S) \in Int
      BY <1>3, <2>3, SumNatural, SumType
    <3> QED BY <1>1, <3>2, <3>3, <3>4, ModulusFacts
  <2>5. SameModulo(P, s, l) /\ l \in Int
    <3>1. IntegerAt(S, LinTerm(o, a))
      BY <2>1, TermTypes
    <3>2. ASSUME NEW j \in S PROVE SameModulo(P, f[j], LinTerm(o, a)[j])
      <4> DEFINE n == k(j)
                 m == o.lin[j][1]
                 x == a[o.lin[j][2]]
      <4>1. n \in Int /\ m \in Int /\ x \in Int /\ SameModulo(P, n, m)
        BY <1>2, <2>2
      <4>2. f[j] = n * x /\ LinTerm(o, a)[j] = m * x
        BY DEF LinTerm
      <4> HIDE DEF n, m, x, f
      <4>3. SameModulo(P, x * n, x * m)
        BY <4>1, ModulusFacts, ModuloTimes
      <4>4. x * n = n * x /\ x * m = m * x
        BY <4>1
      <4> QED BY <4>2, <4>3, <4>4
    <3> HIDE DEF f
    <3> QED BY <1>3, <2>3, <3>1, <3>2, ModulusFacts, SumModulo, SumType
  <2>6. SameModulo(P, q + l, 0)
    <3>1. SumFunctionOnSet(MulTerm(o, a), DOMAIN o.mul) = 0
      <4>1. DOMAIN o.mul = {} /\ IsFiniteSet({})
        BY <1>1, FS_EmptySet
      <4> QED BY <4>1, SumUnfold
    <3>2. SameModulo(P, q + 0 + l, 0)
      BY <2>1, <3>1, RunEquation
    <3> HIDE DEF q, l
    <3>3. q + 0 + l = q + l
      BY <1>3, <2>5
    <3> QED BY <3>2, <3>3
  <2>7. f[i] <= s /\ f[i] = k(i) * a[o.lin[i][2]]
    <3>1. f[i] = k(i) * a[o.lin[i][2]]
      OBVIOUS
    <3>2. \A j \in S : f[j] >= 0
      <4>1. \A j \in S : f[j] \in Nat
        BY <2>3
      <4> HIDE DEF f, S
      <4> QED BY <4>1
    <3> HIDE DEF f
    <3> QED BY <1>3, <2>3, <3>1, <3>2, SumCovers
  <2> HIDE DEF s, l, q, Q
  <2>8. s = Q
    <3>1. PICK u \in Int : Q - (-q) = u * P
      BY <1>3 DEF SameModulo
    <3>2. PICK v \in Int : s - l = v * P
      BY <2>5 DEF SameModulo
    <3>3. PICK z \in Int : (q + l) - 0 = z * P
      BY <2>6 DEF SameModulo
    <3>4. s - Q = (v + z - u) * P
      BY <1>3, <1>4, <2>4, <2>5, <3>1, <3>2, <3>3, ModulusFacts
    <3>5. SameModulo(P, s, Q)
      BY <3>4 DEF SameModulo
    <3>6. s \in Int /\ Q \in Int /\ s - Q < P /\ Q - s < P
      BY <1>4, <2>4, ModulusFacts
    <3> QED BY <3>5, <3>6, ModulusFacts, ModuloSmall
  <2>9. a[o.lin[i][2]] \in Nat
    BY <2>2
  <2> QED BY <1>5, <2>7, <2>8, <2>9
<1> QED BY <1>5, <1>6 DEF AtMost

NarrowsTo(g, o, B) ==
  g = [i \in 0..Len(o.lin) |-> IF i = 0 THEN B
                               ELSE Lower(g[i-1], o.lin[i][2], Minus(o.q) \div (o.lin[i][1] % P))]

LEMMA NarrowedProper ==
  ASSUME NEW c, NEW o, Studied(c, o), NEW B \in Proper(c)
  PROVE  Narrowed(o, B) \in Proper(c)
<1>1. CASE ~IsSumToConstant(o, B)
  <2>1. Narrowed(o, B) = B
    BY <1>1, Zenon DEF Narrowed
  <2> QED BY <2>1
<1>2. CASE IsSumToConstant(o, B)
  <2> DEFINE n == Len(o.lin)
             w(k) == o.lin[k][2]
             v(k) == Minus(o.q) \div (o.lin[k][1] % P)
             F == [k \in 1..n |-> [x \in Proper(c) |-> Lower(x, w(k), v(k))]]
             g == CHOOSE h : NarrowsTo(h, o, B)
  <2>1. Asserted(c, o)
    BY <1>2 DEF Asserted, IsSumToConstant
  <2>2. n \in Nat /\ DOMAIN o.lin = 1..n
    BY <2>1, ExpressionFacts
  <2>3. Narrowed(o, B) = g[n]
    BY <1>2, Zenon DEF Narrowed, NarrowsTo
  <2>4. \A k \in 1..n : \A x \in Proper(c) : Lower(x, w(k), v(k)) \in Proper(c)
    <3> SUFFICES ASSUME NEW k \in 1..n, NEW x \in Proper(c) PROVE Lower(x, w(k), v(k)) \in Proper(c)
      OBVIOUS
    <3>1. w(k) \in c.wires /\ v(k) \in Nat /\ AtMost(c, w(k), v(k))
      BY <1>2, <2>1, <2>2, ExpressionFacts, SumToConstant
    <3> HIDE DEF w, v
    <3> QED BY <3>1, LowerFacts
  <2>5. F \in [1..n -> [Proper(c) -> Proper(c)]]
    BY <2>4
  <2>6. \A k \in 1..n : \A x \in Proper(c) : F[k][x] = Lower(x, w(k), v(k))
    OBVIOUS
  <2> HIDE DEF F
  <2>7. PICK h \in [0..n -> Proper(c)] : Iterates(h, n, B, F)
    BY <2>2, <2>5, Iteration
  <2>8. \A k \in 0..n : h[k] = IF k = 0 THEN B ELSE Lower(h[k-1], w(k), v(k))
    <3> SUFFICES ASSUME NEW k \in 0..n PROVE h[k] = IF k = 0 THEN B ELSE Lower(h[k-1], w(k), v(k))
      OBVIOUS
    <3>1. h[k] = IF k = 0 THEN B ELSE F[k][h[k-1]]
      BY <2>7 DEF Iterates
    <3>2. CASE k # 0
      <4>1. k \in 1..n /\ k - 1 \in 0..n
        BY <2>2, <3>2
      <4>2. h[k-1] \in Proper(c)
        BY <4>1
      <4> QED BY <2>6, <3>1, <3>2, <4>1, <4>2
    <3> QED BY <3>1, <3>2
  <2>9. NarrowsTo(h, o, B)
    <3>1. h = [k \in 0..n |-> h[k]]
      OBVIOUS
    <3> QED BY <2>8, <3>1 DEF NarrowsTo
  <2>10. NarrowsTo(g, o, B)
    BY <2>9
  <2> HIDE DEF g
  <2>11. \A k \in 0..n : g[k] = IF k = 0 THEN B ELSE Lower(g[k-1], w(k), v(k))
    BY <2>10 DEF NarrowsTo
  <2> HIDE DEF w, v
  <2> DEFINE K == {k \in 0..n : g[k] \in Proper(c)}
  <2>12. 0 \in K
    BY <2>2, <2>11
  <2>13. ASSUME NEW k \in 0..n-1, k \in K PROVE k + 1 \in K
    <3>1. k + 1 \in 0..n /\ k + 1 # 0 /\ (k + 1) - 1 = k /\ k + 1 \in 1..n
      BY <2>2
    <3>2. g[k + 1] = Lower(g[k], w(k + 1), v(k + 1))
      BY <2>11, <3>1
    <3> QED BY <2>4, <2>13, <3>1, <3>2
  <2>14. n \in K
    <3> HIDE DEF K
    <3>1. \A k \in 0..n : k \in K
      BY <2>2, <2>12, <2>13, CountingUp
    <3> QED BY <2>2, <3>1
  <2> QED BY <2>3, <2>14
<1> QED BY <1>1, <1>2

LEMMA NonzeroHolds ==
  ASSUME NEW c \in Circuits, NEW B \in Proper(c), NEW w \in ProvablyNonzero(c, B)
  PROVE  w \in c.wires /\ (ShiftsStayBelow(c) => \A a \in RunsOf[c] : a[w] # 0)
<1>1. PICK o \in Asserts(c) : \E i \in DOMAIN o.lin :
        w = o.lin[i][2] /\ Signed(o, i, o.q) >= 1 /\ IsSumOf(o, i, B) /\ Total(o, i, B) < P
  BY DEF ProvablyNonzero
<1>2. PICK i \in DOMAIN o.lin :
        w = o.lin[i][2] /\ Signed(o, i, o.q) >= 1 /\ IsSumOf(o, i, B) /\ Total(o, i, B) < P
  BY <1>1
<1>3. Asserted(c, o)
  BY DEF Asserted, Asserts, Studied
<1>4. w \in c.wires
  BY <1>2, <1>3, ExpressionFacts
<1>5. ASSUME ShiftsStayBelow(c), NEW a \in RunsOf[c] PROVE a[w] # 0
  <2>1. a[w] \in Nat /\ Signed(o, i, o.q) <= a[w] /\ Signed(o, i, o.q) \in Nat
    BY <1>2, <1>3, <1>5, SumForm
  <2> QED BY <1>2, <2>1
<1> QED BY <1>4, <1>5

-----------------------------------------------------------------------------
(* Every rule names wires of the circuit. *)
LEMMA PropagatedWires ==
  ASSUME NEW c \in Circuits, NEW D \in SUBSET c.wires
  PROVE  Propagated(c, D) \in SUBSET c.wires
<1> SUFFICES ASSUME NEW o \in Range(c.opcodes)
             PROVE  /\ Prop!SolveSingleUnknown(o, D, LearnedNonzero(c)) \subseteq c.wires
                    /\ Prop!SolveEuclidean(o, D, TightBounds(c)) \subseteq c.wires
                    /\ Prop!ApplyBlackBox(o, D) \subseteq c.wires
                    /\ Prop!SolveConditionalZero(c, o, D, Prop!ConditionalZeros(c, D)) \subseteq c.wires
  BY DEF Propagated
<1>1. Studied(c, o)
  BY DEF Studied
<1>2. o.wires \subseteq c.wires /\ o.outs \subseteq c.wires
  BY <1>1, OpcodeWires
<1> DEFINE N == LearnedNonzero(c)
           B == TightBounds(c)
           Z == Prop!ConditionalZeros(c, D)
<1> HIDE DEF N, B, Z
<1>3. Prop!SolveSingleUnknown(o, D, N) \subseteq o.wires
  BY DEF Prop!SolveSingleUnknown
<1>4. Prop!SolveEuclidean(o, D, B) \subseteq c.wires
  <2>1. CASE IsAssertZero(o)
    <3>1. Asserted(c, o)
      BY <1>1, <2>1 DEF Asserted
    <3>2. \A i \in DOMAIN o.lin : o.lin[i][2] \in c.wires
      BY <3>1, ExpressionFacts
    <3>3. Prop!OpenLin(o, D) \subseteq DOMAIN o.lin
      BY DEF Prop!OpenLin, Prop!Live
    <3>4. Prop!SolveEuclidean(o, D, B) \subseteq {o.lin[i][2] : i \in Prop!OpenLin(o, D)}
      BY DEF Prop!SolveEuclidean
    <3> QED BY <3>2, <3>3, <3>4
  <2>2. CASE ~IsAssertZero(o)
    BY <2>2 DEF Prop!SolveEuclidean, Prop!IsAssertZero, IsAssertZero
  <2> QED BY <2>1, <2>2
<1>5. Prop!ApplyBlackBox(o, D) \subseteq o.outs
  BY DEF Prop!ApplyBlackBox
<1>6. Prop!SolveConditionalZero(c, o, D, Z) \subseteq o.wires
  BY DEF Prop!SolveConditionalZero, Prop!Unknowns
<1> QED BY <1>2, <1>3, <1>4, <1>5, <1>6 DEF N, B, Z

ClosesTo(g, c) == g = [k \in 0..Cardinality(c.wires) |-> IF k = 0 THEN c.inputs ELSE Propagated(c, g[k-1])]

LEMMA KnownWires ==
  ASSUME NEW c \in Circuits
  PROVE  Known(c) \in SUBSET c.wires
<1> DEFINE n == Cardinality(c.wires)
           S == SUBSET c.wires
           F == [k \in 1..n |-> [x \in S |-> Propagated(c, x)]]
           g == CHOOSE h : ClosesTo(h, c)
<1>1. n \in Nat /\ c.inputs \in S
  BY CircuitsMeanWhatTheySay, FS_CardinalityType
<1>2. Known(c) = g[n]
  BY Zenon DEF Known, ClosesTo
<1>3. \A x \in S : Propagated(c, x) \in S
  BY PropagatedWires
<1> HIDE DEF S
<1>4. F \in [1..n -> [S -> S]]
  BY <1>3
<1>5. \A k \in 1..n : \A x \in S : F[k][x] = Propagated(c, x)
  OBVIOUS
<1> HIDE DEF F
<1>6. PICK h \in [0..n -> S] : Iterates(h, n, c.inputs, F)
  BY <1>1, <1>4, Iteration
<1>7. \A k \in 0..n : h[k] = IF k = 0 THEN c.inputs ELSE Propagated(c, h[k-1])
  <2> SUFFICES ASSUME NEW k \in 0..n PROVE h[k] = IF k = 0 THEN c.inputs ELSE Propagated(c, h[k-1])
    OBVIOUS
  <2>1. h[k] = IF k = 0 THEN c.inputs ELSE F[k][h[k-1]]
    BY <1>6 DEF Iterates
  <2>2. CASE k # 0
    <3>1. k \in 1..n /\ k - 1 \in 0..n
      BY <1>1, <2>2
    <3> QED BY <1>5, <2>1, <2>2, <3>1
  <2> QED BY <2>1, <2>2
<1>8. ClosesTo(g, c)
  <2>1. h = [k \in 0..n |-> h[k]]
    OBVIOUS
  <2>2. ClosesTo(h, c)
    BY <1>7, <2>1 DEF ClosesTo
  <2> QED BY <2>2
<1> HIDE DEF g
<1>9. \A k \in 0..n : g[k] = IF k = 0 THEN c.inputs ELSE Propagated(c, g[k-1])
  BY <1>8 DEF ClosesTo
<1> DEFINE K == {k \in 0..n : g[k] \in S}
<1>10. 0 \in K
  BY <1>1, <1>9
<1>11. ASSUME NEW k \in 0..n-1, k \in K PROVE k + 1 \in K
  <2>1. k + 1 \in 0..n /\ k + 1 # 0 /\ (k + 1) - 1 = k
    BY <1>1
  <2>2. g[k + 1] = Propagated(c, g[k])
    BY <1>9, <2>1
  <2> QED BY <1>3, <1>11, <2>1, <2>2
<1>12. n \in K
  <2> HIDE DEF K
  <2>1. \A k \in 0..n : k \in K
    BY <1>1, <1>10, <1>11, CountingUp
  <2> QED BY <1>1, <2>1
<1> QED BY <1>2, <1>12 DEF S

LEMMA GadgetWires ==
  ASSUME NEW c, NEW o, Asserted(c, o), NEW flags, NEW D, NEW g \in GadgetOf(o, flags, D)
  PROVE  g[1] \in c.wires /\ g[2] \in c.wires
<1> DEFINE T == FlagTerm(o, flags)
           flag == o.lin[Min(T)][2]
           at == InverseFactor(o, flag, D)
<1>1. o.mul # <<>> /\ T # {} /\ at # {} /\ g = <<flag, o.mul[1][Min(at)]>>
  BY DEF GadgetOf
<1>2. DOMAIN o.lin = 1..Len(o.lin) /\ IsFiniteSet(DOMAIN o.lin) /\ Len(o.lin) \in Nat
  BY ExpressionFacts
<1>3. T \in SUBSET Int /\ IsFiniteSet(T)
  <2>1. T \subseteq DOMAIN o.lin
    BY DEF FlagTerm
  <2> HIDE DEF T
  <2> QED BY <1>2, <2>1, FS_Subset
<1>4. Min(T) \in T
  <2> HIDE DEF T
  <2> QED BY <1>1, <1>3, MinExists
<1>5. flag \in c.wires
  <2>1. Min(T) \in DOMAIN o.lin
    BY <1>4 DEF FlagTerm
  <2> QED BY <2>1, ExpressionFacts
<1> HIDE DEF flag, T
<1>6. at \in SUBSET {2, 3}
  BY DEF InverseFactor
<1> HIDE DEF at
<1>7. IsFiniteSet(at) /\ at \in SUBSET Int
  <2> DEFINE F == 2..3
  <2>1. IsFiniteSet(F)
    <3> DEFINE two == 2
               three == 3
    <3>1. two \in Int /\ three \in Int
      OBVIOUS
    <3> HIDE DEF two, three
    <3>2. IsFiniteSet(two..three)
      BY <3>1, FS_Interval
    <3> QED BY <3>2 DEF two, three
  <2>2. at \in SUBSET F /\ at \in SUBSET Int
    BY <1>6
  <2> HIDE DEF F
  <2> QED BY <2>1, <2>2, FS_Subset
<1>8. Min(at) \in {2, 3}
  BY <1>1, <1>6, <1>7, MinExists
<1>9. 1 \in DOMAIN o.mul
  <2>1. DOMAIN o.mul = 1..Len(o.mul) /\ Len(o.mul) \in Nat
    BY ExpressionFacts
  <2>2. o.mul \in Seq(Int \X o.wires \X o.wires)
    BY OpcodeFacts DEF Asserted, Studied, MeansWhatItSays, IsAssertZero
  <2> QED BY <1>1, <2>1, <2>2
<1>10. o.mul[1][2] \in c.wires /\ o.mul[1][3] \in c.wires
  BY <1>9, ExpressionFacts
<1> QED BY <1>1, <1>5, <1>8, <1>10

LEMMA GadgetsWires ==
  ASSUME NEW c \in Circuits, NEW D
  PROVE  UNION {{g[1], g[2]} : g \in IsZeroGadgets(c, D)} \subseteq c.wires
<1> SUFFICES ASSUME NEW g \in IsZeroGadgets(c, D) PROVE g[1] \in c.wires /\ g[2] \in c.wires
  OBVIOUS
<1>1. PICK o \in Asserts(c) : g \in GadgetOf(o, Flags(c, D), D)
  BY DEF IsZeroGadgets
<1>2. Asserted(c, o)
  BY DEF Asserts, Asserted, Studied
<1> QED BY <1>1, <1>2, GadgetWires

LEMMA RuleWires ==
  ASSUME NEW c, NEW o, Studied(c, o), NEW D, NEW N, NEW B
  PROVE  /\ IsAccess(o) => ReadDetermines(c, o, D) \subseteq c.wires
         /\ IsAssertZero(o) => FactorDetermines(o, D, N) \cup TermDetermines(o, D) \cup SplitDetermines(o, D, B)
                                 \subseteq c.wires
<1>1. o.wires \subseteq c.wires /\ (IsAccess(o) => o.wires = {o.index, o.value})
  BY OpcodeWires
<1>2. IsAccess(o) => ReadDetermines(c, o, D) \subseteq c.wires
  BY <1>1 DEF ReadDetermines
<1>3. ASSUME IsAssertZero(o)
      PROVE  FactorDetermines(o, D, N) \cup TermDetermines(o, D) \cup SplitDetermines(o, D, B) \subseteq c.wires
  <2>1. \A i \in DOMAIN o.lin : o.lin[i][2] \in c.wires
    BY <1>3, ExpressionFacts DEF Asserted
  <2>2. FactorDetermines(o, D, N) \subseteq o.wires
    BY DEF FactorDetermines
  <2>3. TermDetermines(o, D) \subseteq c.wires
    BY <2>1 DEF TermDetermines, Live
  <2>4. SplitDetermines(o, D, B) \subseteq c.wires
    BY <2>1 DEF SplitDetermines, OpenLin
  <2> QED BY <1>1, <2>2, <2>3, <2>4
<1> QED BY <1>2, <1>3

LEMMA ReachWires ==
  ASSUME NEW c \in Circuits
  PROVE  /\ Surface(c) \subseteq c.wires
         /\ \A o \in Range(c.opcodes) : \A R \in SUBSET c.wires : \A D : ReachedBy(o, R, D) \subseteq c.wires
<1>1. \A o \in Range(c.opcodes) : o.wires \subseteq c.wires
  BY OpcodeWires DEF Studied
<1>2. c.returns \subseteq c.wires
  BY CircuitsMeanWhatTheySay
<1> QED BY <1>1, <1>2 DEF Surface, ExposedWitnesses, Asserts, ReachedBy

-----------------------------------------------------------------------------
(* The bounds are proper from the note on; non-zero facts rest on them. *)
NonzeroInv ==
  /\ nonzero \subseteq circuit.wires
  /\ ShiftsStayBelow(circuit) => \A a \in RunsOf[circuit] : \A w \in nonzero : a[w] # 0

ScopeInv ==
  /\ determined \cup reached \subseteq circuit.wires
  /\ candidates \subseteq (circuit.hints \ determined) \X Verdicts
  /\ phase # "done" => candidates = {}

PlaceInv ==
  /\ phase \in {"bounds", "derive", "narrow", "gadgets", "refine", "reach", "hints", "done"}
  /\ pc \in 1..Len(circuit.opcodes) + 1
  /\ round \in 1..DeriveRounds

FactsInv ==
  /\ circuit \in Circuits
  /\ bounds \in Proper(circuit)
  /\ NonzeroInv /\ ScopeInv /\ PlaceInv

LEMMA FactsInit == Init => FactsInv
<1> SUFFICES ASSUME Init PROVE FactsInv
  OBVIOUS
<1>1. circuit \in Circuits /\ bounds = NotedBounds(circuit) /\ nonzero = {} /\ reached = {} /\ candidates = {}
      /\ determined = Known(circuit) /\ phase = "bounds" /\ pc = 1 /\ round = 1
  BY DEF Init
<1>2. bounds \in Proper(circuit)
  BY <1>1, NotedProper
<1>3. NonzeroInv
  BY <1>1 DEF NonzeroInv
<1>4. ScopeInv
  BY <1>1, KnownWires DEF ScopeInv
<1>5. PlaceInv
  <2>1. Len(circuit.opcodes) \in Nat /\ DeriveRounds \in Nat \ {0}
    BY <1>1, OpcodeFacts, CircuitsMeanWhatTheySay
  <2> QED BY <1>1, <2>1 DEF PlaceInv
<1> QED BY <1>1, <1>2, <1>3, <1>4, <1>5 DEF FactsInv

(* The opcode a sweep looks at. *)
LEMMA OpcodeHere ==
  ASSUME circuit \in Circuits, PlaceInv, InSweep
  PROVE  Studied(circuit, opcode) /\ pc + 1 \in 1..Len(circuit.opcodes) + 1
<1>1. Len(circuit.opcodes) \in Nat /\ DOMAIN circuit.opcodes = 1..Len(circuit.opcodes)
  BY OpcodeFacts
<1>2. pc \in DOMAIN circuit.opcodes /\ pc + 1 \in 1..Len(circuit.opcodes) + 1
  BY <1>1 DEF PlaceInv, InSweep
<1> QED BY <1>2, OpcodeFacts DEF opcode

LEMMA BoundsStep == FactsInv /\ [Next]_vars => bounds' \in Proper(circuit) /\ circuit' = circuit
<1> SUFFICES ASSUME FactsInv, [Next]_vars PROVE bounds' \in Proper(circuit) /\ circuit' = circuit
  OBVIOUS
<1>1. circuit \in Circuits /\ bounds \in Proper(circuit) /\ PlaceInv
  BY DEF FactsInv
<1>2. CASE CarryBounds
  BY <1>1, <1>2, OpcodeHere, CarriedProper DEF CarryBounds, given
<1>3. CASE DeriveBounds
  BY <1>1, <1>3, OpcodeHere, DerivedProper DEF DeriveBounds, given
<1>4. CASE NarrowBounds
  BY <1>1, <1>4, OpcodeHere, NarrowedProper DEF NarrowBounds, given
<1>5. CASE UNCHANGED <<circuit, bounds>>
  BY <1>1, <1>5
<1> QED BY <1>2, <1>3, <1>4, <1>5 DEF Next, vars, given, facts, EndCarry, EndDerive, EndNarrow,
           TakeGadgets, RefineByRead, RefineByAssert, RefineByNothing, Refine, EndRefine,
           ReachFurther, EndReach, ReportHints

LEMMA NonzeroStep == FactsInv /\ [Next]_vars => NonzeroInv'
<1> SUFFICES ASSUME FactsInv, [Next]_vars PROVE NonzeroInv'
  OBVIOUS
<1>1. circuit \in Circuits /\ bounds \in Proper(circuit) /\ NonzeroInv /\ circuit' = circuit
  BY BoundsStep DEF FactsInv
<1>2. CASE nonzero' = nonzero
  BY <1>1, <1>2 DEF NonzeroInv
<1>3. CASE EndNarrow /\ nonzero' = ProvablyNonzero(circuit, bounds)
  BY <1>1, <1>3, NonzeroHolds DEF NonzeroInv
<1> QED BY <1>2, <1>3 DEF Next, vars, given, facts, CarryBounds, EndCarry, DeriveBounds, EndDerive, NarrowBounds,
           EndNarrow, TakeGadgets, RefineByRead, RefineByAssert, RefineByNothing, Refine, EndRefine,
           ReachFurther, EndReach, ReportHints

LEMMA PlaceStep == FactsInv /\ [Next]_vars => PlaceInv'
<1> SUFFICES ASSUME FactsInv, [Next]_vars PROVE PlaceInv'
  OBVIOUS
<1>1. circuit \in Circuits /\ circuit' = circuit /\ PlaceInv
  BY BoundsStep DEF FactsInv
<1>2. Len(circuit.opcodes) \in Nat /\ DeriveRounds \in Nat \ {0}
  BY <1>1, OpcodeFacts, CircuitsMeanWhatTheySay
<1>3. round' \in 1..DeriveRounds
  <2>1. CASE round' = round
    BY <1>1, <2>1 DEF PlaceInv
  <2>2. CASE round' = round + 1 /\ round # DeriveRounds
    BY <1>1, <1>2, <2>2 DEF PlaceInv
  <2> QED BY <2>1, <2>2 DEF Next, vars, given, facts, CarryBounds, EndCarry, DeriveBounds, EndDerive, NarrowBounds,
           EndNarrow, TakeGadgets, RefineByRead, RefineByAssert, RefineByNothing, Refine, EndRefine,
           ReachFurther, EndReach, ReportHints
<1>4. pc' \in 1..Len(circuit'.opcodes) + 1
  <2>1. CASE pc' = pc
    BY <1>1, <2>1 DEF PlaceInv
  <2>2. CASE pc' = 1
    BY <1>1, <1>2, <2>2
  <2>3. CASE InSweep /\ pc' = pc + 1
    BY <1>1, <2>3, OpcodeHere
  <2> QED BY <2>1, <2>2, <2>3 DEF Next, vars, given, facts, CarryBounds, EndCarry, DeriveBounds, EndDerive, NarrowBounds,
           EndNarrow, TakeGadgets, RefineByRead, RefineByAssert, RefineByNothing, Refine, Refining, EndRefine,
           ReachFurther, EndReach, ReportHints
<1>5. phase' \in {"bounds", "derive", "narrow", "gadgets", "refine", "reach", "hints", "done"}
  BY <1>1 DEF PlaceInv, Next, vars, given, facts, CarryBounds, EndCarry, DeriveBounds, EndDerive, NarrowBounds,
           EndNarrow, TakeGadgets, RefineByRead, RefineByAssert, RefineByNothing, Refine, EndRefine,
           ReachFurther, EndReach, ReportHints
<1> QED BY <1>3, <1>4, <1>5 DEF PlaceInv

LEMMA ScopeStep == FactsInv /\ [Next]_vars => ScopeInv'
<1> SUFFICES ASSUME FactsInv, [Next]_vars PROVE ScopeInv'
  OBVIOUS
<1>1. circuit \in Circuits /\ circuit' = circuit /\ PlaceInv /\ ScopeInv
  BY BoundsStep DEF FactsInv
<1>2. CASE ReportHints
  <2> DEFINE verdict(w) == VerdictOn(circuit, w, circuit.wires \ determined, bounds, nonzero)
  <2>1. determined' = determined /\ reached' = reached /\ phase' = "done"
    BY <1>2 DEF ReportHints
  <2>2. ASSUME NEW r \in candidates' PROVE r \in (circuit.hints \ determined) \X Verdicts
    <3>1. PICK w \in circuit.hints \cap (circuit.wires \ determined) : r = <<w, verdict(w)>> /\ verdict(w) # "Asserted"
      BY <1>2 DEF ReportHints
    <3>2. verdict(w) \in Verdicts
      BY <3>1 DEF VerdictOn, Verdicts
    <3> HIDE DEF verdict
    <3> QED BY <3>1, <3>2
  <2> QED BY <1>1, <2>1, <2>2 DEF ScopeInv
<1>3. CASE phase # "done" /\ candidates' = candidates /\ reached' = reached /\ determined' \subseteq circuit.wires
  BY <1>1, <1>3 DEF ScopeInv
<1>4. CASE phase # "done" /\ candidates' = candidates /\ determined' = determined /\ reached' \subseteq circuit.wires
  BY <1>1, <1>4 DEF ScopeInv
<1>5. CASE UNCHANGED <<determined, reached, candidates>> /\ (phase' = phase \/ phase # "done")
  BY <1>1, <1>5 DEF ScopeInv
<1>6. CASE TakeGadgets
  BY <1>1, <1>3, <1>6, GadgetsWires DEF TakeGadgets, ScopeInv
<1>7. CASE RefineByRead
  BY <1>1, <1>3, <1>7, OpcodeHere, RuleWires DEF RefineByRead, Refine, Refining, ScopeInv
<1>8. CASE RefineByAssert
  BY <1>1, <1>3, <1>8, OpcodeHere, RuleWires DEF RefineByAssert, Refine, Refining, ScopeInv
<1>9. CASE RefineByNothing
  BY <1>1, <1>3, <1>9 DEF RefineByNothing, Refine, Refining, ScopeInv
<1>10. CASE EndRefine
  BY <1>1, <1>4, <1>10, ReachWires DEF EndRefine, ScopeInv
<1>11. CASE ReachFurther
  <2>1. opcode \in Range(circuit.opcodes)
    BY <1>1, <1>11, OpcodeHere DEF ReachFurther, Studied
  <2> QED BY <1>1, <1>4, <1>11, <2>1, ReachWires DEF ReachFurther, ScopeInv
<1>12. CASE CarryBounds \/ EndCarry \/ DeriveBounds \/ EndDerive \/ NarrowBounds \/ EndNarrow \/ EndReach
  BY <1>5, <1>12 DEF CarryBounds, EndCarry, DeriveBounds, EndDerive, NarrowBounds, EndNarrow, EndReach
<1>13. CASE UNCHANGED vars
  BY <1>5, <1>13 DEF vars
<1> QED BY <1>2, <1>6, <1>7, <1>8, <1>9, <1>10, <1>11, <1>12, <1>13 DEF Next

LEMMA FactsStep == FactsInv /\ [Next]_vars => FactsInv'
BY BoundsStep, NonzeroStep, PlaceStep, ScopeStep DEF FactsInv

LEMMA FactsAreHeld == FactsInv => FactsHold
<1> SUFFICES ASSUME FactsInv PROVE FactsHold
  OBVIOUS
<1>1. bounds \in Proper(circuit) /\ NonzeroInv /\ ScopeInv /\ PlaceInv
  BY DEF FactsInv
<1>2. TypeOK
  BY <1>1, ProperFacts DEF TypeOK, NonzeroInv, ScopeInv, PlaceInv
<1>3. ShiftsStayBelow(circuit) => \A a \in RunsOf[circuit] : BoundsIn(bounds, a)
  BY <1>1, ProperFacts
<1> QED BY <1>1, <1>2, <1>3 DEF FactsHold, BoundsIn, NonzeroInv

(* Every bound and every non-zero wire holds in every run of the circuit, from
   the first note of a RANGE to the last round of derived bounds: the rules
   divide by them and rule out wrap-around with them (explain.rs:843).        *)
THEOREM FactsAreSound == Spec => []FactsHold
BY FactsInit, FactsStep, FactsAreHeld, PTL DEF Spec
=============================================================================
