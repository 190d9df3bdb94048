--------------------------- MODULE CommandsProofs ---------------------------
(***************************************************************************)
(* The fuzzer and the labeller, for every program, field, generator and    *)
(* bound.  What the fuzzer marks as seen is what it reported; how long it  *)
(* outlives its deadline; what it reports are two runs of the circuit.  A  *)
(* mutant runs where its original does, and what its label says of the two *)
(* has a run to show for it.                                               *)
(*                                                                         *)
(* Most of this is about one execution: whatever completes one that did    *)
(* not fail is a run of the circuit (ExecuteFacts).  Borne names the runs  *)
(* that bear out each kind of report.                                      *)
(***************************************************************************)
EXTENDS Commands, CircuitTheorems

(* Steps of the label-mutant command, of the clock, and of nobody, leave all
   that the fuzzer owns alone.                                               *)
LEMMA OnlyFuzzerFuzzes ==
  ASSUME [Next]_vars, ~(command = "fuzz" /\ FuzzNext)
  PROVE  /\ UNCHANGED <<fuzzOwn, command>>
         /\ late => late'
         /\ command = "fuzz" => UNCHANGED <<phase, program>>
<1>1. CASE DeadlinePasses /\ UNCHANGED <<fuzzOwn, labelOwn, command>>
  BY <1>1 DEF DeadlinePasses
<1>2. CASE command = "label-mutant" /\ LabelNext /\ UNCHANGED <<fuzzOwn, command>>
  <2>1. UNCHANGED late
    BY <1>2 DEF LabelNext, OriginalRejects, OriginalRuns, TryAnswer, AnswersTimeOut, EndAnswers,
                TryVariant, SkipVariant, EndVariants, overrideVars
  <2> QED BY <1>2, <2>1
<1>3. CASE Finished \/ UNCHANGED vars
  BY <1>3 DEF Finished, vars, overrideVars
<1> QED BY <1>1, <1>2, <1>3 DEF Next

-----------------------------------------------------------------------------
(* A fuzzer that panicked does nothing any more. *)
LEMMA PanicStays ==
  ASSUME [Next]_vars, phase = "panicked"
  PROVE  phase' = "panicked"
<1>1. ~FuzzNext
  BY DEF FuzzNext, StartRound, Stop, RunSolves, RepairInputs, GiveUp, LearnLinks, StartOverrides, TryOverride,
         Panic, OverridesTimeOut, EndOverrides, MutationSearch
<1>2. ~LabelNext
  BY DEF LabelNext, OriginalRejects, OriginalRuns, TryAnswer, AnswersTimeOut, EndAnswers, TryVariant, SkipVariant,
         EndVariants
<1> QED BY <1>1, <1>2 DEF Next, DeadlinePasses, Finished, vars, overrideVars

LEMMA InitSeen == Init => SeenIsReported
  BY DEF Init, FuzzInit, FuzzIdle, SeenIsReported

(* A hint enters `seen` with its finding: an override's, which was not seen
   before, or those of the mutation search, one for a witness.  Where it enters
   without one, the fuzzer panics.                                           *)
LEMMA SeenStep == SeenIsReported /\ [Next]_vars => SeenIsReported'
<1> SUFFICES ASSUME SeenIsReported, [Next]_vars, phase' # "panicked" PROVE SeenIsReported'
  BY DEF SeenIsReported
<1>0. phase # "panicked"
  BY PanicStays
<1> USE <1>0
<1>1. CASE UNCHANGED <<seen, findings>>
  BY <1>1 DEF SeenIsReported
<1>2. CASE command = "fuzz" /\ TryOverride
  <2> DEFINE h == Head(todo)[1]
             s == ExecuteWithOverride(program, inputs, h, Head(todo)[2])
  <2>1. CASE h \in seen \/ ~Diverges(s)
    <3>1. UNCHANGED <<seen, findings>>
      BY <1>2, <2>1 DEF TryOverride, SeenAfter
    <3> QED BY <3>1, <1>1
  <2>2. CASE h \notin seen /\ Diverges(s)
    <3>1. seen' = seen \cup {h} /\ findings' = findings \cup {Finding(h, s.values)}
      BY <1>2, <2>2 DEF TryOverride, SeenAfter
    <3>2. Finding(h, s.values).hint = h
      BY DEF Finding
    <3> QED BY <2>2, <3>1, <3>2 DEF SeenIsReported
  <2> QED BY <2>1, <2>2
<1>3. CASE command = "fuzz" /\ MutationSearch
  <2> DEFINE second(w) == CHOOSE a \in Forgeries : Differ({w}, honest, a) # {}
  <2>1. PICK W \in SUBSET Forgeable :
          /\ seen' = seen \cup W
          /\ findings' = findings \cup {Finding(w, second(w)) : w \in W \ seen}
    BY <1>3 DEF MutationSearch
  <2>2. \A w : Finding(w, second(w)).hint = w
    BY DEF Finding
  <2> HIDE DEF second
  <2>3. seen' = {f.hint : f \in findings'}
    BY <2>1, <2>2 DEF SeenIsReported
  <2>4. ASSUME NEW f \in findings', NEW g \in findings', f.hint = g.hint PROVE f = g
    <3>1. \A e \in findings : e.hint \in seen
      BY DEF SeenIsReported
    <3>2. \A e \in findings' : e \in findings \/ (e.hint \notin seen /\ e = Finding(e.hint, second(e.hint)))
      BY <2>1, <2>2
    <3> QED BY <3>1, <3>2, <2>4 DEF SeenIsReported
  <2> QED BY <2>3, <2>4 DEF SeenIsReported
<1>4. ASSUME command = "fuzz" /\ FuzzNext, ~TryOverride, ~MutationSearch PROVE UNCHANGED <<seen, findings>>
  BY <1>4 DEF Panic, FuzzNext, StartRound, Stop, RunSolves, RepairInputs, GiveUp, LearnLinks, StartOverrides,
              OverridesTimeOut, EndOverrides, fuzzOwn
<1>5. ASSUME ~(command = "fuzz" /\ FuzzNext) PROVE UNCHANGED <<seen, findings>>
  BY <1>5, OnlyFuzzerFuzzes DEF fuzzOwn
<1> QED BY <1>1, <1>2, <1>3, <1>4, <1>5

(* Unless the fuzzer panics on a return that the honest run left open, a hint is
   passed over in later rounds exactly when it was reported, and it was reported
   once, however the rounds, the deadline and the mutation search interleave
   (fuzz.rs:622, 808, 822, 834).                                               *)
THEOREM SeenHintsAreReported == Spec => []SeenIsReported
  BY InitSeen, SeenStep, PTL DEF Spec

-----------------------------------------------------------------------------
(* Nothing begins late before the deadline; in `run`, what may still begin late
   is what is left of the repairs.                                            *)
OverrunInv ==
  command = "fuzz" =>
    /\ program \in Programs
    /\ late \in BOOLEAN
    /\ overrun \in Nat
    /\ ~late => overrun = 0
    /\ phase = "run" => runsLeft \in Nat /\ overrun + runsLeft <= MaxRepairs + 1
    /\ phase = "learn" => overrun <= MaxRepairs + 1
    /\ overrun <= MaxRepairs + 1 + LearningRuns(program)

LEMMA InitOverrun == Init => OverrunInv
<1> SUFFICES ASSUME Init, command = "fuzz" PROVE OverrunInv
  BY DEF OverrunInv
<1>1. FuzzInit
  BY DEF Init
<1>2. program \in Programs /\ late = FALSE /\ overrun = 0 /\ phase = "round"
  BY <1>1 DEF FuzzInit
<1>3. 0 <= MaxRepairs + 1 + LearningRuns(program)
  BY <1>2, BoundsAreNatural
<1> QED BY <1>2, <1>3 DEF OverrunInv

(* The steps that begin an execution within execute_with_repairs. *)
LEMMA RunsLeave ==
  ASSUME OverrunInv, command = "fuzz", RunSolves \/ RepairInputs \/ GiveUp
  PROVE  /\ UNCHANGED <<program, late>>
         /\ overrun' \in Nat
         /\ ~late => overrun' = overrun
         /\ overrun' <= MaxRepairs + 1
         /\ phase' # "run" \/ (runsLeft' \in Nat /\ overrun' + runsLeft' <= MaxRepairs + 1)
<1> USE BoundsAreNatural DEF OverrunInv, Begun
<1>1. CASE RunSolves
  BY <1>1 DEF RunSolves
<1>2. CASE RepairInputs
  BY <1>2 DEF RepairInputs
<1>3. CASE GiveUp
  BY <1>3 DEF GiveUp
<1> QED BY <1>1, <1>2, <1>3

LEMMA OverrunStep == OverrunInv /\ [Next]_vars => OverrunInv'
<1> SUFFICES ASSUME OverrunInv, [Next]_vars PROVE OverrunInv'
  OBVIOUS
<1> USE BoundsAreNatural
<1>1. ASSUME ~(command = "fuzz" /\ FuzzNext) PROVE OverrunInv'
  BY <1>1, OnlyFuzzerFuzzes DEF OverrunInv, fuzzOwn, Next, DeadlinePasses, Finished, vars, overrideVars
<1>2. CASE command = "fuzz" /\ FuzzNext
  <2> USE <1>2
  <2>1. CASE StartRound
    BY <2>1 DEF StartRound, RunsAllowed, OverrunInv
  <2>2. CASE RunSolves \/ RepairInputs \/ GiveUp
    BY <2>2, RunsLeave DEF OverrunInv
  <2>3. CASE LearnLinks
    BY <2>3 DEF LearnLinks, Begun, OverrunInv
  <2>4. CASE TryOverride \/ Panic
    BY <2>4 DEF TryOverride, Panic, InTime, Begun, OverrunInv
  <2>5. CASE Stop \/ StartOverrides \/ OverridesTimeOut \/ EndOverrides \/ MutationSearch
    BY <2>5 DEF Stop, StartOverrides, OverridesTimeOut, EndOverrides, MutationSearch, fuzzOwn, OverrunInv
  <2> QED BY <2>1, <2>2, <2>3, <2>4, <2>5 DEF FuzzNext
<1> QED BY <1>1, <1>2

(* Past its deadline the fuzzer begins at most one run more than there may be
   repairs, and one for each array of the program.                            *)
THEOREM OverrunBounded == Spec => []OverrunIsBounded
<1>1. OverrunInv => OverrunIsBounded
  BY DEF OverrunInv, OverrunIsBounded
<1> QED BY <1>1, InitOverrun, OverrunStep, PTL DEF Spec

-----------------------------------------------------------------------------
(* What one opcode does to a run in progress. *)

Extends(a, f) == \A w \in DOMAIN f : w \in DOMAIN a /\ a[w] = f[w]

Blocked(B) == \A b \in DOMAIN B : B[b] \in Seq(Field)

StateOK(c, s) ==
  /\ s = [values |-> s.values, blocks |-> s.blocks, failed |-> s.failed, at |-> s.at]
  /\ Valued(s.values) /\ DOMAIN s.values \subseteq c.wires
  /\ Blocked(s.blocks)
  /\ s.failed \in BOOLEAN
  /\ s.at \in 0..Len(c.opcodes)

(* Nothing assigned changes, and a failure stays. *)
Later(c, s, t) == StateOK(c, t) /\ Extends(t.values, s.values) /\ (s.failed => t.failed)

(* Whatever the wires still open will be, opcode o accepts what is assigned. *)
Agreed(c, s, o, t) ==
  \A a \in [c.wires -> Field] :
    Extends(a, t.values) => /\ Judgeable(o, a, s.blocks) /\ Accepts(o, a, s.blocks)
                            /\ t.blocks = BlocksAfter(o, a, s.blocks)

Runnable(c) == WellFormedCircuit(c) /\ Executable(c)

LEMMA LaterSame ==
  ASSUME NEW c, NEW s, StateOK(c, s)
  PROVE  Later(c, s, s)
BY DEF Later, Extends

LEMMA LaterTransitive ==
  ASSUME NEW c, NEW s, NEW t, NEW u, Later(c, s, t), Later(c, t, u)
  PROVE  Later(c, s, u)
BY DEF Later, Extends

LEMMA ExtendsTransitive ==
  ASSUME NEW a, NEW f, NEW g, Extends(a, f), Extends(f, g)
  PROVE  Extends(a, g)
BY DEF Extends

LEMMA FailFacts ==
  ASSUME NEW c, NEW s, StateOK(c, s), NEW i \in 0..Len(c.opcodes)
  PROVE  /\ Fail(s, i).failed /\ Fail(s, i).blocks = s.blocks /\ Fail(s, i).values = s.values
         /\ Later(c, s, Fail(s, i))
<1> DEFINE t == [values |-> s.values, blocks |-> s.blocks, failed |-> TRUE, at |-> i]
<1>1. Fail(s, i) = t
  <2>1. PICK f, B, b, n : s = [values |-> f, blocks |-> B, failed |-> b, at |-> n]
    BY DEF StateOK
  <2>2. s.values = f /\ s.blocks = B
    BY <2>1
  <2>3. ASSUME NEW x
        PROVE  [s EXCEPT !.failed = x, !.at = i] = [values |-> f, blocks |-> B, failed |-> x, at |-> i]
    <3> DEFINE r == [s EXCEPT !.failed = x]
    <3>1. r = [values |-> f, blocks |-> B, failed |-> x, at |-> n]
      BY <2>1
    <3> HIDE DEF r
    <3>2. [r EXCEPT !.at = i] = [values |-> f, blocks |-> B, failed |-> x, at |-> i]
      BY <3>1
    <3> QED BY <3>2 DEF r
  <2>4. [s EXCEPT !.failed = TRUE, !.at = i] = [values |-> f, blocks |-> B, failed |-> TRUE, at |-> i]
    BY <2>3, Zenon
  <2> QED BY <2>2, <2>4, Zenon DEF Fail
<1>2. t.values = s.values /\ t.blocks = s.blocks /\ t.failed = TRUE /\ t.at = i
  OBVIOUS
<1>3. t = [values |-> t.values, blocks |-> t.blocks, failed |-> t.failed, at |-> t.at]
  BY <1>2
<1> HIDE DEF t
<1>4. StateOK(c, t)
  BY <1>2, <1>3 DEF StateOK
<1> QED BY <1>1, <1>2, <1>4 DEF Later, Extends

Assign(s, w, v) == [s EXCEPT !.values = Overlay(Entry(w, v), @)]

LEMMA AssignFacts ==
  ASSUME NEW c, NEW s, StateOK(c, s), NEW w \in c.wires, NEW v \in Field
  PROVE  /\ StateOK(c, Assign(s, w, v)) /\ Assign(s, w, v).blocks = s.blocks /\ Assign(s, w, v).failed = s.failed
         /\ DOMAIN Assign(s, w, v).values = DOMAIN s.values \cup {w} /\ Assign(s, w, v).values[w] = v
         /\ \A u \in DOMAIN s.values : u # w => Assign(s, w, v).values[u] = s.values[u]
<1> DEFINE f == Overlay(Entry(w, v), s.values)
           t == [values |-> f, blocks |-> s.blocks, failed |-> s.failed, at |-> s.at]
<1>1. Assign(s, w, v) = t
  BY DEF StateOK, Assign
<1>2. DOMAIN Entry(w, v) = {w} /\ Entry(w, v)[w] = v /\ Valued(Entry(w, v))
  BY EntryFacts DEF Valued
<1>3. /\ DOMAIN f = DOMAIN s.values \cup {w} /\ f[w] = v
      /\ \A u \in DOMAIN s.values : u # w => f[u] = s.values[u]
  BY DEF Overlay, Entry
<1>4. Valued(f)
  BY <1>2, OverlayType DEF StateOK
<1> HIDE DEF f
<1>5. t.values = f /\ t.blocks = s.blocks /\ t.failed = s.failed /\ t.at = s.at
  OBVIOUS
<1>6. t = [values |-> t.values, blocks |-> t.blocks, failed |-> t.failed, at |-> t.at]
  BY <1>5
<1> HIDE DEF t
<1>7. StateOK(c, t)
  BY <1>3, <1>4, <1>5, <1>6 DEF StateOK
<1> QED BY <1>1, <1>3, <1>5, <1>7

LEMMA InsertFacts ==
  ASSUME NEW c, NEW s, StateOK(c, s), NEW i \in 0..Len(c.opcodes), NEW w \in c.wires, NEW v \in Field
  PROVE  /\ Later(c, s, Insert(s, i, w, v)) /\ Insert(s, i, w, v).blocks = s.blocks
         /\ ~Insert(s, i, w, v).failed =>
              /\ w \in DOMAIN Insert(s, i, w, v).values /\ Insert(s, i, w, v).values[w] = v
              /\ DOMAIN Insert(s, i, w, v).values = DOMAIN s.values \cup {w}
<1> DEFINE t == Assign(s, w, v)
<1>1. CASE w \in DOMAIN s.values /\ s.values[w] = v
  BY <1>1, LaterSame DEF Insert
<1>2. CASE w \in DOMAIN s.values /\ s.values[w] # v
  <2>1. Insert(s, i, w, v) = Fail(s, i)
    BY <1>2 DEF Insert
  <2> QED BY <2>1, FailFacts
<1>3. CASE w \notin DOMAIN s.values
  <2>1. Insert(s, i, w, v) = t
    BY <1>3 DEF Insert, Assign
  <2>2. /\ StateOK(c, t) /\ t.blocks = s.blocks /\ t.failed = s.failed
        /\ DOMAIN t.values = DOMAIN s.values \cup {w} /\ t.values[w] = v
        /\ \A u \in DOMAIN s.values : u # w => t.values[u] = s.values[u]
    BY AssignFacts
  <2> HIDE DEF t
  <2>3. Later(c, s, t)
    BY <1>3, <2>2 DEF Later, Extends
  <2> QED BY <2>1, <2>2, <2>3
<1> QED BY <1>1, <1>2, <1>3

LEMMA OpcodeOf ==
  ASSUME NEW c, Runnable(c), NEW i \in 1..Len(c.opcodes)
  PROVE  /\ i \in 0..Len(c.opcodes) /\ i \in Nat \ {0} /\ i \in DOMAIN c.opcodes
         /\ c.opcodes[i].wires \subseteq c.wires /\ WellFormedOpcode(c.opcodes[i])
         /\ c.opcodes[i].type \notin {"Call", "Recursion"} /\ c.opcodes[i].evaluable
<1>1. Len(c.opcodes) \in Nat /\ DOMAIN c.opcodes = 1..Len(c.opcodes) /\ WellFormedCircuit(c)
  BY CircuitFacts DEF Runnable
<1>2. i \in DOMAIN c.opcodes
  BY <1>1
<1>3. c.opcodes[i].type \notin {"Call", "Recursion"} /\ c.opcodes[i].evaluable
  BY <1>2 DEF Runnable, Executable, ExecutableOpcode
<1>4. c.opcodes[i].wires \subseteq c.wires /\ WellFormedOpcode(c.opcodes[i])
  BY <1>1, CircuitFacts
<1> QED BY <1>1, <1>2, <1>3, <1>4

Vanishes(o, a) == Evaluate(o.mul, o.lin, o.q, a) = 0

LEMMA VanishesSame ==
  ASSUME NEW c, Runnable(c), NEW i \in 1..Len(c.opcodes), c.opcodes[i].type = "AssertZero", NEW a, NEW b,
         \A w \in c.opcodes[i].wires : a[w] = b[w]
  PROVE  Vanishes(c.opcodes[i], a) <=> Vanishes(c.opcodes[i], b)
<1>1. c.opcodes[i].wires = ExpressionWires(c.opcodes[i].mul, c.opcodes[i].lin)
  BY OpcodeOf DEF Runnable, Executable, ExecutableOpcode
<1> QED BY <1>1, EvaluateSame DEF Vanishes

LEMMA VanishingAgrees ==
  ASSUME NEW c, Runnable(c), NEW i \in 1..Len(c.opcodes), c.opcodes[i].type = "AssertZero",
         NEW a \in [c.wires -> Field], Vanishes(c.opcodes[i], a), NEW B
  PROVE  /\ Judgeable(c.opcodes[i], a, B) /\ Accepts(c.opcodes[i], a, B)
         /\ B = BlocksAfter(c.opcodes[i], a, B)
<1> DEFINE o == c.opcodes[i]
           e == [w \in o.wires |-> a[w]]
<1>1. o.wires \subseteq c.wires /\ o.type # "Call" /\ o.evaluable /\ i \in DOMAIN c.opcodes
  BY OpcodeOf
<1>2. o.accepts = {x \in [o.wires -> Field] : Vanishes(o, x)}
  BY <1>1 DEF Runnable, Executable, ExecutableOpcode, Vanishes
<1>3. e \in [o.wires -> Field] /\ \A w \in o.wires : e[w] = a[w]
  BY <1>1
<1> HIDE DEF e
<1>4. Vanishes(o, e)
  BY <1>3, VanishesSame
<1>5. AcirHolds(o, a)
  BY <1>2, <1>3, <1>4 DEF AcirHolds, e
<1> QED BY <1>1, <1>5 DEF Judgeable, Accepts, BlocksAfter, IsEvaluated, IsAccess

LEMMA ExpressionStep ==
  ASSUME NEW c, Runnable(c), NEW i \in 1..Len(c.opcodes), c.opcodes[i].type = "AssertZero",
         NEW s, StateOK(c, s), ~s.failed, NEW t, t = SolveExpression(s, i, c.opcodes[i])
  PROVE  Later(c, s, t) /\ (~t.failed => Agreed(c, s, c.opcodes[i], t))
<1> DEFINE o == c.opcodes[i]
           unknown == o.wires \ DOMAIN s.values
           w == CHOOSE u \in unknown : TRUE
           squared == \E k \in DOMAIN o.mul : {o.mul[k][2], o.mul[k][3]} = {w}
           with(v) == Overlay(Entry(w, v), s.values)
           roots == {v \in Field : Vanishes(o, with(v))}
           v == CHOOSE u \in roots : TRUE
<1>1. i \in 0..Len(c.opcodes) /\ 0 \in 0..Len(c.opcodes) /\ o.wires \subseteq c.wires
  BY OpcodeOf
<1>2. t = IF unknown = {} THEN IF Vanishes(o, s.values) THEN s ELSE Fail(s, i)
          ELSE IF Cardinality(unknown) > 1 \/ squared THEN Fail(s, 0)
          ELSE IF roots = {} THEN Fail(s, i)
          ELSE IF roots = Field THEN s
          ELSE Insert(s, i, w, v)
  BY DEF SolveExpression, Vanishes
<1>3. ASSUME NEW a \in [c.wires -> Field], Extends(a, s.values), NEW u \in c.wires, o.wires \subseteq DOMAIN s.values \cup {u}
      PROVE  Vanishes(o, a) <=> Vanishes(o, Overlay(Entry(u, a[u]), s.values))
  <2> DEFINE f == Overlay(Entry(u, a[u]), s.values)
  <2>1. f[u] = a[u] /\ \A x \in DOMAIN s.values : x # u => f[x] = s.values[x]
    BY DEF Overlay, Entry
  <2> HIDE DEF f
  <2>2. \A x \in o.wires : a[x] = f[x]
    BY <1>3, <2>1 DEF Extends
  <2>3. Vanishes(o, a) <=> Vanishes(o, f)
    BY <2>2, VanishesSame
  <2> QED BY <2>3 DEF f
<1>4. CASE unknown = {}
  <2>1. CASE Vanishes(o, s.values)
    <3>1. t = s
      BY <1>2, <1>4, <2>1
    <3>2. ASSUME NEW a \in [c.wires -> Field], Extends(a, s.values) PROVE Vanishes(o, a)
      <4>1. \A x \in o.wires : a[x] = s.values[x]
        BY <1>4, <3>2 DEF Extends
      <4> QED BY <2>1, <4>1, VanishesSame
    <3>3. Agreed(c, s, o, s)
      BY <3>2, VanishingAgrees DEF Agreed
    <3> QED BY <3>1, <3>3, LaterSame
  <2>2. CASE ~Vanishes(o, s.values)
    BY <1>1, <1>2, <1>4, <2>2, FailFacts
  <2> QED BY <2>1, <2>2
<1>5. CASE unknown # {} /\ (Cardinality(unknown) > 1 \/ squared \/ roots = {})
  <2>1. t = Fail(s, 0) \/ t = Fail(s, i)
    BY <1>2, <1>5
  <2> QED BY <1>1, <2>1, FailFacts
<1>6. CASE unknown # {} /\ ~(Cardinality(unknown) > 1) /\ ~squared /\ roots # {}
  <2>1. w \in unknown
    BY <1>6
  <2>2. o.wires \subseteq DOMAIN s.values \cup {w}
    <3>1. IsFiniteSet(unknown)
      BY <1>1, CircuitFacts, FS_Subset DEF Runnable
    <3>2. Cardinality(unknown) \in Nat /\ IsFiniteSet(unknown \ {w}) /\ Cardinality(unknown \ {w}) = Cardinality(unknown) - 1
      BY <2>1, <3>1, FS_RemoveElement, FS_CardinalityType
    <3>3. Cardinality(unknown \ {w}) \in Nat
      BY <3>2, FS_CardinalityType
    <3> HIDE DEF w
    <3>4. Cardinality(unknown \ {w}) = 0
      <4> DEFINE n == Cardinality(unknown)
                 m == Cardinality(unknown \ {w})
      <4>1. n \in Nat /\ m \in Nat /\ m = n - 1 /\ ~(n > 1)
        BY <1>6, <3>2, <3>3
      <4> HIDE DEF n, m
      <4>2. m = 0
        BY <4>1
      <4> QED BY <4>2 DEF m
    <3>5. unknown \ {w} = {}
      BY <3>2, <3>4, FS_EmptySet
    <3> QED BY <3>5
  <2>3. w \in c.wires /\ w \notin DOMAIN s.values
    BY <1>1, <2>1
  <2>4. v \in roots
    BY <1>6
  <2>5. \A x : x \in roots <=> x \in Field /\ Vanishes(o, with(x))
    OBVIOUS
  <2> HIDE DEF roots, v, w, squared
  <2>6. ASSUME NEW a \in [c.wires -> Field], Extends(a, s.values), a[w] \in roots PROVE Vanishes(o, a)
    <3>1. Vanishes(o, with(a[w]))
      BY <2>5, <2>6
    <3> QED BY <1>3, <2>2, <2>3, <2>6, <3>1
  <2>7. CASE roots = Field
    <3>1. t = s
      BY <1>2, <1>6, <2>7
    <3>2. \A a \in [c.wires -> Field] : Extends(a, s.values) => Vanishes(o, a)
      BY <2>3, <2>6, <2>7
    <3>3. Agreed(c, s, o, s)
      BY <3>2, VanishingAgrees DEF Agreed
    <3> QED BY <3>1, <3>3, LaterSame
  <2>8. CASE roots # Field
    <3>1. t = Insert(s, i, w, v)
      BY <1>2, <1>6, <2>8
    <3>2. v \in Field
      BY <2>4, <2>5
    <3>3. Later(c, s, t) /\ t.blocks = s.blocks /\ (~t.failed => w \in DOMAIN t.values /\ t.values[w] = v)
      BY <1>1, <2>3, <3>1, <3>2, InsertFacts
    <3>4. ASSUME ~t.failed, NEW a \in [c.wires -> Field], Extends(a, t.values) PROVE Vanishes(o, a)
      <4>1. a[w] = v
        BY <3>3, <3>4 DEF Extends
      <4>2. Extends(a, s.values)
        BY <3>3, <3>4, ExtendsTransitive DEF Later
      <4> QED BY <2>4, <2>6, <4>1, <4>2
    <3>5. ASSUME ~t.failed PROVE Agreed(c, s, o, t)
      BY <3>3, <3>4, <3>5, VanishingAgrees DEF Agreed
    <3> QED BY <3>3, <3>5
  <2> QED BY <2>7, <2>8
<1> QED BY <1>4, <1>5, <1>6

(* The answers of a call are inserted one after the other. *)
Inserting(In, n, s, i, ws, vs) ==
  In = [k \in 0..n |-> IF k = 0 THEN s ELSE Insert(In[k-1], i, ws[k], vs[k])]

LEMMA InsertingExists ==
  ASSUME NEW n \in Nat, NEW s, NEW i, NEW ws, NEW vs
  PROVE  \E In : Inserting(In, n, s, i, ws, vs)
<1> DEFINE K == {k \in 0..n : \E In : Inserting(In, k, s, i, ws, vs)}
<1>1. 0 \in K
  <2> DEFINE In == [k \in 0..0 |-> s]
  <2>1. In = [k \in 0..0 |-> IF k = 0 THEN s ELSE Insert(In[k-1], i, ws[k], vs[k])]
    OBVIOUS
  <2>2. Inserting(In, 0, s, i, ws, vs)
    BY <2>1, Zenon DEF Inserting
  <2> QED BY <2>2
<1>2. \A k \in 0..n-1 : k \in K => k + 1 \in K
  <2> SUFFICES ASSUME NEW k \in 0..n-1, k \in K PROVE k + 1 \in K
    OBVIOUS
  <2>1. PICK In : Inserting(In, k, s, i, ws, vs)
    OBVIOUS
  <2> DEFINE Go(F, j) == IF j = 0 THEN s ELSE Insert(F[j-1], i, ws[j], vs[j])
             F == [j \in 0..k+1 |-> IF j = k + 1 THEN Go(In, k + 1) ELSE In[j]]
  <2>2. \A j \in 0..k : In[j] = Go(In, j)
    BY <2>1 DEF Inserting
  <2>3. ASSUME NEW j \in 0..k+1 PROVE F[j] = Go(F, j)
    <3>1. CASE j = 0
      BY <2>2, <3>1
    <3>2. CASE j # 0
      <4>1. j - 1 \in 0..k+1 /\ j - 1 # k + 1
        BY <3>2
      <4>2. F[j-1] = In[j-1]
        BY <4>1, Zenon
      <4>3. F[j] = Go(In, j)
        <5>1. CASE j = k + 1
          BY <5>1
        <5>2. CASE j # k + 1
          BY <2>2, <5>2
        <5> QED BY <5>1, <5>2
      <4> QED BY <4>2, <4>3, Zenon
    <3> QED BY <3>1, <3>2
  <2>4. F = [j \in 0..k+1 |-> F[j]]
    OBVIOUS
  <2> HIDE DEF F
  <2>5. Inserting(F, k + 1, s, i, ws, vs)
    BY <2>3, <2>4, Zenon DEF Inserting
  <2> QED BY <2>5
<1>3. n \in K
  <2> HIDE DEF K
  <2>1. \A k \in 0..n : k \in K
    BY <1>1, <1>2, CountingUp
  <2> QED BY <2>1
<1> QED BY <1>3

LEMMA InsertAllMeans ==
  ASSUME NEW s, NEW i, NEW ws, NEW vs, Len(ws) \in Nat
  PROVE  \E In : /\ In[0] = s /\ InsertAll(s, i, ws, vs) = In[Len(ws)]
                 /\ \A k \in 1..Len(ws) : In[k] = Insert(In[k-1], i, ws[k], vs[k])
<1> DEFINE In == CHOOSE F : Inserting(F, Len(ws), s, i, ws, vs)
<1>1. Inserting(In, Len(ws), s, i, ws, vs)
  BY InsertingExists
<1>2. InsertAll(s, i, ws, vs) = In[Len(ws)]
  BY Zenon DEF InsertAll, Inserting
<1> HIDE DEF In
<1>3. In[0] = s /\ \A k \in 1..Len(ws) : In[k] = Insert(In[k-1], i, ws[k], vs[k])
  BY <1>1 DEF Inserting
<1> QED BY <1>2, <1>3

LEMMA InsertAllFacts ==
  ASSUME NEW c, NEW s, StateOK(c, s), NEW i \in 0..Len(c.opcodes), NEW ws \in Seq(c.wires),
         NEW vs \in [1..Len(ws) -> Field]
  PROVE  /\ Later(c, s, InsertAll(s, i, ws, vs)) /\ InsertAll(s, i, ws, vs).blocks = s.blocks
         /\ ~InsertAll(s, i, ws, vs).failed => \A k \in 1..Len(ws) : ws[k] \in DOMAIN InsertAll(s, i, ws, vs).values
<1>0. Len(ws) \in Nat
  OBVIOUS
<1>1. PICK In : /\ In[0] = s /\ InsertAll(s, i, ws, vs) = In[Len(ws)]
                /\ \A k \in 1..Len(ws) : In[k] = Insert(In[k-1], i, ws[k], vs[k])
  BY <1>0, InsertAllMeans
<1> DEFINE Has(k) == /\ Later(c, s, In[k]) /\ In[k].blocks = s.blocks
                     /\ ~In[k].failed => \A j \in 1..k : ws[j] \in DOMAIN In[k].values
           K == {k \in 0..Len(ws) : Has(k)}
<1>2. Has(0)
  BY <1>1, LaterSame
<1>3. ASSUME NEW k \in 0..Len(ws)-1, Has(k) PROVE Has(k + 1)
  <2> DEFINE t == In[k]
             u == In[k + 1]
  <2>1. k + 1 \in 1..Len(ws) /\ (k + 1) - 1 = k
    BY <1>0
  <2>2. u = Insert(t, i, ws[k+1], vs[k+1])
    BY <1>1, <2>1
  <2>3. ws[k+1] \in c.wires /\ vs[k+1] \in Field
    BY <2>1
  <2>4. Later(c, s, t) /\ t.blocks = s.blocks /\ (~t.failed => \A j \in 1..k : ws[j] \in DOMAIN t.values)
    BY <1>3
  <2> HIDE DEF t, u
  <2>5. StateOK(c, t)
    BY <2>4 DEF Later
  <2>6. Later(c, t, u) /\ u.blocks = t.blocks /\ (~u.failed => ws[k+1] \in DOMAIN u.values)
    BY <2>2, <2>3, <2>5, InsertFacts
  <2>7. Later(c, s, u)
    BY <2>4, <2>6, LaterTransitive
  <2>8. ASSUME ~u.failed, NEW j \in 1..k+1 PROVE ws[j] \in DOMAIN u.values
    <3>1. ~t.failed
      BY <2>6, <2>8 DEF Later
    <3>2. \A w \in DOMAIN t.values : w \in DOMAIN u.values
      BY <2>6 DEF Later, Extends, StateOK
    <3>3. j = k + 1 \/ j \in 1..k
      BY <2>1
    <3> QED BY <2>4, <2>6, <2>8, <3>1, <3>2, <3>3
  <2> QED BY <2>4, <2>6, <2>7, <2>8 DEF u
<1>4. Len(ws) \in K
  <2>1. 0 \in K /\ \A k \in 0..Len(ws)-1 : k \in K => k + 1 \in K
    BY <1>0, <1>2, <1>3
  <2> HIDE DEF K
  <2>2. \A k \in 0..Len(ws) : k \in K
    BY <1>0, <2>1, CountingUp
  <2> QED BY <1>0, <2>2
<1> QED BY <1>1, <1>4

LEMMA HintAgrees ==
  ASSUME NEW c, Runnable(c), NEW i \in 1..Len(c.opcodes), c.opcodes[i].type = "BrilligCall", NEW a, NEW B
  PROVE  /\ Judgeable(c.opcodes[i], a, B) /\ Accepts(c.opcodes[i], a, B)
         /\ B = BlocksAfter(c.opcodes[i], a, B)
<1> DEFINE o == c.opcodes[i]
<1>1. i \in DOMAIN c.opcodes /\ o.evaluable
  BY OpcodeOf
<1>2. o.wires = {} /\ o.accepts = {<< >>}
  BY <1>1 DEF Runnable, Executable, ExecutableOpcode
<1>3. [w \in {} |-> a[w]] = << >>
  OBVIOUS
<1>4. AcirHolds(o, a)
  BY <1>2, <1>3 DEF AcirHolds
<1> QED BY <1>1, <1>2, <1>4 DEF Judgeable, Accepts, BlocksAfter, IsEvaluated, IsAccess

LEMMA HintStep ==
  ASSUME NEW c, Runnable(c), NEW i \in 1..Len(c.opcodes), c.opcodes[i].type = "BrilligCall",
         NEW s, StateOK(c, s), ~s.failed, NEW t, t = Step(c, s, i)
  PROVE  /\ Later(c, s, t) /\ (~t.failed => Agreed(c, s, c.opcodes[i], t))
         /\ ~t.failed => ToSet(c.opcodes[i].answers) \subseteq DOMAIN t.values
<1> DEFINE o == c.opcodes[i]
           known == Known(s, ToSet(o.reads)) /\ At(s, o.reads) \in DOMAIN o.F
<1>1. i \in DOMAIN c.opcodes /\ i \in 0..Len(c.opcodes) /\ 0 \in 0..Len(c.opcodes)
  BY OpcodeOf
<1>2. o.answers \in Seq(c.wires) /\ o.F \in [DOMAIN o.F -> [1..Len(o.answers) -> Field]]
  BY <1>1 DEF Runnable, Executable, ExecutableOpcode
<1>3. t = IF known THEN InsertAll(s, i, o.answers, o.F[At(s, o.reads)]) ELSE Fail(s, 0)
  BY DEF Step, IsEvaluated, IsAccess
<1>4. CASE ~known
  BY <1>1, <1>3, <1>4, FailFacts
<1>5. CASE known
  <2> DEFINE vs == o.F[At(s, o.reads)]
  <2>1. vs \in [1..Len(o.answers) -> Field]
    BY <1>2, <1>5
  <2>2. t = InsertAll(s, i, o.answers, vs)
    BY <1>3, <1>5
  <2> HIDE DEF vs
  <2>3. /\ Later(c, s, t) /\ t.blocks = s.blocks
        /\ ~t.failed => \A k \in 1..Len(o.answers) : o.answers[k] \in DOMAIN t.values
    BY <1>1, <1>2, <2>1, <2>2, InsertAllFacts
  <2>4. DOMAIN o.answers = 1..Len(o.answers)
    BY <1>2
  <2>5. Agreed(c, s, o, t)
    BY <2>3, HintAgrees DEF Agreed
  <2> QED BY <2>3, <2>4, <2>5 DEF ToSet
<1> QED BY <1>4, <1>5

LEMMA EvaluatedStep ==
  ASSUME NEW c, Runnable(c), NEW i \in 1..Len(c.opcodes), IsEvaluated(c.opcodes[i]),
         NEW s, StateOK(c, s), ~s.failed, NEW t, t = Step(c, s, i)
  PROVE  Later(c, s, t) /\ (~t.failed => Agreed(c, s, c.opcodes[i], t))
<1> DEFINE o == c.opcodes[i]
           known == Known(s, {o.in}) /\ s.values[o.in] \in DOMAIN o.F
<1>1. /\ i \in DOMAIN c.opcodes /\ i \in 0..Len(c.opcodes) /\ 0 \in 0..Len(c.opcodes)
      /\ o.wires \subseteq c.wires /\ WellFormedOpcode(o) /\ o.evaluable
  BY OpcodeOf
<1>2. o.wires = {o.in, o.out} /\ o.F \in [DOMAIN o.F -> Field]
  BY <1>1 DEF WellFormedOpcode
<1>3. t = IF known THEN Insert(s, i, o.out, o.F[s.values[o.in]]) ELSE Fail(s, 0)
  BY DEF Step, IsEvaluated, IsAccess
<1>4. CASE ~known
  BY <1>1, <1>3, <1>4, FailFacts
<1>5. CASE known
  <2> DEFINE v == o.F[s.values[o.in]]
  <2>1. v \in Field /\ o.out \in c.wires /\ o.in \in DOMAIN s.values /\ s.values[o.in] \in DOMAIN o.F
    BY <1>1, <1>2, <1>5 DEF Known
  <2>2. t = Insert(s, i, o.out, v)
    BY <1>3, <1>5
  <2>3. v = o.F[s.values[o.in]]
    OBVIOUS
  <2> HIDE DEF v
  <2>4. Later(c, s, t) /\ t.blocks = s.blocks /\ (~t.failed => o.out \in DOMAIN t.values /\ t.values[o.out] = v)
    BY <1>1, <2>1, <2>2, InsertFacts
  <2>5. ASSUME ~t.failed, NEW a \in [c.wires -> Field], Extends(a, t.values)
        PROVE  Judgeable(o, a, s.blocks) /\ Accepts(o, a, s.blocks) /\ t.blocks = BlocksAfter(o, a, s.blocks)
    <3>1. Extends(a, s.values)
      BY <2>4, <2>5, ExtendsTransitive DEF Later
    <3>2. a[o.in] = s.values[o.in] /\ a[o.out] = v /\ o.in \in DOMAIN a /\ o.out \in DOMAIN a
      BY <2>1, <2>4, <2>5, <3>1 DEF Extends
    <3>3. Judgeable(o, a, s.blocks)
      BY <1>1, <3>2 DEF Judgeable, IsEvaluated, IsAccess
    <3>4. Accepts(o, a, s.blocks)
      BY <2>1, <2>3, <3>2 DEF Accepts
    <3> QED BY <2>4, <3>3, <3>4 DEF BlocksAfter, IsEvaluated
  <2> QED BY <2>4, <2>5 DEF Agreed
<1> QED BY <1>4, <1>5

LEMMA InitStep ==
  ASSUME NEW c, Runnable(c), NEW i \in 1..Len(c.opcodes), c.opcodes[i].type = "MemoryInit",
         NEW s, StateOK(c, s), ~s.failed, NEW t, t = Step(c, s, i)
  PROVE  Later(c, s, t) /\ (~t.failed => Agreed(c, s, c.opcodes[i], t))
<1> DEFINE o == c.opcodes[i]
           B == Overlay(Entry(o.block, At(s, o.init)), s.blocks)
<1>1. /\ i \in DOMAIN c.opcodes /\ i \in 0..Len(c.opcodes) /\ 0 \in 0..Len(c.opcodes)
      /\ o.wires \subseteq c.wires /\ WellFormedOpcode(o) /\ o.evaluable
  BY OpcodeOf
<1>2. o.init \in Seq(o.wires)
  BY <1>1 DEF WellFormedOpcode
<1>3. t = IF Known(s, o.wires) THEN [s EXCEPT !.blocks = B] ELSE Fail(s, 0)
  BY DEF Step, IsEvaluated, IsAccess
<1>4. CASE ~Known(s, o.wires)
  BY <1>1, <1>3, <1>4, FailFacts
<1>5. CASE Known(s, o.wires)
  <2>1. t = [values |-> s.values, blocks |-> B, failed |-> s.failed, at |-> s.at]
    BY <1>3, <1>5 DEF StateOK
  <2>2. At(s, o.init) \in Seq(Field) /\ \A k \in DOMAIN o.init : o.init[k] \in DOMAIN s.values
    <3>1. o.wires \subseteq DOMAIN s.values
      BY <1>5 DEF Known
    <3>2. \A k \in 1..Len(o.init) : o.init[k] \in o.wires
      BY <1>2
    <3>3. \A k \in 1..Len(o.init) : s.values[o.init[k]] \in Field
      BY <3>1, <3>2 DEF StateOK, Valued
    <3>4. DOMAIN o.init = 1..Len(o.init) /\ Len(o.init) \in Nat
      BY <1>2
    <3> DEFINE x == [k \in 1..Len(o.init) |-> s.values[o.init[k]]]
    <3>5. x \in Seq(Field)
      BY <3>3, <3>4
    <3>6. At(s, o.init) = x
      BY <3>4 DEF At
    <3> QED BY <3>1, <3>2, <3>4, <3>5, <3>6
  <2>3. Blocked(B)
    BY <2>2 DEF Blocked, StateOK, Overlay, Entry
  <2> HIDE DEF B
  <2>4. StateOK(c, t) /\ t.values = s.values /\ t.blocks = B /\ t.failed = s.failed
    BY <2>1, <2>3 DEF StateOK
  <2>5. ASSUME NEW a \in [c.wires -> Field], Extends(a, t.values)
        PROVE  Judgeable(o, a, s.blocks) /\ Accepts(o, a, s.blocks) /\ t.blocks = BlocksAfter(o, a, s.blocks)
    <3>1. \A k \in DOMAIN o.init : a[o.init[k]] = s.values[o.init[k]]
      BY <2>2, <2>4, <2>5 DEF Extends
    <3>2. At(s, o.init) = [k \in DOMAIN o.init |-> a[o.init[k]]]
      BY <3>1 DEF At
    <3>3. BlocksAfter(o, a, s.blocks) = B
      BY <3>2 DEF BlocksAfter, B
    <3> QED BY <1>1, <2>4, <3>3 DEF Judgeable, Accepts, IsEvaluated, IsAccess
  <2> QED BY <2>4, <2>5 DEF Agreed, Later, Extends
<1> QED BY <1>4, <1>5

LEMMA OtherStep ==
  ASSUME NEW c, Runnable(c), NEW i \in 1..Len(c.opcodes),
         c.opcodes[i].type \notin {"AssertZero", "BrilligCall", "MemoryInit"},
         ~IsEvaluated(c.opcodes[i]), ~IsAccess(c.opcodes[i]),
         NEW s, StateOK(c, s), ~s.failed, NEW t, t = Step(c, s, i)
  PROVE  Later(c, s, t) /\ (~t.failed => Agreed(c, s, c.opcodes[i], t))
<1> DEFINE o == c.opcodes[i]
           known == Known(s, o.wires) /\ AcirHolds(o, s.values)
<1>1. /\ i \in DOMAIN c.opcodes /\ i \in 0..Len(c.opcodes) /\ o.wires \subseteq c.wires
      /\ o.type \notin {"Call", "Recursion"} /\ o.evaluable
  BY OpcodeOf
<1>2. t = IF known THEN s ELSE Fail(s, i)
  BY <1>1 DEF Step
<1>3. CASE ~known
  BY <1>1, <1>2, <1>3, FailFacts
<1>4. CASE known
  <2>1. t = s
    BY <1>2, <1>4
  <2>2. ASSUME NEW a \in [c.wires -> Field], Extends(a, s.values)
        PROVE  Judgeable(o, a, s.blocks) /\ Accepts(o, a, s.blocks) /\ s.blocks = BlocksAfter(o, a, s.blocks)
    <3>1. \A w \in o.wires : a[w] = s.values[w]
      BY <1>4, <2>2 DEF Known, Extends
    <3>2. [w \in o.wires |-> a[w]] = [w \in o.wires |-> s.values[w]]
      BY <3>1
    <3>3. AcirHolds(o, a)
      BY <1>4, <3>2 DEF AcirHolds
    <3> QED BY <1>1, <3>3 DEF Judgeable, Accepts, BlocksAfter, IsAccess
  <2> QED BY <2>1, <2>2, LaterSame DEF Agreed
<1> QED BY <1>3, <1>4

LEMMA AccessStep ==
  ASSUME NEW c, Runnable(c), NEW i \in 1..Len(c.opcodes), IsAccess(c.opcodes[i]),
         NEW s, StateOK(c, s), ~s.failed, NEW t, t = Step(c, s, i)
  PROVE  Later(c, s, t) /\ (~t.failed => Agreed(c, s, c.opcodes[i], t))
<1> DEFINE o == c.opcodes[i]
           at == s.values[o.index]
           B == s.blocks
<1>1. /\ i \in DOMAIN c.opcodes /\ i \in 0..Len(c.opcodes) /\ 0 \in 0..Len(c.opcodes)
      /\ o.wires \subseteq c.wires /\ WellFormedOpcode(o) /\ o.evaluable
  BY OpcodeOf
<1>2. o.wires = {o.index, o.value}
  BY <1>1 DEF WellFormedOpcode
<1>3. t = IF Known(s, {o.index}) THEN Access(s, i, o) ELSE Fail(s, 0)
  BY DEF Step, IsEvaluated, IsAccess
<1>4. CASE ~Known(s, {o.index}) \/ o.block \notin DOMAIN B \/ at >= Len(B[o.block])
  <2>1. t = Fail(s, 0) \/ t = Fail(s, i)
    BY <1>3, <1>4 DEF Access
  <2> QED BY <1>1, <2>1, FailFacts
<1>5. CASE Known(s, {o.index}) /\ o.block \in DOMAIN B /\ ~(at >= Len(B[o.block]))
  <2>1. t = Access(s, i, o) /\ o.index \in DOMAIN s.values
    BY <1>3, <1>5 DEF Known
  <2>2. B[o.block] \in Seq(Field) /\ at \in Nat
    BY <1>5, <2>1, ParametersAreNatural DEF StateOK, Blocked, Valued, Field
  <2>3. at < Len(B[o.block]) /\ at + 1 \in 1..Len(B[o.block])
    BY <1>5, <2>2
  <2>4. CASE o.type = "Read"
    <3> DEFINE v == B[o.block][at + 1]
    <3>1. v \in Field /\ o.value \in c.wires
      BY <1>1, <1>2, <2>2, <2>3
    <3>2. t = Insert(s, i, o.value, v)
      BY <1>5, <2>1, <2>4 DEF Access
    <3>3. v = B[o.block][at + 1]
      OBVIOUS
    <3> HIDE DEF v
    <3>4. Later(c, s, t) /\ t.blocks = B /\ (~t.failed => o.value \in DOMAIN t.values /\ t.values[o.value] = v)
      BY <1>1, <3>1, <3>2, InsertFacts
    <3>5. ASSUME ~t.failed, NEW a \in [c.wires -> Field], Extends(a, t.values)
          PROVE  Judgeable(o, a, B) /\ Accepts(o, a, B) /\ t.blocks = BlocksAfter(o, a, B)
      <4>1. Extends(a, s.values)
        BY <3>4, <3>5, ExtendsTransitive DEF Later
      <4>2. a[o.index] = at /\ a[o.value] = v
        BY <2>1, <3>4, <3>5, <4>1 DEF Extends
      <4>3. Judgeable(o, a, B)
        BY <1>1, <1>5, <2>4 DEF Judgeable, IsEvaluated
      <4>4. Accepts(o, a, B)
        BY <2>3, <2>4, <3>3, <4>2 DEF Accepts, IsEvaluated, IsAccess, InBlock
      <4> QED BY <2>4, <3>4, <4>3, <4>4 DEF BlocksAfter
    <3> QED BY <3>4, <3>5 DEF Agreed
  <2>5. CASE o.type = "Write"
    <3>1. CASE ~Known(s, {o.value})
      <4>1. t = Fail(s, 0)
        BY <1>5, <2>1, <2>5, <3>1 DEF Access
      <4> QED BY <1>1, <4>1, FailFacts
    <3>2. CASE Known(s, {o.value})
      <4> DEFINE v == s.values[o.value]
                 A == [B EXCEPT ![o.block][at + 1] = v]
      <4>1. t = [s EXCEPT !.blocks[o.block][at + 1] = v]
        BY <1>5, <2>1, <2>5, <3>2 DEF Access
      <4>2. t = [values |-> s.values, blocks |-> A, failed |-> s.failed, at |-> s.at]
        BY <4>1 DEF StateOK
      <4>3. o.value \in DOMAIN s.values /\ v \in Field
        BY <3>2 DEF Known, StateOK, Valued
      <4>4. Blocked(A)
        <5>1. [B[o.block] EXCEPT ![at + 1] = v] \in Seq(Field)
          BY <2>2, <2>3, <4>3
        <5> HIDE DEF v
        <5>2. \A b \in DOMAIN A : A[b] = IF b = o.block THEN [B[o.block] EXCEPT ![at + 1] = v] ELSE B[b]
          OBVIOUS
        <5>3. DOMAIN A = DOMAIN B
          OBVIOUS
        <5> QED BY <5>1, <5>2, <5>3 DEF Blocked, StateOK
      <4>5. A = [B EXCEPT ![o.block][at + 1] = v]
        OBVIOUS
      <4> HIDE DEF A
      <4>6. StateOK(c, t) /\ t.values = s.values /\ t.blocks = A /\ t.failed = s.failed
        BY <4>2, <4>4 DEF StateOK
      <4>7. ASSUME NEW a \in [c.wires -> Field], Extends(a, t.values)
            PROVE  Judgeable(o, a, B) /\ Accepts(o, a, B) /\ t.blocks = BlocksAfter(o, a, B)
        <5>1. a[o.index] = at /\ a[o.value] = v
          BY <2>1, <4>3, <4>6, <4>7 DEF Extends
        <5>2. Judgeable(o, a, B)
          BY <1>1, <1>2, <1>5, <2>5 DEF Judgeable, IsEvaluated
        <5>3. Accepts(o, a, B)
          BY <2>3, <2>5, <5>1 DEF Accepts, IsEvaluated, IsAccess, InBlock
        <5>4. BlocksAfter(o, a, B) = A
          BY <2>5, <4>5, <5>1, Zenon DEF BlocksAfter
        <5> QED BY <4>6, <5>2, <5>3, <5>4
      <4> QED BY <4>6, <4>7 DEF Agreed, Later, Extends
    <3> QED BY <3>1, <3>2
  <2> QED BY <2>4, <2>5 DEF IsAccess
<1> QED BY <1>4, <1>5

(* Every opcode adds to the run, and what it leaves behind it accepts. *)
LEMMA StepFacts ==
  ASSUME NEW c, Runnable(c), NEW i \in 1..Len(c.opcodes), NEW s, StateOK(c, s), NEW t, t = Step(c, s, i)
  PROVE  Later(c, s, t) /\ (~t.failed => Agreed(c, s, c.opcodes[i], t))
<1>1. CASE s.failed
  <2>1. t = s
    BY <1>1 DEF Step
  <2> QED BY <1>1, <2>1, LaterSame
<1>2. CASE ~s.failed
  <2>1. CASE c.opcodes[i].type = "AssertZero"
    <3>1. t = SolveExpression(s, i, c.opcodes[i])
      BY <1>2, <2>1 DEF Step, IsEvaluated, IsAccess
    <3> QED BY <1>2, <2>1, <3>1, ExpressionStep
  <2> QED BY <1>2, <2>1, HintStep, EvaluatedStep, InitStep, AccessStep, OtherStep
<1> QED BY <1>1, <1>2

-----------------------------------------------------------------------------
(* Running several opcodes. *)

Running(On, c, s, first, last) ==
  On = [i \in first-1..last |-> IF i < first THEN s ELSE Step(c, On[i-1], i)]

LEMMA RunningExists ==
  ASSUME NEW c, NEW s, NEW first \in Nat \ {0}, NEW n \in Nat
  PROVE  \E On : Running(On, c, s, first, first - 1 + n)
<1> DEFINE K == {k \in 0..n : \E On : Running(On, c, s, first, first - 1 + k)}
<1>1. 0 \in K
  <2> DEFINE On == [i \in first-1..first-1+0 |-> s]
  <2>1. On = [i \in first-1..first-1+0 |-> IF i < first THEN s ELSE Step(c, On[i-1], i)]
    <3>1. \A i \in first-1..first-1+0 : i < first
      OBVIOUS
    <3> QED BY <3>1
  <2>2. Running(On, c, s, first, first - 1 + 0)
    BY <2>1, Zenon DEF Running
  <2> QED BY <2>2
<1>2. \A k \in 0..n-1 : k \in K => k + 1 \in K
  <2> SUFFICES ASSUME NEW k \in 0..n-1, k \in K PROVE k + 1 \in K
    OBVIOUS
  <2> DEFINE last == first - 1 + k
             I == first-1..last
             J == first-1..last+1
             Go(F, i) == IF i < first THEN s ELSE Step(c, F[i-1], i)
  <2>0. last + 1 = first - 1 + (k + 1) /\ last \in Nat /\ last >= first - 1
    OBVIOUS
  <2>1. PICK On : Running(On, c, s, first, last)
    OBVIOUS
  <2> DEFINE F == [i \in J |-> IF i = last + 1 THEN Go(On, i) ELSE On[i]]
  <2>2. \A i \in I : On[i] = Go(On, i)
    BY <2>1 DEF Running
  <2> HIDE DEF last
  <2>3. ASSUME NEW i \in J PROVE F[i] = Go(F, i)
    <3>1. CASE i < first
      <4>1. i \in I /\ i # last + 1
        BY <2>0, <3>1
      <4> QED BY <2>2, <3>1, <4>1
    <3>2. CASE ~(i < first)
      <4>1. i - 1 \in J /\ i - 1 # last + 1
        BY <2>0, <3>2
      <4>2. F[i-1] = On[i-1]
        BY <4>1, Zenon
      <4>3. F[i] = Go(On, i)
        <5>1. CASE i = last + 1
          BY <5>1
        <5>2. CASE i # last + 1
          <6>1. i \in I
            BY <2>0, <5>2
          <6> QED BY <2>2, <5>2, <6>1
        <5> QED BY <5>1, <5>2
      <4> QED BY <4>2, <4>3, Zenon
    <3> QED BY <3>1, <3>2
  <2>4. F = [i \in J |-> F[i]]
    OBVIOUS
  <2> HIDE DEF F
  <2>5. Running(F, c, s, first, last + 1)
    BY <2>3, <2>4, Zenon DEF Running
  <2> QED BY <2>0, <2>5
<1>3. n \in K
  <2> HIDE DEF K
  <2>1. \A k \in 0..n : k \in K
    BY <1>1, <1>2, CountingUp
  <2> QED BY <2>1
<1> QED BY <1>3

LEMMA RunOnMeans ==
  ASSUME NEW c, NEW s, NEW first \in Nat \ {0}, NEW last \in Nat, last >= first - 1
  PROVE  \E On : /\ On[first - 1] = s /\ RunOn(c, s, first, last) = On[last]
                 /\ \A i \in first..last : On[i] = Step(c, On[i-1], i)
<1> DEFINE On == CHOOSE F : Running(F, c, s, first, last)
<1>1. Running(On, c, s, first, last)
  <2> DEFINE n == last - first + 1
  <2>1. n \in Nat /\ first - 1 + n = last
    OBVIOUS
  <2>2. \E F : Running(F, c, s, first, first - 1 + n)
    BY <2>1, RunningExists
  <2> QED BY <2>1, <2>2
<1>2. RunOn(c, s, first, last) = On[last]
  BY Zenon DEF RunOn, Running
<1> HIDE DEF On
<1>3. On[first - 1] = s /\ \A i \in first..last : On[i] = Step(c, On[i-1], i)
  <2>1. \A i \in first-1..last : On[i] = IF i < first THEN s ELSE Step(c, On[i-1], i)
    BY <1>1 DEF Running
  <2>2. first - 1 \in first-1..last /\ first - 1 < first /\ \A i \in first..last : i \in first-1..last /\ ~(i < first)
    OBVIOUS
  <2> QED BY <2>1, <2>2
<1> QED BY <1>2, <1>3

(* A run ends with its last opcode. *)
LEMMA RunOnSteps ==
  ASSUME NEW c, NEW s, NEW first \in Nat \ {0}
  PROVE  /\ RunOn(c, s, first, first - 1) = s
         /\ \A last \in Nat : last >= first => RunOn(c, s, first, last) = Step(c, RunOn(c, s, first, last - 1), last)
<1>1. RunOn(c, s, first, first - 1) = s
  <2>1. first - 1 \in Nat /\ first - 1 >= first - 1
    OBVIOUS
  <2> QED BY <2>1, RunOnMeans
<1>2. ASSUME NEW last \in Nat, last >= first
      PROVE  RunOn(c, s, first, last) = Step(c, RunOn(c, s, first, last - 1), last)
  <2>1. PICK On : /\ On[first - 1] = s /\ RunOn(c, s, first, last) = On[last]
                  /\ \A i \in first..last : On[i] = Step(c, On[i-1], i)
    <3>1. last >= first - 1
      BY <1>2
    <3> QED BY <3>1, RunOnMeans
  <2>2. PICK Go : /\ Go[first - 1] = s /\ RunOn(c, s, first, last - 1) = Go[last - 1]
                  /\ \A i \in first..last-1 : Go[i] = Step(c, Go[i-1], i)
    <3>1. last - 1 \in Nat /\ last - 1 >= first - 1
      BY <1>2
    <3> QED BY <3>1, RunOnMeans
  <2> DEFINE n == last - first
             K == {k \in 0..n : On[first - 1 + k] = Go[first - 1 + k]}
  <2>3. n \in Nat /\ first - 1 + n = last - 1
    BY <1>2
  <2>4. 0 \in K
    <3>1. first - 1 + 0 = first - 1
      OBVIOUS
    <3> QED BY <2>1, <2>2, <2>3, <3>1
  <2>5. \A k \in 0..n-1 : k \in K => k + 1 \in K
    <3> SUFFICES ASSUME NEW k \in 0..n-1, On[first - 1 + k] = Go[first - 1 + k]
                 PROVE  On[first - 1 + (k + 1)] = Go[first - 1 + (k + 1)] /\ k + 1 \in 0..n
      OBVIOUS
    <3> DEFINE i == first - 1 + (k + 1)
    <3>1. i \in first..last /\ i \in first..last-1 /\ i - 1 = first - 1 + k
      BY <2>3
    <3> HIDE DEF i
    <3>2. On[i] = Step(c, On[i-1], i) /\ Go[i] = Step(c, Go[i-1], i)
      BY <2>1, <2>2, <3>1
    <3>3. On[i] = Go[i]
      BY <3>1, <3>2
    <3> QED BY <2>3, <3>3 DEF i
  <2>6. n \in K
    <3> HIDE DEF K
    <3>1. \A k \in 0..n : k \in K
      BY <2>3, <2>4, <2>5, CountingUp
    <3> QED BY <2>3, <3>1
  <2>7. On[last - 1] = Go[last - 1]
    BY <2>3, <2>6
  <2>8. last \in first..last
    BY <1>2
  <2>9. On[last] = Step(c, On[last-1], last)
    BY <2>1, <2>8
  <2> QED BY <2>1, <2>2, <2>7, <2>9
<1> QED BY <1>1, <1>2

(* What was assigned stays, however far a run goes; and every opcode that it
   passes is fulfilled by each assignment that extends it.                   *)
Passed(c, a, B, first, last) ==
  Blocked(B) /\ Tracks(c, a, B, last + 1) /\ \A j \in first..last : Fulfilled(c, a, j)

LEMMA RunFacts ==
  ASSUME NEW c, Runnable(c), NEW s, StateOK(c, s), NEW first \in Nat \ {0},
         NEW last \in Nat, last >= first - 1, last <= Len(c.opcodes)
  PROVE  /\ Later(c, s, RunOn(c, s, first, last))
         /\ ~RunOn(c, s, first, last).failed =>
              \A a \in [c.wires -> Field] :
                Extends(a, RunOn(c, s, first, last).values) /\ Tracks(c, a, s.blocks, first)
                  => Passed(c, a, RunOn(c, s, first, last).blocks, first, last)
<1> DEFINE n == last - first + 1
           R(k) == RunOn(c, s, first, first - 1 + k)
           Has(k) == /\ Later(c, s, R(k))
                     /\ ~R(k).failed =>
                          \A a \in [c.wires -> Field] :
                            Extends(a, R(k).values) /\ Tracks(c, a, s.blocks, first)
                              => Passed(c, a, R(k).blocks, first, first - 1 + k)
           K == {k \in 0..n : Has(k)}
<1>0. n \in Nat /\ first - 1 + n = last /\ Len(c.opcodes) \in Nat
  BY CircuitFacts DEF Runnable
<1>1. Has(0)
  <2>1. first - 1 + 0 = first - 1 /\ first - 1 + 1 = first
    OBVIOUS
  <2>2. R(0) = s
    BY <2>1, RunOnSteps
  <2>3. Later(c, s, s)
    BY LaterSame
  <2>4. \A a : Tracks(c, a, s.blocks, first) => Passed(c, a, s.blocks, first, first - 1 + 0)
    BY <2>1 DEF Passed, StateOK
  <2> HIDE DEF R
  <2> QED BY <2>2, <2>3, <2>4
<1>2. ASSUME NEW k \in 0..n-1, Has(k) PROVE Has(k + 1)
  <2> DEFINE i == first + k
             t == R(k)
             u == R(k + 1)
  <2>1. /\ i \in 1..Len(c.opcodes) /\ i \in Nat /\ i >= first
        /\ first - 1 + k = i - 1 /\ first - 1 + (k + 1) = i /\ (i - 1) + 1 = i
    BY <1>0
  <2>2. u = Step(c, t, i)
    <3>1. t = RunOn(c, s, first, i - 1) /\ u = RunOn(c, s, first, i)
      BY <2>1
    <3> HIDE DEF t, u, i, R, Has
    <3>2. \A l \in Nat : l >= first => RunOn(c, s, first, l) = Step(c, RunOn(c, s, first, l - 1), l)
      BY RunOnSteps
    <3> QED BY <2>1, <3>1, <3>2
  <2>3. /\ Later(c, s, t)
        /\ ~t.failed => \A a \in [c.wires -> Field] :
             Extends(a, t.values) /\ Tracks(c, a, s.blocks, first) => Passed(c, a, t.blocks, first, i - 1)
    BY <1>2, <2>1
  <2>9. /\ Later(c, s, u)
        /\ ~u.failed => (\A a \in [c.wires -> Field] :
             Extends(a, u.values) /\ Tracks(c, a, s.blocks, first) => Passed(c, a, u.blocks, first, i))
        => Has(k + 1)
    BY <2>1
  <2> HIDE DEF R, Has, i, t, u
  <2>4. Later(c, t, u) /\ (~u.failed => Agreed(c, t, c.opcodes[i], u))
    BY <2>1, <2>2, <2>3, StepFacts DEF Later
  <2>5. Later(c, s, u)
    BY <2>3, <2>4, LaterTransitive
  <2>6. ASSUME ~u.failed, NEW a \in [c.wires -> Field], Extends(a, u.values), Tracks(c, a, s.blocks, first)
        PROVE  Passed(c, a, u.blocks, first, i)
    <3>1. ~t.failed /\ Extends(a, t.values)
      BY <2>4, <2>6, ExtendsTransitive DEF Later
    <3>2. Passed(c, a, t.blocks, first, i - 1)
      BY <2>3, <2>6, <3>1
    <3>3. Judgeable(c.opcodes[i], a, t.blocks) /\ Accepts(c.opcodes[i], a, t.blocks)
          /\ u.blocks = BlocksAfter(c.opcodes[i], a, t.blocks)
      BY <2>4, <2>6 DEF Agreed
    <3>4. Blocked(t.blocks) /\ Tracks(c, a, t.blocks, i) /\ \A j \in first..i-1 : Fulfilled(c, a, j)
      BY <2>1, <3>2 DEF Passed
    <3>5. a \in [DOMAIN a -> Field] /\ WellFormedCircuit(c) /\ \A b \in DOMAIN t.blocks : t.blocks[b] \in Seq(Field)
      BY <3>4 DEF Blocked, Runnable
    <3>6. Tracks(c, a, u.blocks, i + 1) /\ Blocked(u.blocks)
      <4> DEFINE o == c.opcodes[i]
                 B == t.blocks
                 A == BlocksAfter(o, a, B)
      <4>1. Tracks(c, a, B, i) /\ Judgeable(o, a, B) /\ Accepts(o, a, B)
        BY <3>3, <3>4
      <4>2. \A b \in DOMAIN B : B[b] \in Seq(Field)
        BY <3>5
      <4>3. Tracks(c, a, A, i + 1) /\ \A b \in DOMAIN A : A[b] \in Seq(Field)
        BY <2>1, <3>5, <4>1, <4>2, CheckTracks
      <4> HIDE DEF A
      <4>4. u.blocks = A
        BY <3>3 DEF A
      <4> QED BY <4>3, <4>4 DEF Blocked
    <3>7. Fulfilled(c, a, i)
      BY <2>1, <3>3, <3>4, <3>5, CheckFulfilled
    <3>8. \A j \in first..i : j = i \/ j \in first..i-1
      BY <2>1
    <3> QED BY <3>4, <3>6, <3>7, <3>8 DEF Passed
  <2> QED BY <2>5, <2>6, <2>9
<1>3. Has(n)
  <2>1. 0 \in K /\ \A k \in 0..n-1 : k \in K => k + 1 \in K
    <3> HIDE DEF Has
    <3> QED BY <1>0, <1>1, <1>2
  <2> HIDE DEF K, Has
  <2>2. \A k \in 0..n : k \in K
    BY <1>0, <2>1, CountingUp
  <2>3. n \in K
    BY <1>0, <2>2
  <2> QED BY <2>3 DEF K
<1> QED BY <1>0, <1>3

-----------------------------------------------------------------------------
(* What an opcode asks of a run depends on the wires of the opcodes up to it. *)
Concerns(c, i) == UNION {c.opcodes[j].wires : j \in 1..i}

LEMMA ContentSame ==
  ASSUME NEW c, WellFormedCircuit(c), NEW i \in 1..Len(c.opcodes) + 1, NEW a, NEW b,
         \A w \in Concerns(c, i - 1) : a[w] = b[w],
         NEW block, NEW k \in Nat, InitBefore(c, block, i) # 0, k < Len(c.opcodes[InitBefore(c, block, i)].init)
  PROVE  Content(c, a, block, k, i) = Content(c, b, block, k, i)
<1> DEFINE x == InitBefore(c, block, i)
           W == Writes(c, a, block, k, i)
<1>0. Len(c.opcodes) \in Nat
  BY CircuitFacts
<1>1. x \in 1..i-1
  BY <1>0, InitBeforeType
<1>2. \A j \in 1..i-1 : /\ WellFormedOpcode(c.opcodes[j]) /\ \A w \in c.opcodes[j].wires : a[w] = b[w]
  <2> TAKE j \in 1..i-1
  <2>1. j \in 1..Len(c.opcodes)
    BY <1>0
  <2>2. c.opcodes[j].wires \subseteq Concerns(c, i - 1)
    BY DEF Concerns
  <2> QED BY <2>1, <2>2, CircuitFacts
<1>3. \A j \in 1..i-1 : c.opcodes[j].type = "Write" =>
        a[c.opcodes[j].index] = b[c.opcodes[j].index] /\ a[c.opcodes[j].value] = b[c.opcodes[j].value]
  BY <1>2 DEF WellFormedOpcode, IsAccess
<1>4. W = Writes(c, b, block, k, i) /\ W \subseteq 1..i-1
  <2>1. \A j \in x+1..i-1 : j \in 1..i-1
    BY <1>1
  <2> HIDE DEF x
  <2>2. \A j \in W : j \in 1..i-1
    BY <2>1 DEF Writes, x
  <2>3. \A j : j \in W <=> j \in Writes(c, b, block, k, i)
    BY <1>3, <2>1 DEF Writes, x
  <2> QED BY <2>2, <2>3
<1>5. CASE W # {}
  <2>1. IsFiniteSet(W) /\ W \in SUBSET Int
    <3>0. i - 1 \in Int /\ 1 \in Int
      BY <1>0
    <3>1. IsFiniteSet(1..i-1)
      BY ONLY <3>0, FS_Interval
    <3> QED BY <1>4, <3>1, FS_Subset
  <2>2. Max(W) \in W
    BY <1>5, <2>1, MaxExists
  <2>3. c.opcodes[Max(W)].type = "Write" /\ Max(W) \in 1..i-1
    BY <1>4, <2>2 DEF Writes
  <2> QED BY <1>3, <1>4, <1>5, <2>3 DEF Content
<1>6. CASE W = {}
  <2>1. c.opcodes[x].type = "MemoryInit"
    <3> DEFINE S == {0} \cup {j \in 1..i-1 : c.opcodes[j].type = "MemoryInit" /\ c.opcodes[j].block = block}
    <3>0. i - 1 \in Int /\ 0 \in Int
      BY <1>0
    <3>1. IsFiniteSet(0..i-1)
      BY ONLY <3>0, FS_Interval
    <3>4. S \in SUBSET (0..i-1)
      BY <1>0
    <3>2. S \in SUBSET Int /\ IsFiniteSet(S) /\ S # {}
      BY <1>0, <3>1, <3>4, FS_Subset
    <3>3. Max(S) \in S
      BY <3>2, MaxExists
    <3> QED BY <3>3 DEF InitBefore
  <2>2. c.opcodes[x].init \in Seq(c.opcodes[x].wires)
    BY <1>1, <1>2, <2>1 DEF WellFormedOpcode
  <2>3. c.opcodes[x].init[k + 1] \in c.opcodes[x].wires
    BY <2>2
  <2>4. a[c.opcodes[x].init[k + 1]] = b[c.opcodes[x].init[k + 1]]
    BY <1>1, <1>2, <2>3
  <2> QED BY <1>4, <1>6, <2>4 DEF Content
<1> QED BY <1>5, <1>6

LEMMA ConcernsMore ==
  ASSUME NEW c, NEW i \in Nat \ {0}
  PROVE  Concerns(c, i) = Concerns(c, i - 1) \cup c.opcodes[i].wires
<1>1. 1..i = (1..i-1) \cup {i}
  OBVIOUS
<1> QED BY <1>1 DEF Concerns

LEMMA TracksSame ==
  ASSUME NEW c, WellFormedCircuit(c), NEW i \in 1..Len(c.opcodes) + 1, NEW a, NEW b,
         \A w \in Concerns(c, i - 1) : a[w] = b[w], NEW B, Blocked(B), Tracks(c, a, B, i)
  PROVE  Tracks(c, b, B, i)
<1> SUFFICES ASSUME NEW block \in DOMAIN B, NEW k \in 0..Len(B[block])-1
             PROVE  B[block][k + 1] = Content(c, b, block, k, i)
  BY DEF Tracks
<1>1. /\ InitBefore(c, block, i) # 0
      /\ Len(B[block]) = Len(c.opcodes[InitBefore(c, block, i)].init)
      /\ B[block][k + 1] = Content(c, a, block, k, i)
  BY DEF Tracks
<1>2. Len(B[block]) \in Nat
  BY DEF Blocked
<1>3. k \in Nat /\ k < Len(c.opcodes[InitBefore(c, block, i)].init)
  BY <1>1, <1>2
<1>4. Content(c, a, block, k, i) = Content(c, b, block, k, i)
  BY <1>1, <1>3, ContentSame
<1> QED BY <1>1, <1>4

LEMMA FulfilledSame ==
  ASSUME NEW c, WellFormedCircuit(c), NEW i \in 1..Len(c.opcodes), NEW a \in [c.wires -> Field], NEW b,
         \A w \in Concerns(c, i) : a[w] = b[w], Fulfilled(c, a, i)
  PROVE  Fulfilled(c, b, i)
<1> DEFINE o == c.opcodes[i]
<1>1. /\ i \in 1..Len(c.opcodes) + 1 /\ i \in Nat \ {0}
      /\ o.wires \subseteq c.wires /\ WellFormedOpcode(o)
  BY CircuitFacts
<1>2. /\ \A w \in Concerns(c, i - 1) : a[w] = b[w]
      /\ \A w \in o.wires : a[w] = b[w]
  BY <1>1, ConcernsMore
<1>3. CASE IsAccess(o)
  <2>1. o.index \in o.wires /\ o.value \in o.wires
    BY <1>1, <1>3 DEF WellFormedOpcode
  <2>2. a[o.index] = b[o.index] /\ a[o.value] = b[o.value] /\ a[o.index] \in Nat
    BY <1>1, <1>2, <2>1, ParametersAreNatural DEF Field
  <2>3. /\ InitOf(c, i) = InitBefore(c, o.block, i)
        /\ LastValue(c, a, i) = Content(c, a, o.block, a[o.index], i)
        /\ LastValue(c, b, i) = Content(c, b, o.block, b[o.index], i)
    BY ContentIsLastValue
  <2>4. /\ InitOf(c, i) # 0
        /\ a[o.index] < Len(c.opcodes[InitOf(c, i)].init)
        /\ o.type = "Read" => a[o.value] = LastValue(c, a, i)
    BY <1>3 DEF Fulfilled
  <2>5. LastValue(c, a, i) = LastValue(c, b, i)
    BY <1>1, <1>2, <2>2, <2>3, <2>4, ContentSame
  <2> QED BY <1>3, <2>2, <2>4, <2>5 DEF Fulfilled
<1>4. CASE ~IsAccess(o)
  <2>1. [w \in o.wires |-> a[w]] = [w \in o.wires |-> b[w]]
    BY <1>2
  <2>2. AcirHolds(o, a) <=> AcirHolds(o, b)
    BY <2>1 DEF AcirHolds
  <2> QED BY <1>4, <2>2 DEF Fulfilled
<1> QED BY <1>3, <1>4

-----------------------------------------------------------------------------
(* execute *)

LEMMA FreshOK ==
  ASSUME NEW c, WellFormedCircuit(c), NEW ins \in [c.inputs -> Field]
  PROVE  /\ StateOK(c, Fresh(ins)) /\ Fresh(ins).values = ins /\ Fresh(ins).blocks = << >> /\ ~Fresh(ins).failed
         /\ \A a : Tracks(c, a, Fresh(ins).blocks, 1)
<1> DEFINE s == Fresh(ins)
           none == << >>
<1>1. s.values = ins /\ s.blocks = none /\ s.failed = FALSE /\ s.at = 0
  BY DEF Fresh
<1>2. s = [values |-> s.values, blocks |-> s.blocks, failed |-> s.failed, at |-> s.at]
  BY DEF Fresh
<1>3. DOMAIN none = {}
  OBVIOUS
<1>4. Len(c.opcodes) \in Nat /\ c.inputs \subseteq c.wires
  BY CircuitFacts
<1> HIDE DEF s, none
<1>5. StateOK(c, s)
  <2>1. Valued(s.values) /\ DOMAIN s.values \subseteq c.wires
    BY <1>1, <1>4 DEF Valued
  <2>2. Blocked(s.blocks)
    BY <1>1, <1>3 DEF Blocked
  <2>3. s.failed \in BOOLEAN
    BY <1>1, Zenon
  <2>4. s.at \in 0..Len(c.opcodes)
    BY <1>1, <1>4
  <2> QED BY <1>2, <2>1, <2>2, <2>3, <2>4, Zenon DEF StateOK
<1>6. \A a : Tracks(c, a, s.blocks, 1)
  BY <1>1, <1>3 DEF Tracks
<1> QED BY <1>1, <1>5, <1>6 DEF s, none

LEMMA RunPrefix ==
  ASSUME NEW c, Runnable(c), NEW s, StateOK(c, s), NEW first \in Nat \ {0},
         NEW m \in Nat, m >= first - 1, NEW last \in Nat, last >= m, last <= Len(c.opcodes)
  PROVE  Later(c, RunOn(c, s, first, m), RunOn(c, s, first, last))
<1> DEFINE n == last - m
           R(k) == RunOn(c, s, first, k)
           K == {k \in 0..n : Later(c, R(m), R(m + k))}
<1>0. n \in Nat /\ m + n = last /\ Len(c.opcodes) \in Nat
  BY CircuitFacts DEF Runnable
<1>1. 0 \in K
  <2>1. m <= Len(c.opcodes) /\ m + 0 = m
    BY <1>0
  <2>2. Later(c, s, R(m))
    BY <2>1, RunFacts
  <2>3. Later(c, R(m), R(m))
    BY <2>2, LaterSame DEF Later
  <2> QED BY <2>1, <2>3
<1>2. ASSUME NEW k \in 0..n-1, Later(c, R(m), R(m + k)) PROVE Later(c, R(m), R(m + (k + 1)))
  <2> DEFINE i == m + (k + 1)
  <2>1. i \in Nat /\ i >= first /\ i - 1 = m + k /\ i \in 1..Len(c.opcodes)
    BY <1>0
  <2>2. R(i) = Step(c, R(i - 1), i)
    <3>1. \A l \in Nat : l >= first => RunOn(c, s, first, l) = Step(c, RunOn(c, s, first, l - 1), l)
      BY RunOnSteps
    <3> HIDE DEF i
    <3> QED BY <2>1, <3>1
  <2>3. Later(c, R(m), R(i - 1))
    BY <1>2, <2>1
  <2> HIDE DEF i, R
  <2>4. Later(c, R(i - 1), R(i))
    BY <2>1, <2>2, <2>3, StepFacts DEF Later
  <2>5. Later(c, R(m), R(i))
    BY <2>3, <2>4, LaterTransitive
  <2> QED BY <2>5 DEF i
<1>3. n \in K
  <2>1. \A k \in 0..n-1 : k \in K => k + 1 \in K
    <3> HIDE DEF R
    <3> QED BY <1>0, <1>2
  <2> HIDE DEF K
  <2>2. \A k \in 0..n : k \in K
    BY <1>0, <1>1, <2>1, CountingUp
  <2> QED BY <1>0, <2>2
<1> QED BY <1>0, <1>3

(* A run that did not fail has the answers of its hints, and whatever completes
   it is a run of the circuit.                                                *)
LEMMA ExecuteFacts ==
  ASSUME NEW c, Runnable(c), NEW ins \in [c.inputs -> Field]
  PROVE  /\ StateOK(c, Execute(c, ins)) /\ Extends(Execute(c, ins).values, ins)
         /\ ~Execute(c, ins).failed =>
              /\ \A h : Producers(c, h) # {} => h \in DOMAIN Execute(c, ins).values
              /\ \A a \in [c.wires -> Field] : Extends(a, Execute(c, ins).values) => IsRun(c, a)
<1> DEFINE s == Fresh(ins)
           n == Len(c.opcodes)
           R(k) == RunOn(c, s, 1, k)
           t == R(n)
<1>1. Execute(c, ins) = t
  BY DEF Execute
<1>2. n \in Nat /\ DOMAIN c.opcodes = 1..n /\ WellFormedCircuit(c)
  BY CircuitFacts DEF Runnable
<1>3. StateOK(c, s) /\ s.values = ins /\ \A a : Tracks(c, a, s.blocks, 1)
  BY <1>2, FreshOK
<1>0. 1 \in Nat \ {0} /\ n >= 1 - 1 /\ n <= Len(c.opcodes)
  BY <1>2
<1> HIDE DEF s, n
<1>4. /\ Later(c, s, t)
      /\ ~t.failed => \A a \in [c.wires -> Field] :
           Extends(a, t.values) /\ Tracks(c, a, s.blocks, 1) => Passed(c, a, t.blocks, 1, n)
  BY <1>0, <1>2, <1>3, RunFacts
<1>5. StateOK(c, t) /\ Extends(t.values, ins)
  BY <1>3, <1>4 DEF Later
<1>6. ASSUME ~t.failed, NEW a \in [c.wires -> Field], Extends(a, t.values) PROVE IsRun(c, a)
  <2>1. Passed(c, a, t.blocks, 1, n)
    BY <1>3, <1>4, <1>6
  <2> QED BY <1>2, <2>1, RunIsFulfilled DEF Passed
<1>7. ASSUME ~t.failed, NEW h, Producers(c, h) # {} PROVE h \in DOMAIN t.values
  <2>1. PICK i \in 1..n : c.opcodes[i].type = "BrilligCall" /\ h \in ToSet(c.opcodes[i].answers)
    BY <1>2, <1>7 DEF Producers
  <2>2. i \in Nat /\ i >= 1 /\ i - 1 \in Nat /\ i - 1 >= 1 - 1 /\ i >= 1 - 1 /\ n >= i /\ i - 1 <= Len(c.opcodes)
    BY <1>0, <1>2
  <2>3. Later(c, R(i), t)
    BY <1>0, <1>2, <1>3, <2>2, RunPrefix
  <2>4. R(i) = Step(c, R(i - 1), i)
    <3>1. \A l \in Nat : l >= 1 => RunOn(c, s, 1, l) = Step(c, RunOn(c, s, 1, l - 1), l)
      BY RunOnSteps
    <3> QED BY <2>2, <3>1
  <2>5. Later(c, s, R(i - 1))
    BY <1>0, <1>3, <2>2, RunFacts
  <2>6. i \in 1..Len(c.opcodes)
    BY DEF n
  <2>7. ~R(i).failed
    BY <1>7, <2>3 DEF Later
  <2> DEFINE u == R(i - 1)
             v == R(i)
  <2>8. StateOK(c, u) /\ v = Step(c, u, i) /\ ~v.failed
    BY <2>4, <2>5, <2>7 DEF Later
  <2>9. Later(c, v, t)
    BY <2>3
  <2> HIDE DEF u, v, t, R
  <2>10. ~u.failed
    BY <2>6, <2>8, StepFacts DEF Later
  <2>11. h \in DOMAIN v.values
    BY <2>1, <2>6, <2>8, <2>10, HintStep
  <2> QED BY <2>9, <2>11 DEF Later, Extends
<1> QED BY <1>1, <1>5, <1>6, <1>7

-----------------------------------------------------------------------------
(* execute_with_override *)

LEMMA FirstProducer ==
  ASSUME NEW c, WellFormedCircuit(c), NEW h, Producers(c, h) # {}
  PROVE  LET i == Min(Producers(c, h))
         IN  i \in 1..Len(c.opcodes) /\ c.opcodes[i].type = "BrilligCall" /\ h \in ToSet(c.opcodes[i].answers)
<1>1. IsFiniteSet(DOMAIN c.opcodes) /\ DOMAIN c.opcodes = 1..Len(c.opcodes) /\ Len(c.opcodes) \in Nat
  BY CircuitFacts, FS_Interval
<1>2. Producers(c, h) \subseteq DOMAIN c.opcodes
  BY DEF Producers
<1>3. Producers(c, h) \in SUBSET Int /\ IsFiniteSet(Producers(c, h))
  BY <1>1, <1>2, FS_Subset
<1>4. Min(Producers(c, h)) \in Producers(c, h)
  BY <1>3, MinExists
<1> QED BY <1>1, <1>4 DEF Producers

(* Another answer to a hint is another answer to the opcodes after its call: none
   of those up to it reads the hint.                                            *)
LEMMA OverrideFacts ==
  ASSUME NEW c, Runnable(c), HintsAreFresh(c), NEW ins \in [c.inputs -> Field],
         NEW h, Producers(c, h) # {}, NEW v \in Field, NEW t, t = ExecuteWithOverride(c, ins, h, v)
  PROVE  /\ StateOK(c, t) /\ Extends(t.values, ins) /\ h \in c.wires
         /\ ~t.failed => /\ h \in DOMAIN t.values /\ t.values[h] = v
                         /\ \A a \in [c.wires -> Field] : Extends(a, t.values) => IsRun(c, a)
<1> DEFINE n == Len(c.opcodes)
           i == Min(Producers(c, h))
           o == c.opcodes[i]
           s == Fresh(ins)
           before == RunOn(c, s, 1, i)
           after == Assign(before, h, v)
           u == RunOn(c, after, i + 1, n)
<1>1. /\ n \in Nat /\ DOMAIN c.opcodes = 1..n /\ WellFormedCircuit(c) /\ i \in 1..n /\ i \in DOMAIN c.opcodes
      /\ o.type = "BrilligCall" /\ h \in ToSet(o.answers)
      /\ i \in Nat /\ i >= 1 - 1 /\ i <= n /\ 1 \in Nat \ {0} /\ i + 1 \in Nat \ {0} /\ n >= (i + 1) - 1 /\ n <= n
      /\ (i + 1) - 1 = i
  BY CircuitFacts, FirstProducer DEF Runnable
<1>2. /\ o.wires = {} /\ h \in c.wires /\ h \notin c.inputs
      /\ \A j \in 1..i-1 : h \notin c.opcodes[j].wires
  <2>1. o.answers \in Seq(c.wires) /\ o.wires = {}
    BY <1>1 DEF Runnable, Executable, ExecutableOpcode
  <2>2. h \in c.wires
    BY <1>1, <2>1 DEF ToSet
  <2> QED BY <1>1, <2>1, <2>2 DEF HintsAreFresh
<1>3. t = IF before.failed THEN before ELSE u
  BY DEF ExecuteWithOverride, Assign
<1>4. StateOK(c, s) /\ s.values = ins /\ \A a : Tracks(c, a, s.blocks, 1)
  BY <1>1, FreshOK
<1> HIDE DEF n, i, s
<1>5. /\ Later(c, s, before)
      /\ ~before.failed => \A a \in [c.wires -> Field] :
           Extends(a, before.values) /\ Tracks(c, a, s.blocks, 1) => Passed(c, a, before.blocks, 1, i)
  BY <1>1, <1>4, RunFacts DEF n
<1> HIDE DEF before
<1>6. /\ StateOK(c, after) /\ after.blocks = before.blocks /\ after.failed = before.failed
      /\ DOMAIN after.values = DOMAIN before.values \cup {h} /\ after.values[h] = v
      /\ \A w \in DOMAIN before.values : w # h => after.values[w] = before.values[w]
  BY <1>2, <1>5, AssignFacts DEF Later
<1> HIDE DEF after
<1>7. /\ Later(c, after, u)
      /\ ~u.failed => \A a \in [c.wires -> Field] :
           Extends(a, u.values) /\ Tracks(c, a, after.blocks, i + 1) => Passed(c, a, u.blocks, i + 1, n)
  BY <1>1, <1>6, RunFacts DEF n
<1> HIDE DEF u
<1>8. StateOK(c, t) /\ Extends(t.values, ins)
  <2>1. \A w \in DOMAIN ins : w \in DOMAIN before.values /\ before.values[w] = ins[w] /\ w # h
    BY <1>2, <1>4, <1>5 DEF Later, Extends
  <2>2. CASE before.failed
    BY <1>3, <1>5, <2>1, <2>2 DEF Later, Extends
  <2>3. CASE ~before.failed
    BY <1>3, <1>6, <1>7, <2>1, <2>3 DEF Later, Extends
  <2> QED BY <2>2, <2>3
<1>9. ASSUME ~t.failed PROVE ~before.failed /\ ~u.failed /\ t = u
  BY <1>3, <1>6, <1>7, <1>9 DEF Later
<1>10. ASSUME ~t.failed, NEW a \in [c.wires -> Field], Extends(a, t.values) PROVE IsRun(c, a)
  <2> DEFINE b == [a EXCEPT ![h] = IF h \in DOMAIN before.values THEN before.values[h] ELSE a[h]]
  <2>1. Extends(a, u.values) /\ Extends(a, after.values)
    BY <1>7, <1>9, <1>10, ExtendsTransitive DEF Later
  <2>2. b \in [c.wires -> Field] /\ \A w \in c.wires : w # h => b[w] = a[w]
    BY <1>2, <1>5 DEF Later, StateOK, Valued
  <2>3. Extends(b, before.values)
    <3>1. \A w \in DOMAIN before.values : w \in c.wires
      BY <1>5 DEF Later, StateOK
    <3>2. \A w \in DOMAIN before.values : b[w] = before.values[w]
      BY <1>6, <2>1, <3>1 DEF Extends
    <3> QED BY <2>2, <3>1, <3>2 DEF Extends
  <2> HIDE DEF b
  <2>4. Passed(c, b, before.blocks, 1, i)
    BY <1>4, <1>5, <1>9, <1>10, <2>2, <2>3
  <2>5. \A j \in 1..i : \A w \in c.opcodes[j].wires : w \in c.wires /\ w # h
    <3> SUFFICES ASSUME NEW j \in 1..i, NEW w \in c.opcodes[j].wires PROVE w \in c.wires /\ w # h
      OBVIOUS
    <3>1. j \in 1..Len(c.opcodes) /\ (j = i \/ j \in 1..i-1)
      BY <1>1 DEF n
    <3> QED BY <1>1, <1>2, <3>1, CircuitFacts
  <2>6. \A j \in 0..i : \A w \in Concerns(c, j) : b[w] = a[w]
    <3> SUFFICES ASSUME NEW j \in 0..i, NEW w \in Concerns(c, j) PROVE b[w] = a[w]
      OBVIOUS
    <3>1. \E k \in 1..i : w \in c.opcodes[k].wires
      BY <1>1 DEF Concerns
    <3> QED BY <2>2, <2>5, <3>1
  <2>7. Tracks(c, a, before.blocks, i + 1)
    <3>1. i + 1 \in 1..Len(c.opcodes) + 1 /\ (i + 1) - 1 \in 0..i
      BY <1>1 DEF n
    <3> QED BY <1>1, <2>4, <2>6, <3>1, TracksSame DEF Passed
  <2>8. \A j \in 1..i : Fulfilled(c, a, j)
    <3> SUFFICES ASSUME NEW j \in 1..i PROVE Fulfilled(c, a, j)
      OBVIOUS
    <3>1. j \in 1..Len(c.opcodes) /\ j \in 0..i
      BY <1>1 DEF n
    <3>2. Fulfilled(c, b, j)
      BY <2>4 DEF Passed
    <3> QED BY <1>1, <2>2, <2>6, <3>1, <3>2, FulfilledSame
  <2>9. Passed(c, a, u.blocks, i + 1, n)
    BY <1>6, <1>7, <1>9, <1>10, <2>1, <2>7
  <2>10. \A j \in 1..n : j \in 1..i \/ j \in i+1..n
    BY <1>1
  <2> QED BY <1>1, <2>8, <2>9, <2>10, RunIsFulfilled DEF Passed
<1>11. ASSUME ~t.failed PROVE h \in DOMAIN t.values /\ t.values[h] = v
  BY <1>6, <1>7, <1>9, <1>11 DEF Later, Extends
<1> QED BY <1>2, <1>8, <1>10, <1>11

-----------------------------------------------------------------------------
(* What an execution leaves open may be anything. *)

LEMMA CompletionFacts ==
  ASSUME NEW c, NEW f, Valued(f), DOMAIN f \subseteq c.wires
  PROVE  \A a : a \in Completions(c, f) <=> a \in [c.wires -> Field] /\ Extends(a, f)
<1> DEFINE open == c.wires \ DOMAIN f
<1>1. ASSUME NEW x \in [open -> Field] PROVE Overlay(f, x) \in [c.wires -> Field] /\ Extends(Overlay(f, x), f)
  BY DEF Overlay, Extends, Valued
<1>2. ASSUME NEW a \in [c.wires -> Field], Extends(a, f) PROVE a \in Completions(c, f)
  <2> DEFINE x == [w \in open |-> a[w]]
  <2>1. x \in [open -> Field] /\ \A w \in open : x[w] = a[w]
    OBVIOUS
  <2> HIDE DEF x
  <2>2. DOMAIN f \cup DOMAIN x = c.wires
    BY <2>1
  <2>3. \A w \in c.wires : Overlay(f, x)[w] = a[w]
    BY <1>2, <2>1, <2>2 DEF Overlay, Extends
  <2>4. Overlay(f, x) \in [c.wires -> Field]
    BY <1>1, <2>1
  <2>5. Overlay(f, x) = a
    BY <2>3, <2>4
  <2> QED BY <2>1, <2>5 DEF Completions
<1> QED BY <1>1, <1>2 DEF Completions

(* Two executions have completions that differ wherever they do. *)
LEMMA Apart ==
  ASSUME NEW c, NEW f, Valued(f), DOMAIN f \subseteq c.wires, NEW g, Valued(g), DOMAIN g \subseteq c.wires
  PROVE  \E a \in Completions(c, f), b \in Completions(c, g) :
           \A w \in c.wires : Get(f, w) # Get(g, w) => a[w] # b[w]
<1> DEFINE away(v) == (v + 1) % P
           a == [w \in c.wires |-> IF w \in DOMAIN f THEN f[w] ELSE IF w \in DOMAIN g THEN away(g[w]) ELSE 0]
           b == [w \in c.wires |-> IF w \in DOMAIN g THEN g[w] ELSE IF w \in DOMAIN f THEN away(f[w]) ELSE 0]
<1>1. \A v \in Field : away(v) \in Field /\ away(v) # v
  BY ParametersAreNatural DEF Field
<1>2. 0 \in Field
  BY ParametersAreNatural DEF Field
<1> HIDE DEF away
<1>3. a \in [c.wires -> Field] /\ b \in [c.wires -> Field] /\ Extends(a, f) /\ Extends(b, g)
  BY <1>1, <1>2 DEF Valued, Extends
<1>4. ASSUME NEW w \in c.wires, Get(f, w) # Get(g, w) PROVE a[w] # b[w]
  <2>1. /\ w \in DOMAIN f => f[w] \in Field
        /\ w \in DOMAIN g => g[w] \in Field
    BY DEF Valued
  <2>2. w \in DOMAIN f \/ w \in DOMAIN g
    BY <1>4 DEF Get
  <2>3. w \in DOMAIN f /\ w \in DOMAIN g => f[w] # g[w]
    BY <1>4 DEF Get
  <2> QED BY <1>1, <2>1, <2>2, <2>3
<1> HIDE DEF a, b
<1>5. a \in Completions(c, f) /\ b \in Completions(c, g)
  BY <1>3, CompletionFacts
<1> QED BY <1>4, <1>5

-----------------------------------------------------------------------------
(* Sequences put one after the other. *)
Flattening(F, n, s) == F = [i \in 1..n |-> IF i = 1 THEN s[i] ELSE F[i-1] \o s[i]]

LEMMA FlatteningExists ==
  ASSUME NEW n \in Nat, NEW s
  PROVE  \E F : Flattening(F, n, s)
<1> DEFINE K == {k \in 0..n : \E F : Flattening(F, k, s)}
<1>1. 0 \in K
  <2> DEFINE F == [i \in 1..0 |-> s[i]]
  <2>1. F = [i \in 1..0 |-> IF i = 1 THEN s[i] ELSE F[i-1] \o s[i]]
    OBVIOUS
  <2>2. Flattening(F, 0, s)
    BY <2>1, Zenon DEF Flattening
  <2> QED BY <2>2
<1>2. \A k \in 0..n-1 : k \in K => k + 1 \in K
  <2> SUFFICES ASSUME NEW k \in 0..n-1, k \in K PROVE k + 1 \in K
    OBVIOUS
  <2>1. PICK F : Flattening(F, k, s)
    OBVIOUS
  <2> DEFINE Go(G, i) == IF i = 1 THEN s[i] ELSE G[i-1] \o s[i]
             G == [i \in 1..k+1 |-> IF i = k + 1 THEN Go(F, i) ELSE F[i]]
  <2>2. \A i \in 1..k : F[i] = Go(F, i)
    BY <2>1 DEF Flattening
  <2>3. ASSUME NEW i \in 1..k+1 PROVE G[i] = Go(G, i)
    <3>1. G[i] = Go(F, i)
      <4>1. CASE i = k + 1
        BY <4>1
      <4>2. CASE i # k + 1
        BY <2>2, <4>2
      <4> QED BY <4>1, <4>2
    <3>2. CASE i = 1
      BY <3>1, <3>2
    <3>3. CASE i # 1
      <4>1. i - 1 \in 1..k+1 /\ i - 1 # k + 1
        BY <3>3
      <4>2. G[i-1] = F[i-1]
        BY <4>1, Zenon
      <4> QED BY <3>1, <4>2, Zenon
    <3> QED BY <3>2, <3>3
  <2>4. G = [i \in 1..k+1 |-> G[i]]
    OBVIOUS
  <2> HIDE DEF G
  <2>5. Flattening(G, k + 1, s)
    BY <2>3, <2>4, Zenon DEF Flattening
  <2> QED BY <2>5
<1>3. n \in K
  <2> HIDE DEF K
  <2>1. \A k \in 0..n : k \in K
    BY <1>1, <1>2, CountingUp
  <2> QED BY <2>1
<1> QED BY <1>3

LEMMA FlattenType ==
  ASSUME NEW T, NEW s \in Seq(Seq(T))
  PROVE  FlattenSeq(s) \in Seq(T)
<1> DEFINE n == Len(s)
           F == CHOOSE G : Flattening(G, n, s)
<1>0. n \in Nat /\ \A i \in 1..n : s[i] \in Seq(T)
  OBVIOUS
<1>1. CASE n = 0
  <2>1. FlattenSeq(s) = s
    BY <1>1 DEF FlattenSeq
  <2>2. s \in Seq(T)
    BY <1>1
  <2> QED BY <2>1, <2>2
<1>2. CASE n # 0
  <2>1. Flattening(F, n, s)
    BY <1>0, FlatteningExists
  <2>2. FlattenSeq(s) = F[n]
    BY <1>2, Zenon DEF FlattenSeq, Flattening
  <2> HIDE DEF F
  <2>3. /\ F[1] = s[1]
        /\ \A i \in 1..n-1 : F[i + 1] = F[i] \o s[i + 1]
    <3>1. \A i \in 1..n : F[i] = IF i = 1 THEN s[i] ELSE F[i-1] \o s[i]
      BY <2>1 DEF Flattening
    <3>2. F[1] = s[1]
      BY <1>0, <1>2, <3>1
    <3>3. ASSUME NEW i \in 1..n-1 PROVE F[i + 1] = F[i] \o s[i + 1]
      <4>1. i + 1 \in 1..n /\ i + 1 # 1 /\ (i + 1) - 1 = i
        BY <1>0
      <4> QED BY <3>1, <4>1
    <3> QED BY <3>2, <3>3
  <2> DEFINE K == {k \in 0..n-1 : F[k + 1] \in Seq(T)}
  <2>4. 0 \in K /\ n - 1 \in Nat
    BY <1>0, <1>2, <2>3
  <2>5. \A k \in 0..(n-1)-1 : k \in K => k + 1 \in K
    <3> SUFFICES ASSUME NEW k \in 0..(n-1)-1, F[k + 1] \in Seq(T) PROVE k + 1 \in 0..n-1 /\ F[(k + 1) + 1] \in Seq(T)
      OBVIOUS
    <3>1. k + 1 \in 1..n-1 /\ (k + 1) + 1 \in 1..n /\ k + 1 \in 0..n-1
      BY <1>0
    <3>2. F[(k + 1) + 1] = F[k + 1] \o s[(k + 1) + 1] /\ s[(k + 1) + 1] \in Seq(T)
      BY <1>0, <2>3, <3>1
    <3> QED BY <3>1, <3>2
  <2>6. n - 1 \in K
    <3> HIDE DEF K, n
    <3>1. \A k \in 0..n-1 : k \in K
      BY <2>4, <2>5, CountingUp
    <3> QED BY <2>4, <3>1
  <2>7. (n - 1) + 1 = n
    BY <1>0
  <2> QED BY <2>2, <2>6, <2>7
<1> QED BY <1>1, <1>2

-----------------------------------------------------------------------------
(* The fuzzer's inputs are inputs, and it overrides answers with other answers. *)

LEMMA ProgramFacts ==
  ASSUME NEW c \in Programs
  PROVE  /\ Runnable(c) /\ WellFormedCircuit(c) /\ HintsAreFresh(c)
         /\ c.inputs \subseteq c.wires /\ c.returns \subseteq c.wires /\ c.hints \subseteq c.wires
         /\ c.seed \in [c.inputs -> Field] /\ \A r \in ToSet(c.arrays) : r \in Seq(c.inputs)
         /\ Dictionary \cup {0} \subseteq Field
BY ProgramsExecutable, CircuitFacts, ParametersAreNatural DEF Runnable, Field

LEMMA PlantedType ==
  ASSUME NEW c \in Programs, NEW a \in [c.inputs -> Field]
  PROVE  Planted(c, a) \subseteq [c.inputs -> Field]
<1> DEFINE places == {p \in ToSet(c.arrays) \X (2..4) \X (1..4) \X (1..4) :
                        p[3] + p[2] - 1 <= Len(p[1]) /\ p[4] + p[2] - 1 <= Len(p[1])}
           at(r, len, to, w) == CHOOSE k \in 0..len-1 : w = r[to + k]
           copied(r, len, from, to) ==
             [w \in c.inputs |-> IF \E k \in 0..len-1 : w = r[to + k] THEN a[r[from + at(r, len, to, w)]] ELSE a[w]]
<1>1. ASSUME NEW p \in places PROVE copied(p[1], p[2], p[3], p[4]) \in [c.inputs -> Field]
  <2>1. p[1] \in Seq(c.inputs) /\ p[2] \in 2..4 /\ p[3] \in 1..4 /\ p[3] + p[2] - 1 <= Len(p[1])
    BY ProgramFacts
  <2>2. \A k \in 0..p[2]-1 : p[1][p[3] + k] \in c.inputs
    BY <2>1
  <2> DEFINE r == p[1]
             len == p[2]
             from == p[3]
             to == p[4]
  <2> HIDE DEF r, len, from, to
  <2>3. ASSUME NEW w \in c.inputs, \E k \in 0..len-1 : w = r[to + k]
        PROVE  a[r[from + at(r, len, to, w)]] \in Field
    <3>1. at(r, len, to, w) \in 0..len-1
      BY <2>3
    <3> HIDE DEF at
    <3>2. r[from + at(r, len, to, w)] \in c.inputs
      BY <2>2, <3>1 DEF r, len, from
    <3> QED BY <3>2
  <2> HIDE DEF at
  <2>4. copied(r, len, from, to) \in [c.inputs -> Field]
    BY <2>3
  <2> QED BY <2>4 DEF r, len, from, to
<1>2. Planted(c, a) = {copied(p[1], p[2], p[3], p[4]) : p \in places}
  BY DEF Planted
<1> HIDE DEF places, copied
<1> QED BY <1>1, <1>2

LEMMA GeneratedType ==
  ASSUME program \in Programs
  PROVE  Generated(program) \subseteq [program.inputs -> Field]
<1> DEFINE c == program
           T == [c.inputs -> Field]
           near == IF ~options.seeded THEN {} ELSE
                     {[w \in c.inputs |-> IF w \in {x, y} THEN a[w] ELSE c.seed[w]] :
                        x, y \in c.inputs, a \in Drawn(c)}
           base == Drawn(c) \cup near
<1>1. c \in Programs /\ c.seed \in T /\ Dictionary \cup {0} \subseteq Field
  BY ProgramFacts
<1>2. Drawn(c) \subseteq T
  BY <1>1 DEF Drawn
<1>3. near \subseteq T
  BY <1>1, <1>2
<1>4. ASSUME NEW a \in base PROVE Planted(c, a) \subseteq T
  <2>1. a \in [c.inputs -> Field]
    BY <1>2, <1>3
  <2> QED BY ONLY <1>1, <2>1, PlantedType
<1>5. (IF options.seeded THEN c.seed ELSE [w \in c.inputs |-> 0]) \in T
  BY <1>1
<1>6. Generated(c) = IF round = 0 THEN {IF options.seeded THEN c.seed ELSE [w \in c.inputs |-> 0]}
                     ELSE base \cup UNION {Planted(c, a) : a \in base}
  BY DEF Generated
<1> HIDE DEF T, near, c
<1> QED BY <1>2, <1>3, <1>4, <1>5, <1>6 DEF T, c

(* What a failed run suggests is an input. *)
LEMMA RepairedType ==
  ASSUME NEW c, Runnable(c), NEW ins \in [c.inputs -> Field], NEW s, StateOK(c, s), NEW l
  PROVE  Repaired(c, l, ins, s) \in [c.inputs -> Field]
<1>1. \A r \in LinearRepair(c, s) : r[1] \in c.inputs /\ r[2] \in Field
  <2> SUFFICES ASSUME NEW r \in LinearRepair(c, s) PROVE r[1] \in c.inputs /\ r[2] \in Field
    OBVIOUS
  <2> DEFINE o == c.opcodes[s.at]
             free == {k \in DOMAIN o.lin : o.lin[k][2] \in c.inputs \ InProducts(o)}
             k == Min(free)
  <2>1. s.at # 0 /\ o.type = "AssertZero" /\ r \in SolveParam(o, c.inputs, s.values)
    BY DEF LinearRepair
  <2>2. s.at \in 1..Len(c.opcodes) /\ DOMAIN c.opcodes = 1..Len(c.opcodes)
    BY <2>1, CircuitFacts DEF StateOK, Runnable
  <2>3. o.lin \in Seq(Int \X o.wires)
    BY <2>1, <2>2 DEF Runnable, Executable, ExecutableOpcode
  <2>4. free # {} /\ \E v \in Field : r = <<o.lin[k][2], v>>
    BY <2>1 DEF SolveParam
  <2>5. k \in free
    <3>1. IsFiniteSet(DOMAIN o.lin) /\ DOMAIN o.lin \subseteq Int
      BY <2>3, FS_Interval
    <3>2. free \in SUBSET Int /\ IsFiniteSet(free)
      BY <3>1, FS_Subset
    <3> QED BY <2>4, <3>2, MinExists
  <2> HIDE DEF k
  <2>6. o.lin[k][2] \in c.inputs
    BY <2>5
  <2> QED BY <2>4, <2>6
<1>2. CopyLinks(l, ins, s.values) \in [c.inputs -> Field]
  <2> DEFINE copies(p) ==
         UNION {{s.values[m.sources[k]] : k \in {j \in Follows(m, s.values) : m.params[j] = p}} : m \in l}
  <2>1. ASSUME NEW p, NEW v \in copies(p) PROVE v \in Field
    <3>0. PICK m \in l : \E k \in Follows(m, s.values) : v = s.values[m.sources[k]]
      BY <2>1
    <3>1. PICK k \in Follows(m, s.values) : v = s.values[m.sources[k]]
      BY <3>0
    <3>2. m.sources[k] \in DOMAIN s.values
      BY <3>1 DEF Follows
    <3> QED BY <3>1, <3>2 DEF StateOK, Valued
  <2>2. CopyLinks(l, ins, s.values)
          = [p \in DOMAIN ins |-> IF copies(p) = {} THEN ins[p] ELSE CHOOSE v \in copies(p) : TRUE]
    BY DEF CopyLinks
  <2> HIDE DEF copies
  <2>3. \A p : copies(p) # {} => (CHOOSE v \in copies(p) : TRUE) \in Field
    BY <2>1
  <2> QED BY <2>2, <2>3
<1> DEFINE linear == {r \in LinearRepair(c, s) : ins[r[1]] # r[2]}
           x == CHOOSE r \in linear : TRUE
<1>3. Repaired(c, l, ins, s) = IF linear # {} THEN [ins EXCEPT ![x[1]] = x[2]] ELSE CopyLinks(l, ins, s.values)
  BY DEF Repaired
<1>4. linear # {} => x \in LinearRepair(c, s)
  OBVIOUS
<1> HIDE DEF linear, x
<1> QED BY <1>1, <1>2, <1>3, <1>4

-----------------------------------------------------------------------------
Hinted(c) == {h \in c.wires : Producers(c, h) # {}}

LEMMA HintWitnessType ==
  ASSUME NEW c, Runnable(c)
  PROVE  HintWitnesses(c) \in Seq(Hinted(c))
<1> DEFINE answers == [i \in DOMAIN c.opcodes |-> AnswersOf(c.opcodes[i])]
<1>1. DOMAIN c.opcodes = 1..Len(c.opcodes) /\ Len(c.opcodes) \in Nat
  BY CircuitFacts DEF Runnable
<1>2. ASSUME NEW i \in DOMAIN c.opcodes PROVE AnswersOf(c.opcodes[i]) \in Seq(Hinted(c))
  <2> DEFINE o == c.opcodes[i]
  <2>1. CASE o.type = "BrilligCall"
    <3>1. o.answers \in Seq(c.wires)
      BY <2>1 DEF Runnable, Executable, ExecutableOpcode
    <3>2. \A k \in 1..Len(o.answers) : o.answers[k] \in Hinted(c)
      <4> TAKE k \in 1..Len(o.answers)
      <4>1. o.answers[k] \in c.wires /\ o.answers[k] \in ToSet(o.answers)
        BY <3>1 DEF ToSet
      <4>2. i \in Producers(c, o.answers[k])
        BY <2>1, <4>1 DEF Producers
      <4> QED BY <4>1, <4>2 DEF Hinted
    <3>3. o.answers \in Seq(Hinted(c))
      BY <3>1, <3>2
    <3> QED BY <2>1, <3>3 DEF AnswersOf
  <2>2. CASE o.type # "BrilligCall"
    BY <2>2 DEF AnswersOf
  <2> QED BY <2>1, <2>2
<1>3. answers \in Seq(Seq(Hinted(c)))
  BY <1>1, <1>2
<1> HIDE DEF answers
<1>4. FlattenSeq(answers) \in Seq(Hinted(c))
  BY <1>3, FlattenType
<1> QED BY <1>4 DEF HintWitnesses, answers

LEMMA OverrideHintsType ==
  ASSUME Runnable(program)
  PROVE  OverrideHints \in Seq(Hinted(program))
<1> DEFINE T == Hinted(program)
           hints == HintWitnesses(program)
           others == Keep(hints, {k \in DOMAIN hints : hints[k] \notin program.inputs})
           s == Dedup(others)
           first == {k \in DOMAIN s : PositionLike(s[k])}
           second == {k \in DOMAIN s : ~PositionLike(s[k])}
<1>1. hints \in Seq(T)
  BY HintWitnessType
<1> HIDE DEF hints, T
<1>2. others \in Seq(T)
  BY <1>1, KeepType
<1> HIDE DEF others
<1>3. s \in Seq(T)
  BY <1>2, DedupType
<1> HIDE DEF s
<1>4. Keep(s, first) \in Seq(T) /\ Keep(s, second) \in Seq(T)
  BY <1>3, KeepType
<1>5. OverrideHints = Keep(s, first) \o Keep(s, second)
  BY DEF OverrideHints, FirstThose, hints, others, s
<1> HIDE DEF first, second
<1>6. OverrideHints \in Seq(T)
  BY <1>4, <1>5
<1> QED BY <1>6 DEF T

LEMMA OverrideValuesType ==
  ASSUME WellFormedCircuit(program), NEW h, honest[h] \in Field
  PROVE  OverrideValues(h) \in Seq(Field \ {honest[h]})
<1> DEFINE v == honest[h]
           wraps == Ascending(WrapSteps(program, h))
           small == [k \in 1..LastSlot-1 |-> (k + 1) % P]
           near == IF PositionLike(h) THEN Ascending(IndexCandidates(program, h)) ELSE << >>
           wrapped == [k \in DOMAIN wraps |-> (v + wraps[k]) % P]
           all == CandidateValues(v) \o small \o near \o wrapped
<1>1. CandidateValues(v) \in Seq(Field)
  BY CandidateType
<1>2. small \in Seq(Field)
  <2>1. LastSlot - 1 \in Nat \/ LastSlot = 0
    BY ParametersAreNatural
  <2>2. \A k \in 1..LastSlot-1 : (k + 1) % P \in Field
    BY ParametersAreNatural, FieldFacts
  <2>3. CASE LastSlot - 1 \in Nat
    BY <2>2, <2>3
  <2>4. CASE LastSlot = 0
    <3>1. small = << >>
      BY <2>4
    <3>2. << >> \in Seq(Field)
      OBVIOUS
    <3> QED BY ONLY <3>1, <3>2
  <2> QED BY <2>1, <2>3, <2>4
<1>3. near \in Seq(Field)
  <2>1. IndexCandidates(program, h) \subseteq Field /\ IsFiniteSet(Field) /\ Field \subseteq Int
    BY IndexType, FieldFacts
  <2> DEFINE I == IndexCandidates(program, h)
  <2>2. I \in SUBSET Int /\ IsFiniteSet(I) /\ I \subseteq Field
    BY <2>1, FS_Subset
  <2> HIDE DEF I
  <2>3. Ascending(I) \in Seq(I)
    BY <2>2, AscendingType
  <2>4. Ascending(I) \in Seq(Field)
    BY <2>2, <2>3, SeqOfMore
  <2> QED BY <2>4 DEF I
<1>4. wrapped \in Seq(Field)
  <2>1. wraps \in Seq(0..P) /\ v \in Field
    BY WrapType
  <2> HIDE DEF wraps, v
  <2>2. \A k \in 1..Len(wraps) : (v + wraps[k]) % P \in Field
    <3> TAKE k \in 1..Len(wraps)
    <3>1. v \in Int /\ wraps[k] \in Int
      BY <2>1, ParametersAreNatural DEF Field
    <3> QED BY <3>1, FieldFacts
  <2> QED BY <2>1, <2>2
<1> HIDE DEF small, near, wrapped
<1>5. all \in Seq(Field)
  BY <1>1, <1>2, <1>3, <1>4
<1>6. OverrideValues(h) = Distinct(Other(all, v))
  BY DEF OverrideValues, small, near, wrapped
<1> HIDE DEF all
<1>7. Other(all, v) \in Seq(Field) /\ \A k \in DOMAIN Other(all, v) : Other(all, v)[k] # v
  BY <1>5, OtherType
<1>8. Other(all, v) \in Seq(Field \ {v})
  <2> DEFINE s == Other(all, v)
  <2>1. s \in Seq(Field) /\ \A k \in 1..Len(s) : s[k] \in Field \ {v}
    BY <1>7
  <2> HIDE DEF s, v
  <2>2. s \in Seq(Field \ {v})
    BY <2>1
  <2> QED BY <2>2 DEF s
<1> QED BY <1>6, <1>8, DistinctType

-----------------------------------------------------------------------------
(* Findings *)

Tried(c, f) == {p \in Hinted(c) \X Field : p[2] # f[p[1]]}

LEMMA PairsType ==
  ASSUME Runnable(program), \A h \in Hinted(program) : honest[h] \in Field
  PROVE  Pairs(OverrideHints, OverrideValues) \in Seq(Tried(program, honest))
<1> DEFINE T == Tried(program, honest)
           hints == OverrideHints
           row(h) == LET vs == OverrideValues(h) IN [j \in DOMAIN vs |-> <<h, vs[j]>>]
           rows == [k \in DOMAIN hints |-> row(hints[k])]
<1>1. hints \in Seq(Hinted(program))
  BY OverrideHintsType
<1>2. ASSUME NEW h \in Hinted(program) PROVE row(h) \in Seq(T)
  <2> DEFINE vs == OverrideValues(h)
  <2>1. vs \in Seq(Field \ {honest[h]})
    BY OverrideValuesType DEF Runnable
  <2> HIDE DEF vs
  <2>2. \A j \in 1..Len(vs) : <<h, vs[j]>> \in T
    BY <2>1 DEF Tried
  <2>3. [j \in DOMAIN vs |-> <<h, vs[j]>>] \in Seq(T)
    BY <2>1, <2>2
  <2> QED BY <2>3 DEF vs
<1> HIDE DEF hints, row, T
<1>3. rows \in Seq(Seq(T))
  <2>1. DOMAIN hints = 1..Len(hints) /\ Len(hints) \in Nat /\ \A k \in 1..Len(hints) : row(hints[k]) \in Seq(T)
    BY <1>1, <1>2
  <2> QED BY <2>1
<1> HIDE DEF rows
<1>4. FlattenSeq(rows) \in Seq(T)
  BY <1>3, FlattenType
<1> QED BY <1>4 DEF Pairs, rows, row, hints, T

(* What FuzzFindingsAreReal says of one finding. *)
Real(c, f) ==
  LET first == Completions(c, f.honest)
      second == Completions(c, f.alternative)
  IN  /\ \A a \in first \cup second : IsRun(c, a)
      /\ \E a \in first, b \in second :
           /\ Agree(c.inputs, a, b)
           /\ Differ(c.returns, a, b) # {}
           /\ a[f.hint] # b[f.hint]

LEMMA RealFrom ==
  ASSUME NEW c, WellFormedCircuit(c), NEW ins \in [c.inputs -> Field],
         NEW f, Valued(f), DOMAIN f \subseteq c.wires, Extends(f, ins),
         NEW g, Valued(g), DOMAIN g \subseteq c.wires, Extends(g, ins),
         \A a \in [c.wires -> Field] : Extends(a, f) => IsRun(c, a),
         \A a \in [c.wires -> Field] : Extends(a, g) => IsRun(c, a),
         Differ(c.returns, f, g) # {}, NEW w \in c.wires, Get(f, w) # Get(g, w),
         NEW x, x.hint = w, x.honest = f, x.alternative = g
  PROVE  Real(c, x)
<1>1. \A a : a \in Completions(c, f) <=> a \in [c.wires -> Field] /\ Extends(a, f)
  BY CompletionFacts
<1>2. \A a : a \in Completions(c, g) <=> a \in [c.wires -> Field] /\ Extends(a, g)
  BY CompletionFacts
<1>3. PICK a \in Completions(c, f), b \in Completions(c, g) :
        \A v \in c.wires : Get(f, v) # Get(g, v) => a[v] # b[v]
  BY Apart
<1>4. Agree(c.inputs, a, b)
  <2> SUFFICES ASSUME NEW v \in c.inputs PROVE a[v] = b[v]
    BY DEF Agree
  <2>1. v \in DOMAIN ins
    OBVIOUS
  <2>2. f[v] = ins[v] /\ v \in DOMAIN f /\ g[v] = ins[v] /\ v \in DOMAIN g
    BY <2>1 DEF Extends
  <2>3. a[v] = f[v] /\ b[v] = g[v]
    BY <1>1, <1>2, <1>3, <2>2 DEF Extends
  <2> QED BY <2>2, <2>3
<1>5. Differ(c.returns, a, b) # {}
  <2>1. PICK v \in c.returns : Get(f, v) # Get(g, v)
    BY DEF Differ
  <2>2. v \in c.wires
    BY DEF WellFormedCircuit
  <2>3. a[v] # b[v]
    BY <1>3, <2>1, <2>2
  <2>4. DOMAIN a = c.wires /\ DOMAIN b = c.wires
    BY <1>1, <1>2, <1>3
  <2>5. Get(a, v) # Get(b, v)
    BY <2>2, <2>3, <2>4 DEF Get
  <2> QED BY <2>5 DEF Differ
<1>6. a[w] # b[w]
  BY <1>3
<1>7. \A y \in Completions(c, f) \cup Completions(c, g) : IsRun(c, y)
  BY <1>1, <1>2
<1> QED BY <1>3, <1>4, <1>5, <1>6, <1>7 DEF Real

(* The honest run is the run on the inputs of the round, all the way from there to
   the next round.                                                               *)
Ran == ~Execute(program, inputs).failed /\ honest = Execute(program, inputs).values

FuzzInv ==
  /\ command # "fuzz" => findings = {}
  /\ command = "fuzz" =>
       /\ program \in Programs
       /\ inputs \in [program.inputs -> Field]
       /\ phase \in {"learn", "ready", "override", "mutate"} => Ran
       /\ phase = "override" => todo \in Seq(Tried(program, honest))
       /\ \A f \in findings : Real(program, f)

LEMMA InitFuzz == Init => FuzzInv
<1>1. command = "fuzz" /\ FuzzInit => FuzzInv
  BY ProgramFacts DEF FuzzInit, FuzzInv
<1>2. command = "label-mutant" /\ FuzzIdle => FuzzInv
  BY DEF FuzzIdle, FuzzInv
<1> QED BY <1>1, <1>2 DEF Init

LEMMA RanFacts ==
  ASSUME FuzzInv, command = "fuzz"
  PROVE  /\ StateOK(program, Execute(program, inputs))
         /\ Ran => /\ Valued(honest) /\ DOMAIN honest \subseteq program.wires /\ Extends(honest, inputs)
                   /\ \A a \in [program.wires -> Field] : Extends(a, honest) => IsRun(program, a)
                   /\ \A h \in Hinted(program) : honest[h] \in Field
<1>1. program \in Programs /\ inputs \in [program.inputs -> Field]
  BY DEF FuzzInv
<1>2. Runnable(program)
  BY <1>1, ProgramFacts
<1> DEFINE s == Execute(program, inputs)
<1>3. /\ StateOK(program, s) /\ Extends(s.values, inputs)
      /\ ~s.failed => /\ \A h : Producers(program, h) # {} => h \in DOMAIN s.values
                      /\ \A a \in [program.wires -> Field] : Extends(a, s.values) => IsRun(program, a)
  BY <1>1, <1>2, ExecuteFacts
<1> HIDE DEF s
<1>4. ASSUME Ran
      PROVE  /\ Valued(honest) /\ DOMAIN honest \subseteq program.wires /\ Extends(honest, inputs)
             /\ \A a \in [program.wires -> Field] : Extends(a, honest) => IsRun(program, a)
             /\ \A h \in Hinted(program) : honest[h] \in Field
  <2>1. ~s.failed /\ honest = s.values
    BY <1>4 DEF Ran, s
  <2>2. Valued(honest) /\ DOMAIN honest \subseteq program.wires
    BY <1>3, <2>1 DEF StateOK
  <2>3. \A h \in Hinted(program) : h \in DOMAIN honest
    BY <1>3, <2>1 DEF Hinted
  <2>4. \A h \in Hinted(program) : honest[h] \in Field
    BY <2>2, <2>3 DEF Valued
  <2> QED BY <1>3, <2>1, <2>2, <2>4
<1> QED BY <1>3, <1>4 DEF s

LEMMA OverrideIsReal ==
  ASSUME FuzzInv, command = "fuzz", TryOverride
  PROVE  \A f \in findings' : Real(program, f)
<1> DEFINE c == program
           h == Head(todo)[1]
           v == Head(todo)[2]
           t == ExecuteWithOverride(c, inputs, h, v)
<1>1. Ran /\ todo \in Seq(Tried(c, honest)) /\ todo # << >> /\ c \in Programs
      /\ inputs \in [c.inputs -> Field] /\ \A f \in findings : Real(c, f)
  BY DEF FuzzInv, TryOverride
<1>2. Head(todo) \in Tried(c, honest)
  BY <1>1
<1>3. h \in c.wires /\ Producers(c, h) # {} /\ h \in Hinted(c) /\ v \in Field /\ v # honest[h]
  BY <1>2 DEF Tried, Hinted
<1>4. /\ Valued(honest) /\ DOMAIN honest \subseteq c.wires /\ Extends(honest, inputs)
      /\ \A a \in [c.wires -> Field] : Extends(a, honest) => IsRun(c, a)
  BY <1>1, RanFacts
<1>5. h \in DOMAIN honest
  <2>1. \A x : Producers(c, x) # {} => x \in DOMAIN Execute(c, inputs).values
    BY <1>1, ProgramFacts, ExecuteFacts DEF Ran
  <2> QED BY <1>1, <1>3, <2>1 DEF Ran
<1>6. Runnable(c) /\ HintsAreFresh(c) /\ WellFormedCircuit(c)
  BY <1>1, ProgramFacts
<1>7. /\ StateOK(c, t) /\ Extends(t.values, inputs)
      /\ ~t.failed => /\ h \in DOMAIN t.values /\ t.values[h] = v
                      /\ \A a \in [c.wires -> Field] : Extends(a, t.values) => IsRun(c, a)
  BY <1>1, <1>3, <1>6, OverrideFacts
<1>8. findings' = findings \/ (Diverges(t) /\ findings' = findings \cup {Finding(h, t.values)})
  BY DEF TryOverride
<1> HIDE DEF c, h, v, t
<1>9. ASSUME Diverges(t) PROVE Real(c, Finding(h, t.values))
  <2>1. ~t.failed /\ Differ(c.returns, honest, t.values) # {}
    BY <1>9 DEF Diverges, c
  <2>2. Valued(t.values) /\ DOMAIN t.values \subseteq c.wires
    BY <1>7 DEF StateOK
  <2>3. Get(honest, h) # Get(t.values, h)
    BY <1>3, <1>5, <1>7, <2>1 DEF Get
  <2>4. \A a \in [c.wires -> Field] : Extends(a, t.values) => IsRun(c, a)
    BY <1>7, <2>1
  <2> DEFINE x == Finding(h, t.values)
  <2>5. x.hint = h /\ x.honest = honest /\ x.alternative = t.values
    BY DEF Finding
  <2> HIDE DEF x
  <2>6. Real(c, x)
    BY <1>1, <1>3, <1>4, <1>6, <1>7, <2>1, <2>2, <2>3, <2>4, <2>5, RealFrom
  <2> QED BY <2>6 DEF x
<1>10. \A f \in findings' : Real(c, f)
  BY <1>1, <1>8, <1>9
<1> QED BY <1>10 DEF c

LEMMA SearchIsReal ==
  ASSUME FuzzInv, command = "fuzz", MutationSearch
  PROVE  \A f \in findings' : Real(program, f)
<1> DEFINE c == program
           second(w) == CHOOSE a \in Forgeries : Differ({w}, honest, a) # {}
<1>1. Ran /\ c \in Programs /\ inputs \in [c.inputs -> Field] /\ \A f \in findings : Real(c, f)
  BY DEF FuzzInv, MutationSearch
<1>2. Runnable(c) /\ HintsAreFresh(c) /\ WellFormedCircuit(c) /\ c.hints \subseteq c.wires /\ c.returns \subseteq c.wires
      /\ c.inputs \subseteq c.wires
  BY <1>1, ProgramFacts
<1>3. /\ Valued(honest) /\ DOMAIN honest \subseteq c.wires /\ Extends(honest, inputs)
      /\ \A a \in [c.wires -> Field] : Extends(a, honest) => IsRun(c, a)
  BY <1>1, RanFacts
<1>4. PICK W \in SUBSET Forgeable : findings' = findings \cup {Finding(w, second(w)) : w \in W \ seen}
  BY DEF MutationSearch
<1>5. ASSUME NEW w \in Forgeable PROVE Real(c, Finding(w, second(w)))
  <2> DEFINE g == second(w)
             x == Finding(w, g)
  <2>1. w \in c.wires /\ \E a \in Forgeries : Differ({w}, honest, a) # {}
    BY <1>2, <1>5 DEF Forgeable
  <2>2. g \in Forgeries /\ Differ({w}, honest, g) # {}
    BY <2>1
  <2>3. x.hint = w /\ x.honest = honest /\ x.alternative = g
    BY DEF Finding
  <2> HIDE DEF g, x
  <2>4. g \in Runs(c) /\ Agree(c.inputs, g, honest) /\ Differ(c.returns, honest, g) # {}
    BY <1>1, <2>2 DEF Forgeries, RunsOf, Differ
  <2>5. g \in [c.wires -> Field] /\ IsRun(c, g)
    BY <2>4 DEF Runs
  <2>6. Valued(g) /\ DOMAIN g = c.wires
    BY <2>5 DEF Valued
  <2>7. Extends(g, inputs)
    BY <1>1, <1>2, <1>3, <2>4, <2>6 DEF Extends, Agree
  <2>8. ASSUME NEW a \in [c.wires -> Field], Extends(a, g) PROVE IsRun(c, a)
    <3>1. \A v \in c.wires : a[v] = g[v]
      BY <2>6, <2>8 DEF Extends
    <3>2. a = g
      BY <2>5, <3>1
    <3> QED BY <2>5, <3>2
  <2>9. Get(honest, w) # Get(g, w)
    BY <2>2 DEF Differ
  <2>10. Real(c, x)
    BY <1>1, <1>2, <1>3, <2>1, <2>3, <2>4, <2>6, <2>7, <2>8, <2>9, RealFrom
  <2> QED BY <2>10 DEF x, g
<1> HIDE DEF second, c
<1>6. \A f \in findings' : Real(c, f)
  BY <1>1, <1>4, <1>5
<1> QED BY <1>6 DEF c

LEMMA FuzzStep == FuzzInv /\ [Next]_vars => FuzzInv'
<1> SUFFICES ASSUME FuzzInv, [Next]_vars PROVE FuzzInv'
  OBVIOUS
<1>1. CASE command # "fuzz"
  <2>1. UNCHANGED <<findings, command>>
    BY <1>1, OnlyFuzzerFuzzes DEF fuzzOwn
  <2> QED BY <1>1, <2>1 DEF FuzzInv
<1>2. CASE command = "fuzz" /\ FuzzNext /\ UNCHANGED <<labelOwn, command>>
  <2>0. /\ command = "fuzz" /\ command' = command /\ program \in Programs /\ program' = program
        /\ inputs \in [program.inputs -> Field] /\ \A f \in findings : Real(program, f)
    BY <1>2 DEF FuzzInv, FuzzNext, StartRound, Stop, RunSolves, RepairInputs, GiveUp, LearnLinks, StartOverrides,
                TryOverride, Panic, OverridesTimeOut, EndOverrides, MutationSearch
  <2>1. CASE StartRound
    <3>1. inputs' \in [program.inputs -> Field]
      BY <2>0, <2>1, GeneratedType DEF StartRound
    <3> QED BY <2>0, <2>1, <3>1 DEF StartRound, FuzzInv
  <2>2. CASE RunSolves
    <3>1. honest' = Execute(program, inputs).values /\ ~Execute(program, inputs).failed
          /\ UNCHANGED <<program, inputs, findings>> /\ phase' \in {"learn", "ready"}
      BY <2>2 DEF RunSolves
    <3> QED BY <2>0, <3>1 DEF FuzzInv, Ran
  <2>3. CASE RepairInputs
    <3>1. inputs' = Repaired(program, links, inputs, Execute(program, inputs))
      BY <2>3 DEF RepairInputs
    <3>2. inputs' \in [program.inputs -> Field]
      BY <2>0, <3>1, RepairedType, RanFacts, ProgramFacts
    <3> QED BY <2>0, <2>3, <3>2 DEF RepairInputs, FuzzInv
  <2>4. CASE GiveUp
    BY <2>0, <2>4 DEF GiveUp, FuzzInv
  <2>5. CASE LearnLinks
    BY <2>0, <2>5 DEF LearnLinks, FuzzInv, Ran
  <2>6. CASE StartOverrides
    <3>1. Ran
      BY <2>0, <2>6 DEF StartOverrides, FuzzInv
    <3>2. Runnable(program) /\ \A h \in Hinted(program) : honest[h] \in Field
      BY <2>0, <3>1, RanFacts, ProgramFacts
    <3>3. todo' \in Seq(Tried(program, honest))
      BY <2>6, <3>2, PairsType DEF StartOverrides
    <3>4. UNCHANGED <<program, inputs, honest, findings>> /\ phase' = "override"
      BY <2>6 DEF StartOverrides
    <3> QED BY <2>0, <3>1, <3>3, <3>4 DEF FuzzInv, Ran
  <2>7. CASE TryOverride
    <3>1. \A f \in findings' : Real(program, f)
      BY <2>0, <2>7, OverrideIsReal
    <3>2. Ran /\ todo \in Seq(Tried(program, honest)) /\ todo # << >> /\ todo' = Tail(todo)
          /\ UNCHANGED <<phase, program, inputs, honest>> /\ phase = "override"
      BY <2>0, <2>7 DEF TryOverride, FuzzInv
    <3>3. todo' \in Seq(Tried(program, honest))
      BY <3>2
    <3> QED BY <2>0, <3>1, <3>2, <3>3 DEF FuzzInv, Ran
  <2>8. CASE OverridesTimeOut
    <3>1. << >> \in Seq(Tried(program, honest))
      OBVIOUS
    <3> QED BY <2>0, <2>8, <3>1 DEF OverridesTimeOut, FuzzInv, Ran, fuzzOwn
  <2>9. CASE EndOverrides
    BY <2>0, <2>9 DEF EndOverrides, FuzzInv, Ran, fuzzOwn
  <2>10. CASE MutationSearch
    <3>1. \A f \in findings' : Real(program, f)
      BY <2>0, <2>10, SearchIsReal
    <3>2. UNCHANGED <<program, inputs>> /\ phase' \in {"done", "round"}
      BY <2>10 DEF MutationSearch
    <3> QED BY <2>0, <3>1, <3>2 DEF FuzzInv
  <2>11. CASE Stop
    BY <2>0, <2>11 DEF Stop, FuzzInv, fuzzOwn
  <2>12. CASE Panic
    BY <2>0, <2>12 DEF Panic, FuzzInv
  <2> QED BY <1>2, <2>1, <2>2, <2>3, <2>4, <2>5, <2>6, <2>7, <2>8, <2>9, <2>10, <2>11, <2>12 DEF FuzzNext
<1>3. CASE command = "fuzz" /\ UNCHANGED <<phase, program, inputs, honest, todo, findings, command>>
  BY <1>3 DEF FuzzInv, Ran
<1>4. CASE command = "fuzz" /\ (\/ DeadlinePasses /\ UNCHANGED <<fuzzOwn, labelOwn, command>>
                                \/ Finished \/ UNCHANGED vars)
  BY <1>3, <1>4 DEF DeadlinePasses, Finished, vars, overrideVars, fuzzOwn
<1> QED BY <1>1, <1>2, <1>4 DEF Next

(* FuzzFindingsAreReal, for all programs, fields and bounds: what override_search and
   the mutation search add to the findings of fuzz are two runs of the circuit on the
   same parameters with different returns (fuzz.rs:585, 789).                        *)
THEOREM FuzzFindingsReal == Spec => []FuzzFindingsAreReal
<1>1. FuzzInv => FuzzFindingsAreReal
  BY DEF FuzzInv, FuzzFindingsAreReal, Real
<1> QED BY <1>1, InitFuzz, FuzzStep, PTL DEF Spec

-----------------------------------------------------------------------------
(* What is assigned when an opcode is reached. *)

(* A sum over the terms of an expression, in their order, is their sum. *)
LEMMA SumOfTerms ==
  ASSUME NEW s \in Seq(Int)
  PROVE  /\ SumSeq(s) = SumFunctionOnSet(s, DOMAIN s) /\ SumSeq(s) \in Int
         /\ IsFiniteSet(DOMAIN s) /\ IntegerAt(DOMAIN s, s)
<1>1. Len(s) \in Nat /\ DOMAIN s = 1..Len(s) /\ \A k \in DOMAIN s : s[k] \in Int
  OBVIOUS
<1>2. IsFiniteSet(DOMAIN s) /\ IntegerAt(DOMAIN s, s)
  <2>1. IsFiniteSet(1..Len(s))
    BY <1>1, FS_Interval
  <2> QED BY <1>1, <2>1 DEF IntegerAt
<1>3. SumSeq(s) = (CHOOSE F : PrefixSum(F, Len(s), s))[Len(s)]
  BY Zenon DEF SumSeq, PrefixSum
<1>4. SumSeq(s) = SumFunctionOnSet(s, DOMAIN s)
  BY <1>1, <1>2, <1>3, PrefixSums
<1> QED BY <1>2, <1>4, SumType

(* Sequences that differ in one place have sums that differ by as much. *)
LEMMA SumChanges ==
  ASSUME NEW s \in Seq(Int), NEW t \in Seq(Int), DOMAIN s = DOMAIN t, NEW k \in DOMAIN s,
         \A j \in DOMAIN s \ {k} : s[j] = t[j]
  PROVE  SumSeq(s) - SumSeq(t) = s[k] - t[k]
<1> DEFINE D == DOMAIN s
<1>1. /\ SumSeq(s) = SumFunctionOnSet(s, D) /\ SumSeq(t) = SumFunctionOnSet(t, D)
      /\ IsFiniteSet(D) /\ IntegerAt(D, s) /\ IntegerAt(D, t) /\ s[k] \in Int /\ t[k] \in Int
  BY SumOfTerms
<1> DEFINE x == SumFunctionOnSet(s, D \ {k})
           y == SumFunctionOnSet(t, D \ {k})
<1>2. x \in Int /\ SumFunctionOnSet(s, D) = s[k] + x
  BY <1>1, SumTake
<1>3. y \in Int /\ SumFunctionOnSet(t, D) = t[k] + y
  BY <1>1, SumTake
<1>4. x = y
  <2>1. IsFiniteSet(D \ {k})
    BY <1>1, FS_RemoveElement
  <2>2. SameAt(D \ {k}, s, t)
    BY DEF SameAt
  <2> QED BY <2>1, <2>2, SumSame
<1> HIDE DEF x, y, D
<1> QED BY <1>1, <1>2, <1>3, <1>4

(* Term k is all that an expression over W has of its wire. *)
Lone(mul, lin, W, k) ==
  /\ mul \in Seq(Int \X W \X W) /\ lin \in Seq(Int \X W)
  /\ k \in DOMAIN lin /\ lin[k][1] % P # 0
  /\ \A j \in DOMAIN lin \ {k} : lin[j][2] # lin[k][2]
  /\ \A j \in DOMAIN mul : mul[j][2] # lin[k][2] /\ mul[j][3] # lin[k][2]

(* f and g differ in one wire. *)
ZeroAndOne(f, g, W, w) ==
  /\ f[w] = 0 /\ g[w] = 1
  /\ \A u \in W : f[u] \in Field /\ g[u] \in Field /\ (u # w => f[u] = g[u])

(* A linear wire with a coefficient that does not vanish has not every value. *)
LEMMA OneRoot ==
  ASSUME NEW mul, NEW lin, NEW q \in Int, NEW W, NEW k, Lone(mul, lin, W, k),
         NEW f, NEW g, ZeroAndOne(f, g, W, lin[k][2])
  PROVE  Evaluate(mul, lin, q, f) # 0 \/ Evaluate(mul, lin, q, g) # 0
<1>0. /\ mul \in Seq(Int \X W \X W) /\ lin \in Seq(Int \X W)
      /\ k \in DOMAIN lin /\ lin[k][1] % P # 0
      /\ \A j \in DOMAIN lin \ {k} : lin[j][2] # lin[k][2]
      /\ \A j \in DOMAIN mul : mul[j][2] # lin[k][2] /\ mul[j][3] # lin[k][2]
      /\ f[lin[k][2]] = 0 /\ g[lin[k][2]] = 1
      /\ \A u \in W : f[u] \in Field /\ g[u] \in Field
      /\ \A u \in W : u # lin[k][2] => f[u] = g[u]
  BY DEF Lone, ZeroAndOne
<1> DEFINE products(a) == [i \in DOMAIN mul |-> mul[i][1] * a[mul[i][2]] * a[mul[i][3]]]
           linear(a) == [i \in DOMAIN lin |-> lin[i][1] * a[lin[i][2]]]
<1>1. /\ Field \subseteq Int /\ P \in Nat \ {0}
      /\ Len(mul) \in Nat /\ DOMAIN mul = 1..Len(mul) /\ Len(lin) \in Nat /\ DOMAIN lin = 1..Len(lin)
      /\ \A i \in DOMAIN mul : mul[i][1] \in Int /\ mul[i][2] \in W /\ mul[i][3] \in W
      /\ \A i \in DOMAIN lin : lin[i][1] \in Int /\ lin[i][2] \in W
  <2>1. Field \subseteq Int /\ P \in Nat \ {0}
    BY FieldFacts, ParametersAreNatural
  <2>2. /\ Len(mul) \in Nat /\ DOMAIN mul = 1..Len(mul) /\ Len(lin) \in Nat /\ DOMAIN lin = 1..Len(lin)
        /\ \A i \in DOMAIN mul : mul[i] \in Int \X W \X W
        /\ \A i \in DOMAIN lin : lin[i] \in Int \X W
    BY <1>0
  <2>3. \A x \in Int \X W \X W : x[1] \in Int /\ x[2] \in W /\ x[3] \in W
    OBVIOUS
  <2>4. \A x \in Int \X W : x[1] \in Int /\ x[2] \in W
    OBVIOUS
  <2> QED BY ONLY <2>1, <2>2, <2>3, <2>4
<1>2. products(f) = products(g)
  BY <1>0, <1>1
<1>3. ASSUME NEW a, \A w \in W : a[w] \in Field
      PROVE  /\ products(a) \in Seq(Int) /\ linear(a) \in Seq(Int)
             /\ Evaluate(mul, lin, q, a) = (q + SumSeq(products(a)) + SumSeq(linear(a))) % P
  <2>1. \A i \in DOMAIN mul : mul[i][1] * a[mul[i][2]] * a[mul[i][3]] \in Int
    <3> SUFFICES ASSUME NEW i \in DOMAIN mul PROVE mul[i][1] * a[mul[i][2]] * a[mul[i][3]] \in Int
      OBVIOUS
    <3>1. mul[i][1] \in Int /\ a[mul[i][2]] \in Int /\ a[mul[i][3]] \in Int
      BY <1>1, <1>3
    <3> QED BY <3>1
  <2>2. \A i \in DOMAIN lin : lin[i][1] * a[lin[i][2]] \in Int
    <3> SUFFICES ASSUME NEW i \in DOMAIN lin PROVE lin[i][1] * a[lin[i][2]] \in Int
      OBVIOUS
    <3>1. lin[i][1] \in Int /\ a[lin[i][2]] \in Int
      BY <1>1, <1>3
    <3> QED BY <3>1
  <2>3. products(a) \in Seq(Int)
    BY <1>1, <2>1
  <2>4. linear(a) \in Seq(Int)
    BY <1>1, <2>2
  <2> QED BY <2>3, <2>4 DEF Evaluate
<1>4. linear(f)[k] = 0 /\ linear(g)[k] = lin[k][1] /\ DOMAIN linear(f) = DOMAIN lin /\ DOMAIN linear(g) = DOMAIN lin
  <2>1. linear(f)[k] = lin[k][1] * 0 /\ linear(g)[k] = lin[k][1] * 1 /\ lin[k][1] \in Int
    BY <1>0, <1>1
  <2> QED BY <2>1
<1>5. \A j \in DOMAIN lin \ {k} : linear(g)[j] = linear(f)[j]
  BY <1>0, <1>1
<1> DEFINE A == SumSeq(products(f))
           F == SumSeq(linear(f))
           G == SumSeq(linear(g))
<1>6. A \in Int /\ F \in Int /\ G \in Int
  BY <1>0, <1>3, SumOfTerms
<1>7. G - F = lin[k][1]
  <2>1. G - F = linear(g)[k] - linear(f)[k]
    <3> HIDE DEF linear
    <3>1. linear(f) \in Seq(Int) /\ linear(g) \in Seq(Int) /\ DOMAIN linear(g) = DOMAIN linear(f) /\ k \in DOMAIN linear(g)
          /\ \A j \in DOMAIN linear(g) \ {k} : linear(g)[j] = linear(f)[j]
      BY <1>0, <1>3, <1>4, <1>5
    <3> DEFINE s == linear(g)
               t == linear(f)
    <3>2. s \in Seq(Int) /\ t \in Seq(Int) /\ DOMAIN s = DOMAIN t /\ k \in DOMAIN s
          /\ \A j \in DOMAIN s \ {k} : s[j] = t[j]
      BY <3>1
    <3> HIDE DEF s, t
    <3>3. SumSeq(s) - SumSeq(t) = s[k] - t[k]
      BY ONLY <3>2, SumChanges
    <3> QED BY <3>3 DEF s, t
  <2> QED BY <1>0, <1>1, <1>4, <2>1
<1>8. Evaluate(mul, lin, q, f) = (q + A + F) % P /\ Evaluate(mul, lin, q, g) = (q + A + G) % P
  BY <1>0, <1>2, <1>3
<1> HIDE DEF products, linear, A, F, G
<1>9. ASSUME (q + A + F) % P = 0, (q + A + G) % P = 0 PROVE FALSE
  <2>1. q + A + F \in Int /\ q + A + G \in Int /\ lin[k][1] \in Int
    BY <1>0, <1>1, <1>6
  <2>2. SameModulo(P, q + A + F, 0) /\ SameModulo(P, q + A + G, 0)
    BY <1>1, <1>9, <2>1, ModuloZero
  <2>3. SameModulo(P, (q + A + G) - (q + A + F), 0 - 0)
    BY <1>1, <2>1, <2>2, ModuloPlus
  <2>4. (q + A + G) - (q + A + F) = lin[k][1] /\ 0 - 0 = 0
    BY <1>6, <1>7
  <2>5. SameModulo(P, lin[k][1], 0)
    BY <2>3, <2>4
  <2> QED BY <1>0, <1>1, <2>1, <2>5, ModuloZero
<1> QED BY <1>8, <1>9

LEMMA AssignedMore ==
  ASSUME NEW c, NEW i \in Nat \ {0}
  PROVE  AssignedBefore(c, i + 1) = AssignedBefore(c, i) \cup Defines(c.opcodes[i])
<1>1. 1..(i+1)-1 = (1..i-1) \cup {i}
  OBVIOUS
<1> QED BY <1>1 DEF AssignedBefore

LEMMA ExpressionFills ==
  ASSUME NEW c, Runnable(c), Definite(c), NEW i \in 1..Len(c.opcodes), c.opcodes[i].type = "AssertZero",
         NEW s, StateOK(c, s), ~s.failed, AssignedBefore(c, i) \subseteq DOMAIN s.values,
         NEW t, t = SolveExpression(s, i, c.opcodes[i]), ~t.failed
  PROVE  c.opcodes[i].wires \subseteq DOMAIN t.values
<1> DEFINE o == c.opcodes[i]
           unknown == o.wires \ DOMAIN s.values
           w == CHOOSE u \in unknown : TRUE
           squared == \E k \in DOMAIN o.mul : {o.mul[k][2], o.mul[k][3]} = {w}
           with(v) == Overlay(Entry(w, v), s.values)
           roots == {v \in Field : Vanishes(o, with(v))}
           v == CHOOSE u \in roots : TRUE
<1>1. /\ i \in 0..Len(c.opcodes) /\ 0 \in 0..Len(c.opcodes) /\ o.wires \subseteq c.wires /\ i \in DOMAIN c.opcodes
  BY OpcodeOf
<1>2. t = IF unknown = {} THEN IF Vanishes(o, s.values) THEN s ELSE Fail(s, i)
          ELSE IF Cardinality(unknown) > 1 \/ squared THEN Fail(s, 0)
          ELSE IF roots = {} THEN Fail(s, i)
          ELSE IF roots = Field THEN s
          ELSE Insert(s, i, w, v)
  BY DEF SolveExpression, Vanishes
<1>3. Fail(s, 0).failed /\ Fail(s, i).failed
  BY <1>1, FailFacts
<1>4. CASE unknown = {}
  <2>1. t = s
    BY <1>2, <1>3, <1>4
  <2> QED BY <1>4, <2>1
<1>5. CASE unknown # {}
  <2>1. PICK k \in DOMAIN o.lin :
          /\ o.wires \ AssignedBefore(c, i) = {o.lin[k][2]} /\ o.lin[k][1] % P # 0
          /\ \A j \in DOMAIN o.lin \ {k} : o.lin[j][2] # o.lin[k][2]
          /\ o.lin[k][2] \notin InProducts(o)
    BY <1>1, <1>5 DEF Definite, DefinesOne
  <2>2. unknown = {o.lin[k][2]} /\ w = o.lin[k][2] /\ w \in o.wires /\ w \notin DOMAIN s.values
    <3>1. unknown \subseteq {o.lin[k][2]}
      BY <2>1
    <3>2. w \in unknown
      BY <1>5
    <3> HIDE DEF w
    <3> QED BY <3>1, <3>2
  <2> DEFINE f == with(0)
             g == with(1)
  <2>3. 0 \in Field /\ 1 \in Field
    BY ParametersAreNatural DEF Field
  <2>4. /\ f[w] = 0 /\ \A u \in DOMAIN s.values : u # w => f[u] = s.values[u]
        /\ g[w] = 1 /\ \A u \in DOMAIN s.values : u # w => g[u] = s.values[u]
    BY DEF Overlay, Entry
  <2>5. Evaluate(o.mul, o.lin, o.q, f) = 0 <=> 0 \in roots
    BY <2>3 DEF Vanishes
  <2>6. Evaluate(o.mul, o.lin, o.q, g) = 0 <=> 1 \in roots
    BY <2>3 DEF Vanishes
  <2>7. roots # {} => v \in roots /\ v \in Field
    OBVIOUS
  <2> HIDE DEF w, f, g, roots, v, squared
  <2>8. \A u \in o.wires : f[u] \in Field /\ g[u] \in Field /\ (u # w => f[u] = g[u])
    <3> SUFFICES ASSUME NEW u \in o.wires PROVE f[u] \in Field /\ g[u] \in Field /\ (u # w => f[u] = g[u])
      OBVIOUS
    <3>1. u = w \/ u \in DOMAIN s.values
      BY <2>2
    <3>2. u \in DOMAIN s.values => s.values[u] \in Field
      BY DEF StateOK, Valued
    <3> QED BY <2>3, <2>4, <3>1, <3>2
  <2>9. o.mul \in Seq(Int \X o.wires \X o.wires) /\ o.lin \in Seq(Int \X o.wires) /\ o.q \in Int
    BY <1>1 DEF Runnable, Executable, ExecutableOpcode
  <2>10. \A j \in DOMAIN o.mul : o.mul[j][2] # o.lin[k][2] /\ o.mul[j][3] # o.lin[k][2]
    <3> SUFFICES ASSUME NEW j \in DOMAIN o.mul PROVE o.mul[j][2] \in InProducts(o) /\ o.mul[j][3] \in InProducts(o)
      BY <2>1
    <3> DEFINE pair(l) == {o.mul[l][2], o.mul[l][3]}
    <3>1. pair(j) \in {pair(l) : l \in DOMAIN o.mul}
      OBVIOUS
    <3>2. o.mul[j][2] \in pair(j) /\ o.mul[j][3] \in pair(j)
      OBVIOUS
    <3>3. InProducts(o) = UNION {pair(l) : l \in DOMAIN o.mul}
      BY DEF InProducts
    <3> HIDE DEF pair, o
    <3> QED BY <3>1, <3>2, <3>3
  <2>11. Evaluate(o.mul, o.lin, o.q, f) # 0 \/ Evaluate(o.mul, o.lin, o.q, g) # 0
    <3>1. f[o.lin[k][2]] = 0 /\ g[o.lin[k][2]] = 1 /\ \A u \in o.wires : u # o.lin[k][2] => f[u] = g[u]
      BY <2>2, <2>4, <2>8
    <3> DEFINE W == o.wires
               mul == o.mul
               lin == o.lin
               q == o.q
    <3>2. q \in Int /\ Lone(mul, lin, W, k) /\ ZeroAndOne(f, g, W, lin[k][2])
      BY <2>1, <2>8, <2>9, <2>10, <3>1 DEF Lone, ZeroAndOne
    <3> HIDE DEF W, mul, lin, q, o
    <3>3. Evaluate(mul, lin, q, f) # 0 \/ Evaluate(mul, lin, q, g) # 0
      BY ONLY <3>2, OneRoot
    <3> QED BY <3>3 DEF mul, lin, q
  <2>12. roots # Field
    BY <2>3, <2>5, <2>6, <2>11
  <2>13. roots # {} /\ t = Insert(s, i, w, v)
    BY <1>2, <1>3, <1>5, <2>12
  <2>14. w \in DOMAIN t.values /\ DOMAIN t.values = DOMAIN s.values \cup {w}
    BY <1>1, <2>2, <2>7, <2>13, InsertFacts
  <2> QED BY <2>2, <2>14
<1> QED BY <1>4, <1>5

LEMMA StepFills ==
  ASSUME NEW c, Runnable(c), Definite(c), NEW i \in 1..Len(c.opcodes),
         NEW s, StateOK(c, s), AssignedBefore(c, i) \subseteq DOMAIN s.values,
         NEW t, t = Step(c, s, i), ~t.failed
  PROVE  AssignedBefore(c, i + 1) \subseteq DOMAIN t.values
<1> DEFINE o == c.opcodes[i]
<1>1. /\ i \in 0..Len(c.opcodes) /\ 0 \in 0..Len(c.opcodes) /\ o.wires \subseteq c.wires /\ i \in Nat \ {0}
      /\ o.type \notin {"Call", "Recursion"} /\ WellFormedOpcode(o)
  BY OpcodeOf
<1>2. Later(c, s, t) /\ ~s.failed
  BY StepFacts DEF Later
<1>3. DOMAIN s.values \subseteq DOMAIN t.values
  BY <1>2 DEF Later, Extends
<1>4. Fail(s, 0).failed /\ Fail(s, i).failed
  BY <1>1, FailFacts
<1>5. Defines(o) \subseteq DOMAIN t.values
  <2>1. CASE o.type = "AssertZero"
    <3>1. t = SolveExpression(s, i, o)
      BY <1>2, <2>1 DEF Step, IsEvaluated, IsAccess
    <3>2. Defines(o) = o.wires
      BY <2>1 DEF Defines, IsEvaluated
    <3> QED BY <1>2, <2>1, <3>1, <3>2, ExpressionFills
  <2>2. CASE o.type = "BrilligCall"
    <3>1. Defines(o) = ToSet(o.answers)
      BY <2>2 DEF Defines, IsEvaluated
    <3> QED BY <1>2, <2>2, <3>1, HintStep
  <2>3. CASE IsEvaluated(o)
    <3> DEFINE known == Known(s, {o.in}) /\ s.values[o.in] \in DOMAIN o.F
    <3>1. t = IF known THEN Insert(s, i, o.out, o.F[s.values[o.in]]) ELSE Fail(s, 0)
      BY <1>2, <2>3 DEF Step, IsEvaluated, IsAccess
    <3>2. known
      BY <1>4, <3>1
    <3>3. o.out \in c.wires /\ o.F[s.values[o.in]] \in Field
      BY <1>1, <2>3, <3>2 DEF WellFormedOpcode
    <3>4. o.out \in DOMAIN t.values
      <4> DEFINE v == o.F[s.values[o.in]]
                 w == o.out
      <4>1. t = Insert(s, i, w, v) /\ w \in c.wires /\ v \in Field
        BY <3>1, <3>2, <3>3
      <4> HIDE DEF v, w
      <4>2. w \in DOMAIN t.values
        BY <1>1, <4>1, InsertFacts
      <4> QED BY <4>2 DEF w
    <3>5. Defines(o) = {o.out}
      BY <2>3 DEF Defines, IsEvaluated
    <3> QED BY <3>4, <3>5
  <2>4. CASE o.type = "Bitwise"
    <3>1. t = IF Known(s, o.wires) /\ AcirHolds(o, s.values) THEN s ELSE Fail(s, i)
      BY <1>2, <2>4 DEF Step, IsEvaluated, IsAccess
    <3>2. t = s /\ o.wires \subseteq DOMAIN s.values
      BY <1>4, <3>1 DEF Known
    <3>3. Defines(o) = {o.out} /\ o.out \in o.wires
      BY <1>1, <2>4 DEF Defines, IsEvaluated, WellFormedOpcode
    <3> QED BY <3>2, <3>3
  <2>5. CASE o.type = "Read"
    <3> DEFINE at == s.values[o.index]
               v == s.blocks[o.block][at + 1]
    <3>1. t = IF Known(s, {o.index}) THEN Access(s, i, o) ELSE Fail(s, 0)
      BY <1>2, <2>5 DEF Step, IsEvaluated, IsAccess
    <3>2. Known(s, {o.index}) /\ t = Access(s, i, o)
      BY <1>4, <3>1
    <3>3. o.block \in DOMAIN s.blocks /\ ~(at >= Len(s.blocks[o.block])) /\ t = Insert(s, i, o.value, v)
      BY <1>4, <2>5, <3>2 DEF Access
    <3>4. s.blocks[o.block] \in Seq(Field) /\ at \in Nat
      <4>1. at \in Field
        BY <3>2 DEF Known, StateOK, Valued
      <4>2. s.blocks[o.block] \in Seq(Field)
        BY <3>3 DEF StateOK, Blocked
      <4> QED BY <4>1, <4>2, ParametersAreNatural DEF Field
    <3>5. v \in Field
      <4> DEFINE b == s.blocks[o.block]
      <4>1. b \in Seq(Field) /\ at \in Nat /\ ~(at >= Len(b))
        BY <3>3, <3>4
      <4> HIDE DEF b, at
      <4>2. b[at + 1] \in Field
        BY <4>1
      <4> QED BY <4>2 DEF b
    <3>6. o.value \in c.wires
      BY <1>1, <2>5 DEF WellFormedOpcode, IsAccess
    <3> HIDE DEF v
    <3>7. o.value \in DOMAIN t.values
      BY <1>1, <3>3, <3>5, <3>6, InsertFacts
    <3>8. Defines(o) = {o.value}
      BY <2>5 DEF Defines, IsEvaluated
    <3> QED BY <3>7, <3>8
  <2>6. CASE ~(o.type \in {"AssertZero", "BrilligCall", "Bitwise", "Read"} \/ IsEvaluated(o))
    BY <2>6 DEF Defines
  <2> QED BY <2>1, <2>2, <2>3, <2>4, <2>5, <2>6
<1> QED BY <1>1, <1>3, <1>5, AssignedMore

LEMMA RunFills ==
  ASSUME NEW c, Runnable(c), Definite(c), NEW s, StateOK(c, s), NEW first \in Nat \ {0},
         NEW last \in Nat, last >= first - 1, last <= Len(c.opcodes), ~RunOn(c, s, first, last).failed,
         AssignedBefore(c, first) \subseteq DOMAIN s.values
  PROVE  AssignedBefore(c, last + 1) \subseteq DOMAIN RunOn(c, s, first, last).values
<1> DEFINE n == last - first + 1
           R(k) == RunOn(c, s, first, first - 1 + k)
           Filled(k) == AssignedBefore(c, first + k) \subseteq DOMAIN R(k).values
           K == {k \in 0..n : Filled(k)}
<1>0. n \in Nat /\ first - 1 + n = last /\ first + n = last + 1 /\ Len(c.opcodes) \in Nat
  BY CircuitFacts DEF Runnable
<1>1. 0 \in K
  <2>1. first - 1 + 0 = first - 1 /\ first + 0 = first
    OBVIOUS
  <2>2. R(0) = s
    BY <2>1, RunOnSteps
  <2> HIDE DEF R
  <2> QED BY <1>0, <2>1, <2>2
<1>2. ASSUME NEW k \in 0..n-1, Filled(k) PROVE Filled(k + 1)
  <2> DEFINE i == first + k
             t == R(k)
             u == R(k + 1)
  <2>1. /\ i \in 1..Len(c.opcodes) /\ i \in Nat /\ i >= first /\ i - 1 \in Nat /\ i - 1 >= first - 1 /\ i - 1 <= Len(c.opcodes)
        /\ i >= first - 1 /\ i <= last
        /\ first - 1 + k = i - 1 /\ first - 1 + (k + 1) = i /\ first + (k + 1) = i + 1
    BY <1>0
  <2>2. t = RunOn(c, s, first, i - 1) /\ u = RunOn(c, s, first, i)
    BY <2>1
  <2>3. u = Step(c, t, i)
    <3> HIDE DEF t, u, i, R
    <3>1. \A l \in Nat : l >= first => RunOn(c, s, first, l) = Step(c, RunOn(c, s, first, l - 1), l)
      BY RunOnSteps
    <3> QED BY <2>1, <2>2, <3>1
  <2>4. AssignedBefore(c, i) \subseteq DOMAIN t.values
    BY <1>2
  <2>5. AssignedBefore(c, i + 1) \subseteq DOMAIN u.values => Filled(k + 1)
    BY <2>1
  <2> HIDE DEF t, u, i, R, Filled
  <2>6. StateOK(c, t)
    BY <2>1, <2>2, RunFacts DEF Later
  <2>7. ~u.failed
    <3>1. Later(c, u, RunOn(c, s, first, last))
      BY <2>1, <2>2, RunPrefix
    <3> QED BY <3>1 DEF Later
  <2> QED BY <2>1, <2>3, <2>4, <2>5, <2>6, <2>7, StepFills
<1>3. n \in K
  <2>1. \A k \in 0..n-1 : k \in K => k + 1 \in K
    <3> HIDE DEF R, Filled
    <3> QED BY <1>0, <1>2
  <2> HIDE DEF K
  <2>2. \A k \in 0..n : k \in K
    BY <1>0, <1>1, <2>1, CountingUp
  <2> QED BY <1>0, <2>2
<1> QED BY <1>0, <1>3

-----------------------------------------------------------------------------
(* A mutant runs as its original does.  Which opcode it was matters to a failure
   only.                                                                       *)

LEMMA InsertSame ==
  ASSUME NEW c, NEW s, StateOK(c, s), NEW i \in 0..Len(c.opcodes), NEW w, NEW v, ~Insert(s, i, w, v).failed, NEW j
  PROVE  Insert(s, j, w, v) = Insert(s, i, w, v)
<1>1. Fail(s, i).failed
  BY FailFacts
<1> QED BY <1>1 DEF Insert

LEMMA InsertAllSame ==
  ASSUME NEW c, NEW s, StateOK(c, s), NEW i \in 0..Len(c.opcodes), NEW ws \in Seq(c.wires),
         NEW vs \in [1..Len(ws) -> Field], ~InsertAll(s, i, ws, vs).failed, NEW j
  PROVE  InsertAll(s, j, ws, vs) = InsertAll(s, i, ws, vs)
<1>0. Len(ws) \in Nat
  OBVIOUS
<1>1. PICK In : /\ In[0] = s /\ InsertAll(s, i, ws, vs) = In[Len(ws)]
                /\ \A k \in 1..Len(ws) : In[k] = Insert(In[k-1], i, ws[k], vs[k])
  BY <1>0, InsertAllMeans
<1>2. PICK Jn : /\ Jn[0] = s /\ InsertAll(s, j, ws, vs) = Jn[Len(ws)]
                /\ \A k \in 1..Len(ws) : Jn[k] = Insert(Jn[k-1], j, ws[k], vs[k])
  BY <1>0, InsertAllMeans
<1> DEFINE Has(k) == StateOK(c, In[k]) /\ (~In[k].failed => Jn[k] = In[k])
           K == {k \in 0..Len(ws) : Has(k)}
<1>3. Has(0)
  BY <1>1, <1>2
<1>4. ASSUME NEW k \in 0..Len(ws)-1, Has(k) PROVE Has(k + 1)
  <2>1. k + 1 \in 1..Len(ws) /\ (k + 1) - 1 = k
    BY <1>0
  <2> DEFINE t == In[k]
             u == In[k + 1]
  <2>2. u = Insert(t, i, ws[k+1], vs[k+1]) /\ Jn[k + 1] = Insert(Jn[k], j, ws[k+1], vs[k+1])
    BY <1>1, <1>2, <2>1
  <2>3. ws[k+1] \in c.wires /\ vs[k+1] \in Field
    BY <2>1
  <2>4. StateOK(c, t) /\ (~t.failed => Jn[k] = t)
    BY <1>4
  <2> HIDE DEF t, u
  <2>5. Later(c, t, u)
    BY <2>2, <2>3, <2>4, InsertFacts
  <2>6. ASSUME ~u.failed PROVE Jn[k + 1] = u
    <3>1. Jn[k] = t
      BY <2>4, <2>5, <2>6 DEF Later
    <3> QED BY <2>2, <2>4, <2>6, <3>1, InsertSame
  <2> QED BY <2>5, <2>6 DEF Later, u
<1>5. Len(ws) \in K
  <2>1. 0 \in K /\ \A k \in 0..Len(ws)-1 : k \in K => k + 1 \in K
    BY <1>0, <1>3, <1>4
  <2> HIDE DEF K
  <2>2. \A k \in 0..Len(ws) : k \in K
    BY <1>0, <2>1, CountingUp
  <2> QED BY <1>0, <2>2
<1> QED BY <1>1, <1>2, <1>5

LEMMA StepSame ==
  ASSUME NEW c, Runnable(c), NEW i \in 1..Len(c.opcodes), NEW s, StateOK(c, s), ~Step(c, s, i).failed,
         NEW d, NEW j, d.opcodes[j] = c.opcodes[i]
  PROVE  Step(d, s, j) = Step(c, s, i)
<1> DEFINE o == c.opcodes[i]
<1>1. /\ i \in 0..Len(c.opcodes) /\ 0 \in 0..Len(c.opcodes) /\ i \in DOMAIN c.opcodes
      /\ o.type \notin {"Call", "Recursion"} /\ WellFormedOpcode(o) /\ o.wires \subseteq c.wires
  BY OpcodeOf
<1>2. ~s.failed
  BY StepFacts DEF Later
<1>3. Fail(s, 0).failed /\ Fail(s, i).failed
  BY <1>1, FailFacts
<1>4. CASE o.type = "AssertZero"
  <2> DEFINE unknown == o.wires \ DOMAIN s.values
             w == CHOOSE u \in unknown : TRUE
             squared == \E k \in DOMAIN o.mul : {o.mul[k][2], o.mul[k][3]} = {w}
             roots == {v \in Field : Evaluate(o.mul, o.lin, o.q, Overlay(Entry(w, v), s.values)) = 0}
             v == CHOOSE u \in roots : TRUE
             solved(n) == IF unknown = {} THEN IF Evaluate(o.mul, o.lin, o.q, s.values) = 0 THEN s ELSE Fail(s, n)
                          ELSE IF Cardinality(unknown) > 1 \/ squared THEN Fail(s, 0)
                          ELSE IF roots = {} THEN Fail(s, n)
                          ELSE IF roots = Field THEN s
                          ELSE Insert(s, n, w, v)
  <2>1. Step(c, s, i) = solved(i) /\ Step(d, s, j) = solved(j)
    <3>1. SolveExpression(s, i, o) = solved(i) /\ SolveExpression(s, j, o) = solved(j)
      BY DEF SolveExpression
    <3> HIDE DEF solved
    <3> QED BY <1>2, <1>4, <3>1 DEF Step, IsEvaluated, IsAccess
  <2>2. ~Insert(s, i, w, v).failed => Insert(s, j, w, v) = Insert(s, i, w, v)
    BY <1>1, InsertSame
  <2> HIDE DEF unknown, w, v, squared, roots
  <2> QED BY <1>3, <2>1, <2>2
<1>5. CASE o.type = "BrilligCall"
  <2> DEFINE known == Known(s, ToSet(o.reads)) /\ At(s, o.reads) \in DOMAIN o.F
             vs == o.F[At(s, o.reads)]
  <2>1. o.answers \in Seq(c.wires) /\ o.F \in [DOMAIN o.F -> [1..Len(o.answers) -> Field]]
    BY <1>1, <1>5 DEF Runnable, Executable, ExecutableOpcode
  <2>2. /\ Step(c, s, i) = IF known THEN InsertAll(s, i, o.answers, vs) ELSE Fail(s, 0)
        /\ Step(d, s, j) = IF known THEN InsertAll(s, j, o.answers, vs) ELSE Fail(s, 0)
    BY <1>2, <1>5 DEF Step, IsEvaluated, IsAccess
  <2>3. known => vs \in [1..Len(o.answers) -> Field]
    BY <2>1
  <2> HIDE DEF known, vs
  <2> QED BY <1>1, <1>3, <2>1, <2>2, <2>3, InsertAllSame
<1>6. CASE IsEvaluated(o)
  <2> DEFINE known == Known(s, {o.in}) /\ s.values[o.in] \in DOMAIN o.F
             v == o.F[s.values[o.in]]
  <2>1. /\ Step(c, s, i) = IF known THEN Insert(s, i, o.out, v) ELSE Fail(s, 0)
        /\ Step(d, s, j) = IF known THEN Insert(s, j, o.out, v) ELSE Fail(s, 0)
    BY <1>2, <1>6 DEF Step, IsEvaluated, IsAccess
  <2> HIDE DEF known, v
  <2> QED BY <1>1, <1>3, <2>1, InsertSame
<1>7. CASE o.type = "MemoryInit"
  BY <1>2, <1>7 DEF Step, IsEvaluated, IsAccess
<1>8. CASE IsAccess(o)
  <2> DEFINE at == s.values[o.index]
             v == s.blocks[o.block][at + 1]
             written == [s EXCEPT !.blocks[o.block][at + 1] = s.values[o.value]]
             access(n) == IF o.block \notin DOMAIN s.blocks THEN Fail(s, 0)
                          ELSE IF at >= Len(s.blocks[o.block]) THEN Fail(s, n)
                          ELSE IF o.type = "Read" THEN Insert(s, n, o.value, v)
                          ELSE IF ~Known(s, {o.value}) THEN Fail(s, 0)
                          ELSE written
  <2>1. Access(s, i, o) = access(i) /\ Access(s, j, o) = access(j)
    BY DEF Access
  <2>2. /\ Step(c, s, i) = IF Known(s, {o.index}) THEN access(i) ELSE Fail(s, 0)
        /\ Step(d, s, j) = IF Known(s, {o.index}) THEN access(j) ELSE Fail(s, 0)
    <3> HIDE DEF access
    <3> QED BY <1>2, <1>8, <2>1 DEF Step, IsEvaluated, IsAccess
  <2>3. ~Insert(s, i, o.value, v).failed => Insert(s, j, o.value, v) = Insert(s, i, o.value, v)
    BY <1>1, InsertSame
  <2> HIDE DEF at, v, written
  <2> QED BY <1>3, <2>2, <2>3
<1>9. CASE ~IsEvaluated(o) /\ ~IsAccess(o) /\ o.type \notin {"AssertZero", "BrilligCall", "MemoryInit"}
  <2> DEFINE known == Known(s, o.wires) /\ AcirHolds(o, s.values)
  <2>1. /\ Step(c, s, i) = IF known THEN s ELSE Fail(s, i)
        /\ Step(d, s, j) = IF known THEN s ELSE Fail(s, j)
    BY <1>1, <1>2, <1>9 DEF Step
  <2> HIDE DEF known
  <2> QED BY <1>3, <2>1
<1> QED BY <1>4, <1>5, <1>6, <1>7, <1>8, <1>9

(* A check that is passed leaves nothing behind. *)
LEMMA CheckPasses ==
  ASSUME NEW c, Runnable(c), NEW i \in PureChecks(c) \cup Ranges(c), NEW s, StateOK(c, s),
         AssignedBefore(c, i) \subseteq DOMAIN s.values, ~Step(c, s, i).failed
  PROVE  /\ i \in 1..Len(c.opcodes) /\ c.opcodes[i].type \in {"AssertZero", "RANGE"}
         /\ Step(c, s, i) = s /\ c.opcodes[i].wires \subseteq DOMAIN s.values /\ AcirHolds(c.opcodes[i], s.values)
<1> DEFINE o == c.opcodes[i]
<1>1. i \in 1..Len(c.opcodes) /\ (i \in PureChecks(c) => o.type = "AssertZero") /\ (i \in Ranges(c) => o.type = "RANGE")
  BY CircuitFacts DEF PureChecks, Ranges, Expressions, Runnable
<1>2. /\ i \in 0..Len(c.opcodes) /\ i \in DOMAIN c.opcodes /\ o.type \notin {"Call", "Recursion"}
  BY <1>1, OpcodeOf
<1>3. Fail(s, i).failed /\ ~s.failed
  BY <1>1, <1>2, FailFacts, StepFacts DEF Later
<1>4. CASE o.type = "AssertZero"
  <2>1. o.wires \subseteq DOMAIN s.values
    BY <1>1, <1>4 DEF PureChecks, Ranges
  <2>2. Step(c, s, i) = IF Vanishes(o, s.values) THEN s ELSE Fail(s, i)
    <3>1. o.wires \ DOMAIN s.values = {}
      BY <2>1
    <3>2. SolveExpression(s, i, o) = IF Vanishes(o, s.values) THEN s ELSE Fail(s, i)
      BY <3>1 DEF SolveExpression, Vanishes
    <3> QED BY <1>3, <1>4, <3>2 DEF Step, IsEvaluated, IsAccess
  <2>3. Vanishes(o, s.values) /\ Step(c, s, i) = s
    BY <1>3, <2>2
  <2> DEFINE e == [w \in o.wires |-> s.values[w]]
  <2>4. e \in [o.wires -> Field] /\ \A w \in o.wires : e[w] = s.values[w]
    BY <2>1 DEF StateOK, Valued
  <2> HIDE DEF e
  <2>5. Vanishes(o, e)
    BY <1>1, <1>4, <2>3, <2>4, VanishesSame
  <2>6. o.accepts = {x \in [o.wires -> Field] : Vanishes(o, x)}
    BY <1>2, <1>4 DEF Runnable, Executable, ExecutableOpcode, Vanishes
  <2>7. AcirHolds(o, s.values)
    BY <2>4, <2>5, <2>6 DEF AcirHolds, e
  <2> QED BY <1>1, <1>4, <2>1, <2>3, <2>7
<1>5. CASE o.type = "RANGE"
  <2>1. Step(c, s, i) = IF Known(s, o.wires) /\ AcirHolds(o, s.values) THEN s ELSE Fail(s, i)
    BY <1>3, <1>5 DEF Step, IsEvaluated, IsAccess
  <2> QED BY <1>1, <1>3, <1>5, <2>1 DEF Known
<1> QED BY <1>1, <1>4, <1>5

LEMMA WiderFacts ==
  ASSUME NEW o, WellFormedOpcode(o), o.type = "RANGE"
  PROVE  /\ Wider(o).type = "RANGE" /\ Wider(o).bits = o.bits + 1 /\ Wider(o).wires = o.wires
         /\ Wider(o).ins = o.ins /\ Wider(o).outs = o.outs /\ Wider(o).evaluable = o.evaluable
         /\ Wider(o).accepts = {a \in [o.wires -> Field] : \A w \in o.wires : a[w] < 2^(o.bits + 1)}
         /\ DOMAIN Wider(o) = DOMAIN o
<1> DEFINE b == o.bits + 1
           A == {a \in [o.wires -> Field] : \A w \in o.wires : a[w] < 2^(o.bits + 1)}
           x == [o EXCEPT !.bits = b]
<1>1. {"type", "wires", "ins", "outs", "evaluable", "accepts", "bits"} \subseteq DOMAIN o
  BY DEF WellFormedOpcode
<1>2. Wider(o) = [x EXCEPT !.accepts = A]
  BY Zenon DEF Wider
<1> HIDE DEF b, A
<1>3. /\ DOMAIN x = DOMAIN o /\ x.bits = b
      /\ \A y \in DOMAIN o : y # "bits" => x[y] = o[y]
  BY <1>1
<1> HIDE DEF x
<1>4. /\ DOMAIN Wider(o) = DOMAIN o /\ Wider(o).accepts = A
      /\ \A y \in DOMAIN o : y # "accepts" => Wider(o)[y] = x[y]
  BY <1>1, <1>2, <1>3
<1> QED BY <1>1, <1>3, <1>4 DEF b, A

(* What keeps to a bound keeps to the next one. *)
LEMMA WiderPasses ==
  ASSUME NEW c, Runnable(c), NEW i \in Ranges(c), c.opcodes[i].bits < FieldBits - 1, NEW s, StateOK(c, s),
         ~Step(c, s, i).failed, NEW d, NEW j, d.opcodes[j] = Wider(c.opcodes[i])
  PROVE  Step(d, s, j) = s
<1> DEFINE o == c.opcodes[i]
           p == Wider(o)
<1>1. i \in 1..Len(c.opcodes) /\ i \in DOMAIN c.opcodes /\ o.type = "RANGE" /\ WellFormedOpcode(o)
  BY CircuitFacts, OpcodeOf DEF Ranges, Runnable
<1>2. Fail(s, i).failed /\ ~s.failed
  BY <1>1, OpcodeOf, FailFacts, StepFacts DEF Later
<1>3. Step(c, s, i) = IF Known(s, o.wires) /\ AcirHolds(o, s.values) THEN s ELSE Fail(s, i)
  BY <1>1, <1>2 DEF Step, IsEvaluated, IsAccess
<1>4. Known(s, o.wires) /\ AcirHolds(o, s.values)
  BY <1>2, <1>3
<1>5. /\ p.type = "RANGE" /\ p.wires = o.wires
      /\ p.accepts = {a \in [o.wires -> Field] : \A w \in o.wires : a[w] < 2^(o.bits + 1)}
  BY <1>1, WiderFacts
<1>6. o.accepts = {a \in [o.wires -> Field] : \A w \in o.wires : a[w] < 2^o.bits}
  BY <1>1 DEF Runnable, Executable, ExecutableOpcode
<1> DEFINE e == [w \in o.wires |-> s.values[w]]
<1>7. e \in [o.wires -> Field] /\ \A w \in o.wires : e[w] < 2^o.bits
  BY <1>4, <1>6 DEF AcirHolds
<1>8. 2^o.bits \in Nat /\ 2^o.bits <= 2^(o.bits + 1) /\ 2^(o.bits + 1) \in Nat
  <2>1. o.bits \in 0..FieldBits /\ o.bits + 1 \in 0..FieldBits
    BY <1>1, PowersOfTwo DEF WellFormedOpcode
  <2> QED BY <2>1, PowersOfTwo
<1>9. \A w \in o.wires : e[w] < 2^(o.bits + 1)
  <2> SUFFICES ASSUME NEW w \in o.wires PROVE e[w] < 2^(o.bits + 1)
    OBVIOUS
  <2> DEFINE m == 2^o.bits
             n == 2^(o.bits + 1)
             x == e[w]
  <2>1. x \in Int /\ x < m /\ m \in Nat /\ n \in Nat /\ m <= n
    BY <1>7, <1>8, FieldFacts
  <2> HIDE DEF m, n, x
  <2>2. x < n
    BY <2>1
  <2> QED BY <2>2 DEF n, x
<1>10. AcirHolds(p, s.values)
  <2> HIDE DEF p
  <2>1. [w \in p.wires |-> s.values[w]] = e
    BY <1>5
  <2> HIDE DEF e
  <2>2. e \in p.accepts
    BY <1>5, <1>7, <1>9
  <2> QED BY <2>1, <2>2 DEF AcirHolds
<1>11. Known(s, p.wires)
  BY <1>4, <1>5
<1> HIDE DEF p
<1>12. Step(d, s, j) = IF Known(s, p.wires) /\ AcirHolds(p, s.values) THEN s ELSE Fail(s, j)
  BY <1>2, <1>5 DEF Step, IsEvaluated, IsAccess, p
<1> QED BY <1>10, <1>11, <1>12

-----------------------------------------------------------------------------
(* Running some opcodes, and then the others. *)

LEMMA RunOnSplit ==
  ASSUME NEW c, NEW s, NEW first \in Nat \ {0}, NEW m \in Nat, m >= first - 1, NEW last \in Nat, last >= m
  PROVE  RunOn(c, s, first, last) = RunOn(c, RunOn(c, s, first, m), m + 1, last)
<1> DEFINE n == last - m
           t == RunOn(c, s, first, m)
           R(k) == RunOn(c, s, first, m + k)
           Q(k) == RunOn(c, t, m + 1, m + k)
           K == {k \in 0..n : R(k) = Q(k)}
<1>0. n \in Nat /\ m + n = last /\ m + 1 \in Nat \ {0}
  OBVIOUS
<1>1. R(0) = Q(0)
  <2>1. m + 0 = m /\ m + 0 = (m + 1) - 1
    OBVIOUS
  <2>2. Q(0) = t
    BY <1>0, <2>1, RunOnSteps
  <2>3. R(0) = t
    BY <2>1
  <2> QED BY ONLY <2>2, <2>3
<1>2. ASSUME NEW k \in 0..n-1, R(k) = Q(k) PROVE R(k + 1) = Q(k + 1)
  <2> DEFINE i == m + (k + 1)
  <2>1. i \in Nat /\ i >= first /\ i >= m + 1 /\ i - 1 = m + k
    BY <1>0
  <2>2. RunOn(c, s, first, i) = Step(c, RunOn(c, s, first, i - 1), i)
    <3> HIDE DEF i
    <3>1. \A l \in Nat : l >= first => RunOn(c, s, first, l) = Step(c, RunOn(c, s, first, l - 1), l)
      BY RunOnSteps
    <3> QED BY <2>1, <3>1
  <2>3. RunOn(c, t, m + 1, i) = Step(c, RunOn(c, t, m + 1, i - 1), i)
    <3> HIDE DEF i, t
    <3>1. \A l \in Nat : l >= m + 1 => RunOn(c, t, m + 1, l) = Step(c, RunOn(c, t, m + 1, l - 1), l)
      BY <1>0, RunOnSteps
    <3> QED BY <2>1, <3>1
  <2>4. R(k) = RunOn(c, s, first, i - 1) /\ Q(k) = RunOn(c, t, m + 1, i - 1)
    BY <2>1
  <2>5. R(k + 1) = RunOn(c, s, first, i) /\ Q(k + 1) = RunOn(c, t, m + 1, i)
    OBVIOUS
  <2> HIDE DEF R, Q, i, t
  <2> QED BY <1>2, <2>2, <2>3, <2>4, <2>5
<1>3. n \in K
  <2>1. 0 \in K /\ \A k \in 0..n-1 : k \in K => k + 1 \in K
    <3> HIDE DEF R, Q
    <3> QED BY <1>0, <1>1, <1>2
  <2> HIDE DEF K
  <2>2. \A k \in 0..n : k \in K
    BY <1>0, <2>1, CountingUp
  <2> QED BY <1>0, <2>2
<1>4. R(n) = RunOn(c, s, first, last) /\ Q(n) = RunOn(c, t, m + 1, last)
  BY <1>0
<1> HIDE DEF R, Q, t, n
<1>5. R(n) = Q(n)
  BY <1>3
<1> QED BY ONLY <1>4, <1>5 DEF t

(* The same opcodes, so many places further to the front. *)
Shifted(d, c, first, last, shift) == \A k \in first..last : d.opcodes[k - shift] = c.opcodes[k]

LEMMA RunSame ==
  ASSUME NEW c, Runnable(c), NEW s, StateOK(c, s), NEW first \in Nat \ {0},
         NEW last \in Nat, last >= first - 1, last <= Len(c.opcodes), ~RunOn(c, s, first, last).failed,
         NEW d, NEW shift \in Nat, shift < first, Shifted(d, c, first, last, shift)
  PROVE  RunOn(d, s, first - shift, last - shift) = RunOn(c, s, first, last)
<1> DEFINE n == last - first + 1
           R(k) == RunOn(c, s, first, first - 1 + k)
           Q(k) == RunOn(d, s, first - shift, first - shift - 1 + k)
           K == {k \in 0..n : R(k) = Q(k)}
<1>0. /\ n \in Nat /\ first - 1 + n = last /\ first - shift - 1 + n = last - shift /\ Len(c.opcodes) \in Nat
      /\ first - shift \in Nat \ {0}
  BY CircuitFacts DEF Runnable
<1>1. R(0) = Q(0)
  <2>1. R(0) = s
    <3>1. first - 1 + 0 = first - 1
      OBVIOUS
    <3> QED BY <3>1, RunOnSteps
  <2>2. Q(0) = s
    <3>1. first - shift - 1 + 0 = (first - shift) - 1
      OBVIOUS
    <3> DEFINE f == first - shift
    <3>2. f \in Nat \ {0}
      BY <1>0
    <3> HIDE DEF f
    <3>3. RunOn(d, s, f, f - 1) = s
      BY <3>2, RunOnSteps
    <3> QED BY <3>1, <3>3 DEF f
  <2> QED BY ONLY <2>1, <2>2
<1>2. ASSUME NEW k \in 0..n-1, R(k) = Q(k) PROVE R(k + 1) = Q(k + 1)
  <2> DEFINE i == first + k
             j == first - shift + k
             f == first - shift
             t == RunOn(c, s, first, i - 1)
  <2>1. /\ i \in Nat /\ i >= first /\ i \in 1..Len(c.opcodes) /\ i \in first..last
        /\ i - 1 \in Nat /\ i - 1 >= first - 1 /\ i - 1 <= Len(c.opcodes) /\ i >= first - 1 /\ i <= last
        /\ j \in Nat /\ j >= f /\ f \in Nat \ {0} /\ j = i - shift
        /\ first - 1 + k = i - 1 /\ first - 1 + (k + 1) = i
        /\ first - shift - 1 + k = j - 1 /\ first - shift - 1 + (k + 1) = j
    BY <1>0
  <2>2. /\ R(k) = t /\ R(k + 1) = RunOn(c, s, first, i)
        /\ Q(k) = RunOn(d, s, f, j - 1) /\ Q(k + 1) = RunOn(d, s, f, j)
    BY <2>1
  <2> HIDE DEF R, Q, i, j, f
  <2>3. RunOn(c, s, first, i) = Step(c, t, i)
    <3>1. \A l \in Nat : l >= first => RunOn(c, s, first, l) = Step(c, RunOn(c, s, first, l - 1), l)
      BY RunOnSteps
    <3> QED BY <2>1, <3>1
  <2>4. RunOn(d, s, f, j) = Step(d, RunOn(d, s, f, j - 1), j)
    <3>1. \A l \in Nat : l >= f => RunOn(d, s, f, l) = Step(d, RunOn(d, s, f, l - 1), l)
      BY <2>1, RunOnSteps
    <3> QED BY <2>1, <3>1
  <2>5. StateOK(c, t)
    BY <2>1, RunFacts DEF Later
  <2> HIDE DEF t
  <2>6. ~Step(c, t, i).failed
    <3>1. Later(c, RunOn(c, s, first, i), RunOn(c, s, first, last))
      BY <2>1, RunPrefix
    <3> QED BY <2>3, <3>1 DEF Later
  <2>7. d.opcodes[j] = c.opcodes[i]
    BY <2>1 DEF Shifted
  <2>8. Step(d, t, j) = Step(c, t, i)
    BY <2>1, <2>5, <2>6, <2>7, StepSame
  <2> QED BY <1>2, <2>2, <2>3, <2>4, <2>8
<1>3. n \in K
  <2>1. 0 \in K /\ \A k \in 0..n-1 : k \in K => k + 1 \in K
    <3> HIDE DEF R, Q
    <3> QED BY <1>0, <1>1, <1>2
  <2> HIDE DEF K
  <2>2. \A k \in 0..n : k \in K
    BY <1>0, <2>1, CountingUp
  <2> QED BY <1>0, <2>2
<1>4. R(n) = RunOn(c, s, first, last) /\ Q(n) = RunOn(d, s, first - shift, last - shift)
  BY <1>0
<1> HIDE DEF R, Q, n
<1>5. R(n) = Q(n)
  BY <1>3
<1> QED BY ONLY <1>4, <1>5

LEMMA DropFacts ==
  ASSUME NEW c, Runnable(c), NEW i \in 1..Len(c.opcodes)
  PROVE  /\ Drop(c, i).wires = c.wires /\ Drop(c, i).inputs = c.inputs /\ Drop(c, i).hints = c.hints
         /\ Drop(c, i).returns = c.returns
         /\ Len(Drop(c, i).opcodes) = Len(c.opcodes) - 1
         /\ \A k \in 1..i-1 : Drop(c, i).opcodes[k] = c.opcodes[k]
         /\ \A k \in i+1..Len(c.opcodes) : Drop(c, i).opcodes[k-1] = c.opcodes[k]
         /\ Runnable(Drop(c, i))
<1> DEFINE d == Drop(c, i)
           n == Len(c.opcodes)
           T == {c.opcodes[k] : k \in DOMAIN c.opcodes}
           s == c.opcodes
           before == SubSeq(s, 1, i - 1)
           after == SubSeq(s, i + 1, n)
<1>1. /\ WellFormedCircuit(c) /\ s \in Seq(T) /\ n \in Nat /\ DOMAIN s = 1..n
      /\ {"wires", "inputs", "hints", "returns", "opcodes"} \subseteq DOMAIN c
  BY CircuitFacts DEF Runnable, WellFormedCircuit
<1>2. d = [c EXCEPT !.opcodes = before \o after]
  BY DEF Drop, RemoveAt
<1>3. /\ before \in Seq(T) /\ Len(before) = i - 1 /\ \A k \in 1..i-1 : before[k] = s[k]
      /\ after \in Seq(T) /\ Len(after) = n - i /\ \A k \in 1..n-i : after[k] = s[i + k]
  <2> HIDE DEF T, s, n
  <2>1. n = Len(s) /\ s \in Seq(T) /\ i \in 1..n
    BY <1>1 DEF n, s
  <2>2. before \in Seq(T) /\ Len(before) = i - 1 /\ \A k \in 1..i-1 : before[k] = s[k]
    BY <2>1
  <2>3. after \in Seq(T) /\ Len(after) = n - i /\ \A k \in 1..n-i : after[k] = s[i + k]
    BY <2>1
  <2> QED BY <2>2, <2>3
<1> HIDE DEF before, after
<1> DEFINE u == before \o after
<1>4. /\ u \in Seq(T) /\ Len(u) = n - 1
      /\ \A k \in 1..i-1 : u[k] = s[k]
      /\ \A k \in i+1..n : u[k-1] = s[k]
  <2> HIDE DEF T, s, n
  <2>1. n \in Nat /\ i \in 1..n
    BY <1>1 DEF n, s
  <2>2. u \in Seq(T) /\ Len(u) = n - 1
    <3>1. before \in Seq(T) /\ after \in Seq(T)
      BY <1>3
    <3>2. u \in Seq(T) /\ Len(u) = Len(before) + Len(after)
      BY ONLY <3>1
    <3> HIDE DEF u
    <3> QED BY <1>3, <2>1, <3>2
  <2>3. \A k \in 1..i-1 : u[k] = s[k]
    BY <1>3, <2>1
  <2>4. ASSUME NEW k \in i+1..n PROVE u[k-1] = s[k]
    <3> DEFINE j == k - i
    <3>1. j \in 1..n-i /\ i + j = k /\ k - 1 = (i - 1) + j
      BY <2>1
    <3>2. u[(i - 1) + j] = after[j]
      <4> HIDE DEF j
      <4> QED BY <1>3, <2>1, <3>1
    <3>3. after[j] = s[i + j]
      BY <1>3, <3>1
    <3> QED BY <3>1, <3>2, <3>3
  <2> QED BY <2>2, <2>3, <2>4
<1> HIDE DEF u
<1>5. /\ DOMAIN d = DOMAIN c /\ d.opcodes = u
      /\ d.wires = c.wires /\ d.inputs = c.inputs /\ d.hints = c.hints /\ d.returns = c.returns
  BY <1>1, <1>2 DEF u
<1> HIDE DEF d
<1>6. DOMAIN u = 1..n-1 /\ \A k \in DOMAIN u : \E l \in DOMAIN s : u[k] = s[l]
  <2>1. DOMAIN u = 1..n-1
    BY <1>4
  <2>2. ASSUME NEW k \in 1..n-1 PROVE \E l \in DOMAIN s : u[k] = s[l]
    <3>1. CASE k \in 1..i-1
      <4>1. u[k] = s[k]
        BY <1>4, <3>1
      <4>2. i \in 1..n
        OBVIOUS
      <4> HIDE DEF n, s, T
      <4>3. k \in DOMAIN s
        BY <1>1, <3>1, <4>2
      <4> QED BY <4>1, <4>3
    <3>2. CASE k \notin 1..i-1
      <4>1. i \in 1..n /\ n \in Nat /\ DOMAIN s = 1..n
        BY <1>1
      <4>2. k + 1 \in i+1..n /\ (k + 1) - 1 = k /\ k + 1 \in DOMAIN s
        <5> HIDE DEF n, s, T
        <5> QED BY <3>2, <4>1
      <4> QED BY <1>4, <4>2
    <3> QED BY <3>1, <3>2
  <2> QED BY <2>1, <2>2
<1>7. u \in Seq({u[k] : k \in DOMAIN u})
  <2> DEFINE U == {u[k] : k \in DOMAIN u}
  <2>1. \A k \in 1..Len(u) : u[k] \in U
    BY <1>4, <1>6
  <2>2. u \in Seq(T)
    BY <1>4
  <2> HIDE DEF U, T
  <2>3. u \in Seq(U)
    BY <2>1, <2>2
  <2> QED BY <2>3 DEF U
<1>8. WellFormedCircuit(d)
  <2>1. \A k \in DOMAIN d.opcodes : d.opcodes[k].wires \subseteq d.wires /\ WellFormedOpcode(d.opcodes[k])
    <3> SUFFICES ASSUME NEW k \in DOMAIN u PROVE u[k].wires \subseteq c.wires /\ WellFormedOpcode(u[k])
      BY <1>5
    <3>1. PICK l \in DOMAIN s : u[k] = s[l]
      BY <1>6
    <3>2. s[l].wires \subseteq c.wires /\ WellFormedOpcode(s[l])
      BY <1>1, <3>1, CircuitFacts
    <3> QED BY <3>1, <3>2
  <2>2. {"wires", "inputs", "hints", "returns", "opcodes"} \subseteq DOMAIN d
    BY <1>1, <1>5
  <2>3. /\ d.wires \subseteq Nat /\ IsFiniteSet(d.wires) /\ d.inputs \cup d.hints \cup d.returns \subseteq d.wires
        /\ d.hints \cap d.inputs = {}
    BY <1>1, <1>5 DEF WellFormedCircuit
  <2>4. d.opcodes \in Seq({d.opcodes[k] : k \in DOMAIN d.opcodes})
    BY <1>5, <1>7
  <2> QED BY <2>1, <2>2, <2>3, <2>4 DEF WellFormedCircuit
<1>9. Executable(d)
  <2> SUFFICES ASSUME NEW k \in DOMAIN d.opcodes PROVE ExecutableOpcode(d.wires, d.opcodes[k])
    BY DEF Executable
  <2>1. PICK l \in DOMAIN c.opcodes : d.opcodes[k] = c.opcodes[l]
    BY <1>5, <1>6
  <2>2. ExecutableOpcode(c.wires, c.opcodes[l])
    BY DEF Runnable, Executable
  <2> QED BY <1>5, <2>1, <2>2
<1> QED BY <1>4, <1>5, <1>8, <1>9 DEF Runnable, d

LEMMA WidenFacts ==
  ASSUME NEW c, Runnable(c), NEW i \in Ranges(c), c.opcodes[i].bits < FieldBits - 1
  PROVE  /\ Widen(c, i).wires = c.wires /\ Widen(c, i).inputs = c.inputs /\ Widen(c, i).hints = c.hints
         /\ Widen(c, i).returns = c.returns
         /\ Len(Widen(c, i).opcodes) = Len(c.opcodes)
         /\ Widen(c, i).opcodes[i] = Wider(c.opcodes[i])
         /\ \A k \in 1..Len(c.opcodes) : k # i => Widen(c, i).opcodes[k] = c.opcodes[k]
         /\ Runnable(Widen(c, i))
<1> DEFINE d == Widen(c, i)
           n == Len(c.opcodes)
           T == {c.opcodes[k] : k \in DOMAIN c.opcodes}
           s == c.opcodes
           o == c.opcodes[i]
           p == Wider(o)
           u == [s EXCEPT ![i] = p]
<1>1. /\ WellFormedCircuit(c) /\ s \in Seq(T) /\ n \in Nat /\ DOMAIN s = 1..n /\ i \in 1..n
      /\ {"wires", "inputs", "hints", "returns", "opcodes"} \subseteq DOMAIN c
      /\ o.type = "RANGE" /\ WellFormedOpcode(o) /\ o.wires \subseteq c.wires /\ o.evaluable
      /\ ExecutableOpcode(c.wires, o)
  BY CircuitFacts, OpcodeOf DEF Runnable, WellFormedCircuit, Executable, Ranges
<1>2. d = [c EXCEPT !.opcodes = u]
  BY Zenon DEF Widen
<1>3. u \in Seq(T \cup {p}) /\ Len(u) = n /\ DOMAIN u = 1..n /\ u[i] = p /\ \A k \in 1..n : k # i => u[k] = s[k]
  <2> HIDE DEF T, p
  <2> DEFINE U == T \cup {p}
  <2>1. s \in Seq(U) /\ p \in U
    <3>1. T \subseteq U
      OBVIOUS
    <3> HIDE DEF U
    <3>2. s \in Seq(U)
      BY <1>1, <3>1, SeqOfMore
    <3> QED BY <3>2 DEF U
  <2> HIDE DEF U, s
  <2>2. n = Len(s)
    BY DEF s
  <2> HIDE DEF n
  <2>3. u \in Seq(U) /\ Len(u) = n /\ DOMAIN u = 1..n /\ u[i] = p /\ \A k \in 1..n : k # i => u[k] = s[k]
    BY <1>1, <2>1, <2>2
  <2> QED BY <2>3 DEF U
<1>4. /\ p.type = "RANGE" /\ p.wires = o.wires /\ p.bits = o.bits + 1 /\ p.ins = o.ins /\ p.outs = o.outs
      /\ p.evaluable = o.evaluable /\ DOMAIN p = DOMAIN o
      /\ p.accepts = {a \in [o.wires -> Field] : \A w \in o.wires : a[w] < 2^(o.bits + 1)}
  BY <1>1, WiderFacts
<1> HIDE DEF p
<1>5. WellFormedOpcode(p) /\ ExecutableOpcode(c.wires, p)
  <2>1. o.bits \in Nat /\ o.bits + 1 \in Nat /\ 2^(o.bits + 1) \in Nat
    <3>1. o.bits \in Nat
      BY <1>1 DEF WellFormedOpcode
    <3>2. o.bits + 1 \in 0..FieldBits
      BY <3>1, PowersOfTwo
    <3> QED BY <3>1, <3>2, PowersOfTwo
  <2>2. WellFormedOpcode(p)
    BY <1>1, <1>4, <2>1 DEF WellFormedOpcode, IsAccess, IsEvaluated
  <2>3. p.accepts = {a \in [p.wires -> Field] : \A w \in p.wires : a[w] < 2^p.bits}
    BY <1>4
  <2> QED BY <1>1, <1>4, <2>2, <2>3 DEF ExecutableOpcode
<1> HIDE DEF u
<1>6. /\ DOMAIN d = DOMAIN c /\ d.opcodes = u
      /\ d.wires = c.wires /\ d.inputs = c.inputs /\ d.hints = c.hints /\ d.returns = c.returns
  BY <1>1, <1>2
<1> HIDE DEF d
<1>7. ASSUME NEW k \in 1..n PROVE u[k].wires \subseteq c.wires /\ WellFormedOpcode(u[k]) /\ ExecutableOpcode(c.wires, u[k])
  <2>1. CASE k = i
    BY <1>1, <1>3, <1>4, <1>5, <2>1
  <2>2. CASE k # i
    <3>1. s[k].wires \subseteq c.wires /\ WellFormedOpcode(s[k]) /\ ExecutableOpcode(c.wires, s[k])
      BY <1>1, CircuitFacts DEF Runnable, Executable
    <3> QED BY <1>3, <2>2, <3>1
  <2> QED BY <2>1, <2>2
<1>8. u \in Seq({u[k] : k \in DOMAIN u})
  <2> DEFINE U == {u[k] : k \in DOMAIN u}
             S == T \cup {p}
  <2>1. u \in Seq(S) /\ \A k \in 1..Len(u) : u[k] \in U
    BY <1>3
  <2> HIDE DEF U, S
  <2>2. u \in Seq(U)
    BY ONLY <2>1
  <2> QED BY <2>2 DEF U
<1>9. WellFormedCircuit(d)
  <2>1. \A k \in DOMAIN d.opcodes : d.opcodes[k].wires \subseteq d.wires /\ WellFormedOpcode(d.opcodes[k])
    BY <1>3, <1>6, <1>7
  <2>2. {"wires", "inputs", "hints", "returns", "opcodes"} \subseteq DOMAIN d
    BY <1>1, <1>6
  <2>3. /\ d.wires \subseteq Nat /\ IsFiniteSet(d.wires) /\ d.inputs \cup d.hints \cup d.returns \subseteq d.wires
        /\ d.hints \cap d.inputs = {}
    BY <1>1, <1>6 DEF WellFormedCircuit
  <2>4. d.opcodes \in Seq({d.opcodes[k] : k \in DOMAIN d.opcodes})
    BY <1>6, <1>8
  <2> QED BY <2>1, <2>2, <2>3, <2>4 DEF WellFormedCircuit
<1>10. Executable(d)
  BY <1>3, <1>6, <1>7 DEF Executable
<1> QED BY <1>3, <1>6, <1>9, <1>10 DEF Runnable, d, p

(* The run of the original gets past the check as if it were not there. *)
LEMMA PassesCheck ==
  ASSUME NEW c, Runnable(c), Definite(c), NEW i \in PureChecks(c) \cup Ranges(c),
         NEW ins \in [c.inputs -> Field], ~Execute(c, ins).failed,
         NEW u, u = RunOn(c, Fresh(ins), 1, i - 1)
  PROVE  /\ i \in 1..Len(c.opcodes) /\ StateOK(c, u) /\ ~u.failed /\ ~Step(c, u, i).failed
         /\ AssignedBefore(c, i) \subseteq DOMAIN u.values
         /\ Execute(c, ins) = RunOn(c, u, i + 1, Len(c.opcodes))
<1> DEFINE n == Len(c.opcodes)
           s == Fresh(ins)
           t == RunOn(c, s, 1, n)
           v == RunOn(c, s, 1, i)
<1>1. /\ n \in Nat /\ DOMAIN c.opcodes = 1..n /\ WellFormedCircuit(c) /\ i \in 1..n
      /\ i \in Nat /\ i - 1 \in Nat /\ i - 1 >= 1 - 1 /\ i - 1 <= n /\ n >= i - 1 /\ n <= n /\ i >= 1 /\ i >= 1 - 1 /\ n >= i /\ i <= n
      /\ 1 \in Nat \ {0} /\ (i - 1) + 1 = i /\ i \in Nat \ {0}
  BY CircuitFacts DEF Runnable, PureChecks, Ranges, Expressions
<1>2. StateOK(c, s) /\ s.values = ins
  BY <1>1, FreshOK
<1>3. Execute(c, ins) = t
  BY DEF Execute
<1> HIDE DEF n, s, t, v
<1>4. StateOK(c, u)
  BY <1>1, <1>2, RunFacts DEF Later, n, s
<1>5. v = Step(c, u, i)
  <2>1. \A l \in Nat : l >= 1 => RunOn(c, s, 1, l) = Step(c, RunOn(c, s, 1, l - 1), l)
    BY <1>1, RunOnSteps
  <2> QED BY <1>1, <2>1 DEF v, s
<1>6. Later(c, v, t)
  BY <1>1, <1>2, RunPrefix DEF v, t, n
<1>7. ~v.failed
  BY <1>3, <1>6 DEF Later
<1>8. ~u.failed
  BY <1>1, <1>4, <1>5, <1>7, StepFacts DEF Later, n
<1>9. AssignedBefore(c, i) \subseteq DOMAIN u.values
  <2>1. AssignedBefore(c, 1) \subseteq DOMAIN s.values
    <3>1. 1..1-1 = {}
      OBVIOUS
    <3> QED BY <1>2, <3>1 DEF AssignedBefore
  <2>2. u = RunOn(c, s, 1, i - 1)
    BY DEF s
  <2>3. AssignedBefore(c, (i - 1) + 1) \subseteq DOMAIN RunOn(c, s, 1, i - 1).values
    BY <1>1, <1>2, <1>8, <2>1, <2>2, RunFills DEF n
  <2> QED BY <1>1, <2>2, <2>3
<1>10. v = u
  BY <1>4, <1>5, <1>7, <1>9, CheckPasses
<1>11. t = RunOn(c, v, i + 1, n)
  BY <1>1, RunOnSplit DEF t, v
<1> QED BY <1>1, <1>3, <1>4, <1>5, <1>7, <1>8, <1>9, <1>10, <1>11 DEF n

LEMMA MutantRuns ==
  ASSUME NEW c, Runnable(c), Definite(c), NEW i \in DOMAIN c.opcodes, NEW m \in MutantsAt(c, i),
         NEW ins \in [c.inputs -> Field], ~Execute(c, ins).failed
  PROVE  Execute(m, ins) = Execute(c, ins)
<1> DEFINE n == Len(c.opcodes)
           s == Fresh(ins)
           u == RunOn(c, s, 1, i - 1)
<1>1. /\ n \in Nat /\ DOMAIN c.opcodes = 1..n /\ WellFormedCircuit(c) /\ i \in 1..n
      /\ i \in Nat /\ i - 1 \in Nat /\ i - 1 >= 1 - 1 /\ i - 1 <= n /\ n - 1 >= i - 1 /\ n >= i /\ n - 1 \in Nat /\ n <= n
      /\ 1 \in Nat \ {0} /\ i + 1 \in Nat \ {0} /\ (i - 1) + 1 = i /\ n >= (i + 1) - 1 /\ (i + 1) - 1 = i
      /\ i >= 1 - 1 /\ i >= 1
  BY CircuitFacts DEF Runnable
<1>2. i \in PureChecks(c) \cup Ranges(c)
  BY DEF MutantsAt
<1>3. /\ StateOK(c, u) /\ ~u.failed /\ ~Step(c, u, i).failed /\ AssignedBefore(c, i) \subseteq DOMAIN u.values
      /\ Execute(c, ins) = RunOn(c, u, i + 1, n)
  BY <1>2, PassesCheck
<1>4. StateOK(c, s)
  BY <1>1, FreshOK
<1> HIDE DEF n, s
<1>5. CASE m = Drop(c, i)
  <2>1. /\ Len(m.opcodes) = n - 1
        /\ \A k \in 1..i-1 : m.opcodes[k] = c.opcodes[k]
        /\ \A k \in i+1..n : m.opcodes[k-1] = c.opcodes[k]
    BY <1>1, <1>5, DropFacts DEF n
  <2>2. RunOn(m, s, 1, i - 1) = u
    <3> DEFINE l == i - 1
    <3>1. /\ 0 \in Nat /\ 0 < 1 /\ 1 - 0 = 1 /\ l - 0 = l /\ Shifted(m, c, 1, l, 0)
          /\ l \in Nat /\ l >= 1 - 1 /\ l <= Len(c.opcodes) /\ u = RunOn(c, s, 1, l)
      BY <1>1, <2>1 DEF Shifted, n
    <3> HIDE DEF u, l
    <3>2. RunOn(m, s, 1 - 0, l - 0) = u
      BY <1>1, <1>3, <1>4, <3>1, RunSame
    <3> QED BY <3>1, <3>2 DEF l
  <2>3. RunOn(m, u, i, n - 1) = RunOn(c, u, i + 1, n)
    <3> DEFINE f == i + 1
    <3>1. /\ 1 \in Nat /\ 1 < f /\ f - 1 = i /\ Shifted(m, c, f, n, 1)
          /\ f \in Nat \ {0} /\ n >= f - 1 /\ n <= Len(c.opcodes)
      BY <1>1, <2>1 DEF Shifted, n
    <3> HIDE DEF u, f
    <3>2. ~RunOn(c, u, f, n).failed
      BY <1>3 DEF f
    <3>3. RunOn(m, u, f - 1, n - 1) = RunOn(c, u, f, n)
      BY <1>1, <1>3, <3>1, <3>2, RunSame
    <3> QED BY <3>1, <3>3 DEF f
  <2>4. RunOn(m, s, 1, n - 1) = RunOn(m, RunOn(m, s, 1, i - 1), (i - 1) + 1, n - 1)
    <3> DEFINE l == i - 1
               q == n - 1
    <3>1. l \in Nat /\ l >= 1 - 1 /\ q \in Nat /\ q >= l
      BY <1>1
    <3> HIDE DEF l, q
    <3>2. RunOn(m, s, 1, q) = RunOn(m, RunOn(m, s, 1, l), l + 1, q)
      BY <1>1, <3>1, RunOnSplit
    <3> QED BY <3>2 DEF l, q
  <2>5. Execute(m, ins) = RunOn(m, s, 1, n - 1)
    BY <2>1 DEF Execute, s
  <2> HIDE DEF u
  <2> QED BY <1>1, <1>3, <2>2, <2>3, <2>4, <2>5
<1>6. CASE m = Widen(c, i) /\ i \in Ranges(c) /\ c.opcodes[i].bits < FieldBits - 1
  <2>1. /\ Len(m.opcodes) = n /\ m.opcodes[i] = Wider(c.opcodes[i])
        /\ \A k \in 1..n : k # i => m.opcodes[k] = c.opcodes[k]
    BY <1>1, <1>6, WidenFacts DEF n
  <2>2. RunOn(m, s, 1, i - 1) = u
    <3> DEFINE l == i - 1
    <3>1. /\ 0 \in Nat /\ 0 < 1 /\ 1 - 0 = 1 /\ l - 0 = l /\ Shifted(m, c, 1, l, 0)
          /\ l \in Nat /\ l >= 1 - 1 /\ l <= Len(c.opcodes) /\ u = RunOn(c, s, 1, l)
      BY <1>1, <2>1 DEF Shifted, n
    <3> HIDE DEF u, l
    <3>2. RunOn(m, s, 1 - 0, l - 0) = u
      BY <1>1, <1>3, <1>4, <3>1, RunSame
    <3> QED BY <3>1, <3>2 DEF l
  <2>3. RunOn(m, s, 1, i) = u
    <3>1. \A l \in Nat : l >= 1 => RunOn(m, s, 1, l) = Step(m, RunOn(m, s, 1, l - 1), l)
      BY <1>1, RunOnSteps
    <3>2. RunOn(m, s, 1, i) = Step(m, u, i)
      BY <1>1, <2>2, <3>1
    <3> HIDE DEF u
    <3> QED BY <1>3, <1>6, <2>1, <3>2, WiderPasses
  <2>4. RunOn(m, u, i + 1, n) = RunOn(c, u, i + 1, n)
    <3> DEFINE f == i + 1
    <3>1. /\ 0 \in Nat /\ 0 < f /\ f - 0 = f /\ n - 0 = n /\ Shifted(m, c, f, n, 0)
          /\ f \in Nat \ {0} /\ n >= f - 1 /\ n <= Len(c.opcodes)
      <4>1. i \in 1..n /\ n \in Nat /\ n <= Len(c.opcodes)
        BY <1>1
      <4>2. \A k \in 1..n : k # i => m.opcodes[k] = c.opcodes[k]
        BY <2>1
      <4> HIDE DEF n
      <4>3. /\ 0 \in Nat /\ 0 < f /\ f - 0 = f /\ n - 0 = n
            /\ f \in Nat \ {0} /\ n >= f - 1
        BY <4>1
      <4>4. \A k \in f..n : k \in 1..n /\ k # i /\ k - 0 = k
        BY <4>1
      <4>5. Shifted(m, c, f, n, 0)
        BY <4>2, <4>4 DEF Shifted
      <4> QED BY <4>1, <4>3, <4>5
    <3> HIDE DEF u, f
    <3>2. ~RunOn(c, u, f, n).failed
      BY <1>3 DEF f
    <3>3. RunOn(m, u, f - 0, n - 0) = RunOn(c, u, f, n)
      BY <1>1, <1>3, <3>1, <3>2, RunSame
    <3> QED BY <3>1, <3>3 DEF f
  <2>5. RunOn(m, s, 1, n) = RunOn(m, RunOn(m, s, 1, i), i + 1, n)
    BY <1>1, RunOnSplit
  <2>6. Execute(m, ins) = RunOn(m, s, 1, n)
    BY <2>1 DEF Execute, s
  <2> HIDE DEF u
  <2> QED BY <1>3, <2>3, <2>4, <2>5, <2>6
<1> QED BY <1>5, <1>6 DEF MutantsAt

MutantInv ==
  command = "label-mutant" =>
    original \in Originals /\ opcodeIndex \in DOMAIN original.opcodes /\ program \in MutantsAt(original, opcodeIndex)

LEMMA InitMutant == Init => MutantInv
BY DEF Init, LabelInit, MutantInv

LEMMA MutantStays ==
  ASSUME [Next]_vars
  PROVE  /\ command' = command
         /\ command = "label-mutant" => original' = original /\ opcodeIndex' = opcodeIndex /\ program' = program
<1>1. CASE LabelNext /\ UNCHANGED <<fuzzOwn, command>>
  BY <1>1 DEF LabelNext, OriginalRejects, OriginalRuns, TryAnswer, AnswersTimeOut, EndAnswers, TryVariant, SkipVariant,
              EndVariants, labelOwn, overrideVars
<1>2. CASE DeadlinePasses /\ UNCHANGED <<fuzzOwn, labelOwn, command>>
  BY <1>2 DEF DeadlinePasses, labelOwn
<1>3. CASE UNCHANGED vars
  BY <1>3 DEF vars, labelOwn, overrideVars
<1>4. CASE command = "fuzz" /\ UNCHANGED <<labelOwn, command>>
  BY <1>4
<1> QED BY <1>1, <1>2, <1>3, <1>4 DEF Next, Finished

LEMMA MutantStep == MutantInv /\ [Next]_vars => MutantInv'
<1> SUFFICES ASSUME MutantInv, [Next]_vars PROVE MutantInv'
  OBVIOUS
<1>1. /\ command' = command
      /\ command = "label-mutant" => original' = original /\ opcodeIndex' = opcodeIndex /\ program' = program
  BY MutantStays
<1> QED BY <1>1 DEF MutantInv

LEMMA OriginalFacts ==
  ASSUME NEW c \in Originals
  PROVE  /\ Runnable(c) /\ WellFormedCircuit(c) /\ HintsAreFresh(c) /\ Definite(c)
         /\ c.inputs \subseteq c.wires /\ c.returns \subseteq c.wires
         /\ c.seed \in [c.inputs -> Field]
BY OriginalsDefinite, CircuitFacts DEF Runnable

(* A mutant does not lose an assignment: on inputs that the original accepts it runs
   to where the original does, whichever check was removed or widened (mutants.rs:13,
   label.rs:129).                                                               *)
THEOREM MutantsStillRun == Spec => []MutantStillRuns
<1>1. MutantInv => MutantStillRuns
  <2> SUFFICES ASSUME MutantInv, command = "label-mutant", NEW ins \in [original.inputs -> Field],
                      ~Execute(original, ins).failed
               PROVE  Execute(program, ins) = [Execute(original, ins) EXCEPT !.blocks = Execute(program, ins).blocks]
    BY DEF MutantStillRuns
  <2> DEFINE s == Execute(original, ins)
  <2>1. Runnable(original) /\ Definite(original)
    BY OriginalFacts DEF MutantInv
  <2>2. Execute(program, ins) = s
    BY <2>1, MutantRuns DEF MutantInv
  <2>3. StateOK(original, s)
    BY <2>1, ExecuteFacts
  <2> HIDE DEF s
  <2>4. [s EXCEPT !.blocks = s.blocks] = s
    BY <2>3 DEF StateOK
  <2> QED BY <2>2, <2>4 DEF s
<1> QED BY <1>1, InitMutant, MutantStep, PTL DEF Spec

-----------------------------------------------------------------------------
(* What a circuit accepts, without one of its opcodes that is not about memory. *)

(* Where opcode j of the shorter circuit stands in the longer one. *)
Place(i, j) == IF j < i THEN j ELSE j + 1

LEMMA PlaceFacts ==
  ASSUME NEW i \in Nat \ {0}
  PROVE  /\ \A j \in Nat : Place(i, j) \in Nat /\ Place(i, j) # i /\ (Place(i, j) = 0 <=> j = 0)
         /\ \A j, k \in Nat : j < k <=> Place(i, j) < Place(i, k)
         /\ \A l \in Nat : l # i => \E j \in Nat : Place(i, j) = l
<1>1. \A j \in Nat : Place(i, j) \in Nat /\ Place(i, j) # i /\ (Place(i, j) = 0 <=> j = 0)
  BY DEF Place
<1>2. \A j, k \in Nat : j < k <=> Place(i, j) < Place(i, k)
  BY DEF Place
<1>3. ASSUME NEW l \in Nat, l # i PROVE \E j \in Nat : Place(i, j) = l
  <2>1. CASE l < i
    BY <2>1 DEF Place
  <2>2. CASE l > i
    <3>1. l - 1 \in Nat /\ Place(i, l - 1) = l
      BY <2>2 DEF Place
    <3> QED BY <3>1
  <2> QED BY <1>3, <2>1, <2>2
<1> QED BY <1>1, <1>2, <1>3

(* d is c without opcode i, which is not about memory. *)
Without(d, c, i) ==
  /\ i \in 1..Len(c.opcodes) /\ Len(c.opcodes) \in Nat /\ DOMAIN c.opcodes = 1..Len(c.opcodes)
  /\ DOMAIN d.opcodes = 1..Len(c.opcodes)-1
  /\ \A j \in 1..Len(c.opcodes)-1 : d.opcodes[j] = c.opcodes[Place(i, j)]
  /\ c.opcodes[i].type \notin {"MemoryInit", "Read", "Write"}

LEMMA WithoutInit ==
  ASSUME NEW c, NEW d, NEW i, Without(d, c, i), NEW b, NEW k \in 1..Len(c.opcodes)-1
  PROVE  InitBefore(c, b, Place(i, k)) = Place(i, InitBefore(d, b, k))
<1> DEFINE n == Len(c.opcodes)
           Sets(e, j) == e.opcodes[j].type = "MemoryInit" /\ e.opcodes[j].block = b
           Jd == {0} \cup {j \in 1..k-1 : Sets(d, j)}
           Jc == {0} \cup {j \in 1..Place(i, k)-1 : Sets(c, j)}
           p == Max(Jd)
<1>1. /\ n \in Nat /\ i \in 1..n /\ i \in Nat \ {0} /\ k \in Nat
      /\ \A j \in 1..n-1 : d.opcodes[j] = c.opcodes[Place(i, j)]
      /\ ~Sets(c, i)
  BY DEF Without
<1>2. p \in Jd /\ \A u \in Jd : u <= p
  <2>0. 0 \in Int /\ k - 1 \in Int
    BY <1>1
  <2>a. IsFiniteSet(0..k-1)
    BY ONLY <2>0, FS_Interval
  <2>1. Jd \in SUBSET (0..k-1) /\ Jd # {}
    BY <1>1
  <2>2. Jd \in SUBSET Int /\ IsFiniteSet(Jd)
    BY <2>1, <2>a, FS_Subset
  <2> HIDE DEF Jd
  <2> QED BY <2>1, <2>2, MaxExists
<1>3. InitBefore(d, b, k) = p /\ InitBefore(c, b, Place(i, k)) = Max(Jc)
  BY DEF InitBefore
<1>4. /\ \A j \in Nat : Place(i, j) \in Nat /\ Place(i, j) # i /\ (Place(i, j) = 0 <=> j = 0)
      /\ \A j, l \in Nat : j < l <=> Place(i, j) < Place(i, l)
      /\ \A l \in Nat : l # i => \E j \in Nat : Place(i, j) = l
  BY <1>1, PlaceFacts
<1> HIDE DEF p, Sets
<1>5. \A j \in 1..n-1 : Sets(d, j) <=> Sets(c, Place(i, j))
  BY <1>1 DEF Sets
<1>6. Place(i, p) \in Jc
  <2>1. CASE p = 0
    <3>1. Place(i, p) = 0
      BY <1>4, <2>1
    <3> QED BY <3>1
  <2>2. CASE p # 0
    <3>1. p \in 1..k-1 /\ Sets(d, p) /\ p \in 1..n-1 /\ p \in Nat /\ p < k
      BY <1>1, <1>2, <2>2
    <3>2. Sets(c, Place(i, p)) /\ Place(i, p) \in Nat /\ Place(i, p) # 0 /\ Place(i, p) < Place(i, k) /\ Place(i, k) \in Nat
      BY <1>1, <1>4, <1>5, <2>2, <3>1
    <3>3. Place(i, p) \in 1..Place(i, k)-1
      BY <3>2
    <3> QED BY <3>2, <3>3
  <2> QED BY <2>1, <2>2
<1>7. ASSUME NEW u \in Jc PROVE u <= Place(i, p)
  <2>1. p \in Nat /\ Place(i, p) \in Nat /\ Place(i, k) \in Nat
    BY <1>1, <1>2, <1>4
  <2>2. CASE u = 0
    BY <2>1, <2>2
  <2>3. CASE u # 0
    <3>1. u \in Nat /\ u < Place(i, k) /\ Sets(c, u)
      BY <2>1, <2>3
    <3>2. u # i
      BY <1>1, <3>1
    <3>3. PICK j \in Nat : Place(i, j) = u
      BY <1>4, <3>1, <3>2
    <3>4. j < k /\ j # 0
      BY <1>1, <1>4, <2>3, <3>1, <3>3
    <3>5. j \in 1..k-1 /\ j \in 1..n-1
      BY <1>1, <3>4
    <3>6. j <= p
      BY <1>2, <1>5, <3>1, <3>3, <3>5
    <3>7. ~(Place(i, p) < Place(i, j))
      BY <1>4, <2>1, <3>6
    <3> QED BY <2>1, <3>1, <3>3, <3>7
  <2> QED BY <2>2, <2>3
<1>8. Jc \in SUBSET Int
  OBVIOUS
<1>9. Max(Jc) = Place(i, p)
  <2> HIDE DEF Jc
  <2> QED BY <1>6, <1>7, <1>8, MaxIs
<1> QED BY <1>3, <1>9

LEMMA WithoutContent ==
  ASSUME NEW c, NEW d, NEW i, Without(d, c, i), NEW b, NEW k \in 1..Len(c.opcodes)-1, InitBefore(d, b, k) # 0,
         NEW a, NEW x
  PROVE  Content(c, a, b, x, Place(i, k)) = Content(d, a, b, x, k)
<1> DEFINE n == Len(c.opcodes)
           q == InitBefore(d, b, k)
           Puts(e, j) == e.opcodes[j].type = "Write" /\ e.opcodes[j].block = b /\ a[e.opcodes[j].index] = x
           Wd == {j \in q+1..k-1 : Puts(d, j)}
           Wc == {j \in Place(i, q)+1..Place(i, k)-1 : Puts(c, j)}
<1>1. /\ n \in Nat /\ i \in 1..n /\ i \in Nat \ {0} /\ k \in Nat /\ k \in Nat \ {0}
      /\ \A j \in 1..n-1 : d.opcodes[j] = c.opcodes[Place(i, j)]
      /\ ~Puts(c, i)
  BY DEF Without
<1>2. q \in 0..k-1
  BY <1>1, InitBeforeType
<1>3. Writes(d, a, b, x, k) = Wd /\ Writes(c, a, b, x, Place(i, k)) = Wc
  BY WithoutInit DEF Writes
<1>4. /\ \A j \in Nat : Place(i, j) \in Nat /\ Place(i, j) # i /\ (Place(i, j) = 0 <=> j = 0)
      /\ \A j, l \in Nat : j < l <=> Place(i, j) < Place(i, l)
      /\ \A l \in Nat : l # i => \E j \in Nat : Place(i, j) = l
  BY <1>1, PlaceFacts
<1>5. c.opcodes[Place(i, q)] = d.opcodes[q] /\ q \in Nat /\ InitBefore(c, b, Place(i, k)) = Place(i, q)
  BY <1>1, <1>2, WithoutInit
<1>6. \A j \in 1..n-1 : Puts(d, j) <=> Puts(c, Place(i, j))
  BY <1>1
<1> HIDE DEF q, Puts
<1>7. ASSUME NEW j \in Wd PROVE Place(i, j) \in Wc
  <2>1. j \in Nat /\ q < j /\ j < k /\ j \in 1..n-1 /\ Puts(d, j)
    BY <1>1, <1>5
  <2>2. Place(i, q) < Place(i, j) /\ Place(i, j) < Place(i, k)
    BY <1>1, <1>4, <1>5, <2>1
  <2>3. Place(i, q) \in Nat /\ Place(i, j) \in Nat /\ Place(i, k) \in Nat
    BY <1>1, <1>4, <1>5, <2>1
  <2>4. Place(i, j) \in Place(i, q)+1..Place(i, k)-1
    BY <2>2, <2>3
  <2> QED BY <1>6, <2>1, <2>4
<1>8. ASSUME NEW u \in Wc PROVE \E j \in Wd : Place(i, j) = u
  <2>1. Place(i, q) \in Nat /\ Place(i, k) \in Nat
    BY <1>1, <1>4, <1>5
  <2>2. u \in Nat /\ Place(i, q) < u /\ u < Place(i, k) /\ Puts(c, u)
    BY <2>1
  <2>3. u # i
    BY <1>1, <2>2
  <2>4. PICK j \in Nat : Place(i, j) = u
    BY <1>4, <2>2, <2>3
  <2>5. q < j /\ j < k
    BY <1>1, <1>4, <1>5, <2>2, <2>4
  <2>6. j \in q+1..k-1 /\ j \in 1..n-1
    BY <1>1, <1>5, <2>5
  <2> QED BY <1>6, <2>2, <2>4, <2>6
<1>9. CASE Wd = {}
  <2>1. Wc = {}
    BY <1>8, <1>9
  <2> HIDE DEF Wd, Wc
  <2> QED BY <1>3, <1>5, <1>9, <2>1 DEF Content, q
<1>10. CASE Wd # {}
  <2> DEFINE p == Max(Wd)
  <2>1. p \in Wd /\ \A u \in Wd : u <= p
    <3>0. 0 \in Int /\ k - 1 \in Int
      BY <1>1
    <3>a. IsFiniteSet(0..k-1)
      BY ONLY <3>0, FS_Interval
    <3>1. Wd \in SUBSET (0..k-1)
      BY <1>1, <1>5
    <3>2. Wd \in SUBSET Int /\ IsFiniteSet(Wd)
      BY <3>1, <3>a, FS_Subset
    <3> HIDE DEF Wd
    <3> QED BY <1>10, <3>2, MaxExists
  <2>2. p \in Nat /\ p \in 1..n-1
    BY <1>1, <1>5, <2>1
  <2> HIDE DEF p
  <2>3. Place(i, p) \in Wc /\ Place(i, p) \in Nat
    BY <1>4, <1>7, <2>1, <2>2
  <2>4. ASSUME NEW u \in Wc PROVE u <= Place(i, p)
    <3>1. PICK j \in Wd : Place(i, j) = u
      BY <1>8
    <3>2. j \in Nat /\ j <= p
      BY <1>5, <2>1
    <3>3. ~(Place(i, p) < Place(i, j)) /\ Place(i, j) \in Nat
      BY <1>4, <2>2, <3>2
    <3> QED BY <2>3, <3>1, <3>3
  <2>5. Wc \in SUBSET Int
    BY <1>1, <1>4, <1>5
  <2>6. Max(Wc) = Place(i, p)
    <3> HIDE DEF Wc
    <3> QED BY <2>3, <2>4, <2>5, MaxIs
  <2>7. Wc # {}
    BY <2>3
  <2>8. c.opcodes[Place(i, p)] = d.opcodes[p]
    BY <1>1, <2>2
  <2> HIDE DEF Wc, Wd
  <2>9. Content(d, a, b, x, k) = a[d.opcodes[p].value]
    BY <1>3, <1>10 DEF Content, p
  <2>10. Content(c, a, b, x, Place(i, k)) = a[c.opcodes[Place(i, p)].value]
    BY <1>3, <2>6, <2>7 DEF Content
  <2> QED BY <2>8, <2>9, <2>10
<1> QED BY <1>9, <1>10

LEMMA WithoutRuns ==
  ASSUME NEW c, NEW d, NEW i, Without(d, c, i), NEW a, IsRun(d, a), AcirHolds(c.opcodes[i], a)
  PROVE  IsRun(c, a)
<1> DEFINE n == Len(c.opcodes)
<1>1. /\ n \in Nat /\ i \in 1..n /\ i \in Nat \ {0} /\ DOMAIN c.opcodes = 1..n /\ DOMAIN d.opcodes = 1..n-1
      /\ \A j \in 1..n-1 : d.opcodes[j] = c.opcodes[Place(i, j)]
      /\ ~IsAccess(c.opcodes[i])
  BY DEF Without, IsAccess
<1>2. /\ \A j \in Nat : Place(i, j) \in Nat /\ Place(i, j) # i /\ (Place(i, j) = 0 <=> j = 0)
      /\ \A l \in Nat : l # i => \E j \in Nat : Place(i, j) = l
  BY <1>1, PlaceFacts
<1>3. ASSUME NEW l \in 1..n PROVE Fulfilled(c, a, l)
  <2>1. CASE l = i
    BY <1>1, <2>1 DEF Fulfilled
  <2>2. CASE l # i
    <3>1. PICK k \in Nat : Place(i, k) = l
      BY <1>1, <1>2, <2>2
    <3>2. k \in 1..n-1
      BY <1>1, <3>1 DEF Place
    <3>3. d.opcodes[k] = c.opcodes[l] /\ Fulfilled(d, a, k)
      BY <1>1, <3>1, <3>2, RunIsFulfilled
    <3> DEFINE o == c.opcodes[l]
    <3>4. CASE ~IsAccess(o)
      BY <3>3, <3>4 DEF Fulfilled
    <3>5. CASE IsAccess(o)
      <4> DEFINE q == InitBefore(d, o.block, k)
      <4>1. /\ InitOf(d, k) = q /\ LastValue(d, a, k) = Content(d, a, o.block, a[o.index], k)
            /\ InitOf(c, l) = InitBefore(c, o.block, l) /\ LastValue(c, a, l) = Content(c, a, o.block, a[o.index], l)
        BY <3>3, ContentIsLastValue
      <4>2. /\ q # 0 /\ a[o.index] < Len(d.opcodes[q].init)
            /\ o.type = "Read" => a[o.value] = Content(d, a, o.block, a[o.index], k)
        BY <3>3, <3>5, <4>1 DEF Fulfilled
      <4>3. InitBefore(c, o.block, l) = Place(i, q) /\ q \in 0..k-1
        <5>1. k \in Nat \ {0}
          BY <3>2
        <5> QED BY <3>1, <3>2, <5>1, WithoutInit, InitBeforeType
      <4>4. Content(c, a, o.block, a[o.index], l) = Content(d, a, o.block, a[o.index], k)
        BY <3>1, <3>2, <4>2, WithoutContent
      <4> HIDE DEF q
      <4>5. c.opcodes[Place(i, q)] = d.opcodes[q] /\ Place(i, q) # 0
        <5>1. q \in Nat /\ q \in 1..n-1
          BY <1>1, <3>2, <4>2, <4>3
        <5> QED BY <1>1, <1>2, <4>2, <5>1
      <4> QED BY <3>5, <4>1, <4>2, <4>3, <4>4, <4>5 DEF Fulfilled
    <3> QED BY <3>4, <3>5
  <2> QED BY <2>1, <2>2
<1> QED BY <1>1, <1>3, RunIsFulfilled

(* With the opcode, no more is assigned before the others than without it, where
   what it defines was assigned before or is an input now.                      *)
LEMMA WithoutAssigned ==
  ASSUME NEW c, NEW d, NEW i, Without(d, c, i), c.inputs \subseteq d.inputs,
         Defines(c.opcodes[i]) \subseteq d.inputs \cup AssignedBefore(c, i), NEW k \in 1..Len(c.opcodes)
  PROVE  AssignedBefore(c, Place(i, k)) \subseteq AssignedBefore(d, k)
<1>1. /\ Len(c.opcodes) \in Nat /\ i \in Nat \ {0} /\ i \in Nat /\ k \in Nat /\ k \in Nat \ {0}
      /\ \A j \in 1..Len(c.opcodes)-1 : d.opcodes[j] = c.opcodes[Place(i, j)]
  BY DEF Without
<1>2. /\ \A j \in Nat : Place(i, j) \in Nat /\ Place(i, j) # i /\ (Place(i, j) = 0 <=> j = 0)
      /\ \A j, l \in Nat : j < l <=> Place(i, j) < Place(i, l)
      /\ \A l \in Nat : l # i => \E j \in Nat : Place(i, j) = l
  BY <1>1, PlaceFacts
<1>3. ASSUME NEW j \in 1..Place(i, k)-1, j # i PROVE Defines(c.opcodes[j]) \subseteq AssignedBefore(d, k)
  <2>1. Place(i, k) \in Nat /\ j \in Nat /\ j # 0 /\ j < Place(i, k)
    BY <1>1, <1>2
  <2>2. PICK l \in Nat : Place(i, l) = j
    BY <1>2, <1>3, <2>1
  <2>3. l < k /\ l # 0
    BY <1>1, <1>2, <2>1, <2>2
  <2>4. l \in 1..k-1 /\ l \in 1..Len(c.opcodes)-1
    BY <1>1, <2>3
  <2>5. d.opcodes[l] = c.opcodes[j]
    BY <1>1, <2>2, <2>4
  <2> QED BY <2>4, <2>5 DEF AssignedBefore
<1>4. ASSUME i \in 1..Place(i, k)-1 PROVE Defines(c.opcodes[i]) \subseteq AssignedBefore(d, k)
  <2>1. \A j \in 1..i-1 : j \in 1..Place(i, k)-1 /\ j # i
    BY <1>1, <1>2, <1>4
  <2>2. \A j \in 1..i-1 : Defines(c.opcodes[j]) \subseteq AssignedBefore(d, k)
    BY <1>3, <2>1
  <2>3. AssignedBefore(c, i) \subseteq AssignedBefore(d, k)
    <3>1. d.inputs \subseteq AssignedBefore(d, k)
      BY DEF AssignedBefore
    <3> QED BY <2>2, <3>1 DEF AssignedBefore
  <2> QED BY <2>3 DEF AssignedBefore
<1>5. \A j \in 1..Place(i, k)-1 : Defines(c.opcodes[j]) \subseteq AssignedBefore(d, k)
  BY <1>3, <1>4
<1>6. c.inputs \subseteq AssignedBefore(d, k)
  BY DEF AssignedBefore
<1> QED BY <1>5, <1>6 DEF AssignedBefore

LEMMA DefinesFewer ==
  ASSUME NEW o, NEW new, DefinesOne(o, new), NEW fewer \in SUBSET new
  PROVE  DefinesOne(o, fewer)
<1>1. CASE fewer = {}
  BY <1>1 DEF DefinesOne
<1>2. CASE fewer # {}
  <2>1. ASSUME o.type = "AssertZero" PROVE fewer = new
    BY <1>2, <2>1 DEF DefinesOne
  <2>2. o.type # "RANGE"
    BY <1>2 DEF DefinesOne
  <2> QED BY <2>1, <2>2 DEF DefinesOne
<1> QED BY <1>1, <1>2

LEMMA WithoutDefinite ==
  ASSUME NEW c, NEW d, NEW i, Without(d, c, i), c.inputs \subseteq d.inputs,
         Defines(c.opcodes[i]) \subseteq d.inputs \cup AssignedBefore(c, i), Definite(c)
  PROVE  /\ Definite(d)
         /\ AssignedBefore(c, Len(c.opcodes) + 1) \subseteq AssignedBefore(d, Len(c.opcodes))
<1>1. /\ Len(c.opcodes) \in Nat /\ i \in 1..Len(c.opcodes) /\ DOMAIN c.opcodes = 1..Len(c.opcodes)
      /\ DOMAIN d.opcodes = 1..Len(c.opcodes)-1
      /\ \A j \in 1..Len(c.opcodes)-1 : d.opcodes[j] = c.opcodes[Place(i, j)]
  BY DEF Without
<1>2. ASSUME NEW k \in 1..Len(c.opcodes)-1 PROVE DefinesOne(d.opcodes[k], d.opcodes[k].wires \ AssignedBefore(d, k))
  <2>1. k \in 1..Len(c.opcodes) /\ Place(i, k) \in 1..Len(c.opcodes)
    BY <1>1 DEF Place
  <2>2. AssignedBefore(c, Place(i, k)) \subseteq AssignedBefore(d, k)
    BY <2>1, WithoutAssigned
  <2> DEFINE o == c.opcodes[Place(i, k)]
  <2>3. d.opcodes[k] = o
    BY <1>1
  <2>4. DefinesOne(o, o.wires \ AssignedBefore(c, Place(i, k)))
    BY <1>1, <2>1 DEF Definite
  <2> HIDE DEF o
  <2>5. o.wires \ AssignedBefore(d, k) \subseteq o.wires \ AssignedBefore(c, Place(i, k))
    BY <2>2
  <2> QED BY <2>3, <2>4, <2>5, DefinesFewer
<1>3. Definite(d)
  BY <1>1, <1>2 DEF Definite
<1>4. Place(i, Len(c.opcodes)) = Len(c.opcodes) + 1 /\ Len(c.opcodes) \in 1..Len(c.opcodes)
  BY <1>1 DEF Place
<1>5. AssignedBefore(c, Place(i, Len(c.opcodes))) \subseteq AssignedBefore(d, Len(c.opcodes))
  BY <1>4, WithoutAssigned
<1> QED BY <1>3, <1>4, <1>5

LEMMA DropIsWithout ==
  ASSUME NEW c, Runnable(c), NEW i \in 1..Len(c.opcodes), c.opcodes[i].type \notin {"MemoryInit", "Read", "Write"}
  PROVE  Without(Drop(c, i), c, i)
<1> DEFINE n == Len(c.opcodes)
           d == Drop(c, i)
<1>1. n \in Nat /\ DOMAIN c.opcodes = 1..n
  BY CircuitFacts DEF Runnable
<1>2. /\ Len(d.opcodes) = n - 1
      /\ \A k \in 1..i-1 : d.opcodes[k] = c.opcodes[k]
      /\ \A k \in i+1..n : d.opcodes[k-1] = c.opcodes[k]
      /\ Runnable(d)
  BY DropFacts
<1>3. DOMAIN d.opcodes = 1..n-1
  BY <1>2, CircuitFacts DEF Runnable
<1> HIDE DEF d
<1>4. ASSUME NEW j \in 1..n-1 PROVE d.opcodes[j] = c.opcodes[Place(i, j)]
  <2>1. CASE j < i
    BY <1>1, <1>2, <2>1 DEF Place
  <2>2. CASE ~(j < i)
    <3>1. j + 1 \in i+1..n /\ (j + 1) - 1 = j /\ Place(i, j) = j + 1
      BY <1>1, <2>2 DEF Place
    <3>2. d.opcodes[(j + 1) - 1] = c.opcodes[j + 1]
      BY <1>2, <3>1
    <3> QED BY <3>1, <3>2
  <2> QED BY <2>1, <2>2
<1> QED BY <1>1, <1>3, <1>4 DEF Without, d

(* What the labeller knows of a mutant m of c, made at opcode i. *)
MutantOf(m, c, i) ==
  /\ Runnable(m) /\ Definite(m) /\ HintsAreFresh(m)
  /\ m.wires = c.wires /\ m.inputs = c.inputs /\ m.returns = c.returns
  /\ c.opcodes[i].type \in {"AssertZero", "RANGE"} /\ c.opcodes[i].wires \subseteq c.wires
  /\ c.opcodes[i].wires \subseteq AssignedBefore(m, Len(m.opcodes) + 1)
  /\ \A a : IsRun(m, a) /\ AcirHolds(c.opcodes[i], a) => IsRun(c, a)

(* A check mentions what was assigned before it, and defines nothing new. *)
LEMMA CheckFacts ==
  ASSUME NEW c, Runnable(c), Definite(c), NEW i \in PureChecks(c) \cup Ranges(c)
  PROVE  /\ i \in 1..Len(c.opcodes) /\ Len(c.opcodes) \in Nat /\ DOMAIN c.opcodes = 1..Len(c.opcodes)
         /\ c.opcodes[i].type \in {"AssertZero", "RANGE"} /\ c.opcodes[i].wires \subseteq c.wires
         /\ c.opcodes[i].wires \subseteq AssignedBefore(c, i)
         /\ Defines(c.opcodes[i]) \subseteq AssignedBefore(c, i)
<1> DEFINE o == c.opcodes[i]
<1>1. /\ i \in 1..Len(c.opcodes) /\ Len(c.opcodes) \in Nat /\ DOMAIN c.opcodes = 1..Len(c.opcodes)
      /\ o.type \in {"AssertZero", "RANGE"} /\ o.wires \subseteq c.wires
  BY CircuitFacts DEF Runnable, PureChecks, Ranges, Expressions
<1>2. o.wires \subseteq AssignedBefore(c, i)
  <2>1. CASE i \in PureChecks(c)
    BY <2>1 DEF PureChecks
  <2>2. CASE i \in Ranges(c)
    BY <1>1, <2>2 DEF Ranges, Definite, DefinesOne
  <2> QED BY <2>1, <2>2
<1>3. Defines(o) \subseteq o.wires
  BY <1>1 DEF Defines, IsEvaluated
<1> QED BY <1>1, <1>2, <1>3

LEMMA AssignedGrows ==
  ASSUME NEW c, NEW k \in Nat, NEW l \in Nat, k <= l
  PROVE  AssignedBefore(c, k) \subseteq AssignedBefore(c, l)
<1>1. 1..k-1 \subseteq 1..l-1
  OBVIOUS
<1> QED BY <1>1 DEF AssignedBefore

LEMMA DropMutant ==
  ASSUME NEW c, Runnable(c), Definite(c), HintsAreFresh(c), NEW i \in PureChecks(c) \cup Ranges(c)
  PROVE  MutantOf(Drop(c, i), c, i)
<1> DEFINE m == Drop(c, i)
           n == Len(c.opcodes)
<1>1. /\ i \in 1..n /\ n \in Nat /\ DOMAIN c.opcodes = 1..n
      /\ c.opcodes[i].type \in {"AssertZero", "RANGE"} /\ c.opcodes[i].wires \subseteq c.wires
      /\ c.opcodes[i].wires \subseteq AssignedBefore(c, i)
      /\ Defines(c.opcodes[i]) \subseteq AssignedBefore(c, i)
  BY CheckFacts
<1>2. m.wires = c.wires /\ m.inputs = c.inputs /\ m.returns = c.returns /\ Runnable(m) /\ Len(m.opcodes) = n - 1
  BY <1>1, DropFacts
<1>3. Without(m, c, i)
  BY <1>1, DropIsWithout
<1> HIDE DEF m
<1>4. Definite(m) /\ AssignedBefore(c, n + 1) \subseteq AssignedBefore(m, n)
  BY <1>1, <1>2, <1>3, WithoutDefinite
<1>5. c.opcodes[i].wires \subseteq AssignedBefore(m, Len(m.opcodes) + 1)
  <2>1. AssignedBefore(c, i) \subseteq AssignedBefore(c, n + 1)
    <3>1. i \in Nat /\ n + 1 \in Nat /\ i <= n + 1
      BY <1>1
    <3> QED BY <3>1, AssignedGrows
  <2>2. Len(m.opcodes) + 1 = n
    BY <1>1, <1>2
  <2> QED BY <1>1, <1>4, <2>1, <2>2
<1>6. \A a : IsRun(m, a) /\ AcirHolds(c.opcodes[i], a) => IsRun(c, a)
  BY <1>3, WithoutRuns
<1>7. HintsAreFresh(m)
  <2>1. /\ DOMAIN m.opcodes = 1..n-1 /\ \A j \in 1..n-1 : m.opcodes[j] = c.opcodes[Place(i, j)]
    BY <1>3 DEF Without
  <2>2. \A j \in 1..n-1 : Place(i, j) \in 1..n
    BY <1>1 DEF Place
  <2>3. \A j \in 1..n-1 : \A k \in 1..j-1 : k \in 1..n-1 /\ Place(i, k) \in 1..Place(i, j)-1
    BY <1>1 DEF Place
  <2> SUFFICES ASSUME NEW j \in 1..n-1, m.opcodes[j].type = "BrilligCall"
               PROVE  /\ ToSet(m.opcodes[j].answers) \cap m.inputs = {}
                      /\ \A k \in 1..j-1 : ToSet(m.opcodes[j].answers) \cap m.opcodes[k].wires = {}
    BY <2>1 DEF HintsAreFresh
  <2> DEFINE o == m.opcodes[j]
  <2>4. o = c.opcodes[Place(i, j)] /\ Place(i, j) \in DOMAIN c.opcodes
    BY <1>1, <2>1, <2>2
  <2>5. /\ ToSet(o.answers) \cap c.inputs = {}
        /\ \A k \in 1..Place(i, j)-1 : ToSet(o.answers) \cap c.opcodes[k].wires = {}
    BY <2>4 DEF HintsAreFresh
  <2> QED BY <1>2, <2>1, <2>3, <2>5
<1> QED BY <1>1, <1>2, <1>4, <1>5, <1>6, <1>7 DEF MutantOf, m

LEMMA WidenMutant ==
  ASSUME NEW c, Runnable(c), Definite(c), HintsAreFresh(c), NEW i \in Ranges(c), c.opcodes[i].bits < FieldBits - 1
  PROVE  MutantOf(Widen(c, i), c, i)
<1> DEFINE m == Widen(c, i)
           n == Len(c.opcodes)
<1>1. /\ i \in 1..n /\ n \in Nat /\ DOMAIN c.opcodes = 1..n
      /\ c.opcodes[i].type \in {"AssertZero", "RANGE"} /\ c.opcodes[i].wires \subseteq c.wires
      /\ c.opcodes[i].wires \subseteq AssignedBefore(c, i)
      /\ c.opcodes[i].type = "RANGE" /\ WellFormedOpcode(c.opcodes[i])
  BY CheckFacts, CircuitFacts DEF Ranges, Runnable
<1>2. /\ m.wires = c.wires /\ m.inputs = c.inputs /\ m.returns = c.returns /\ Runnable(m) /\ Len(m.opcodes) = n
      /\ m.opcodes[i] = Wider(c.opcodes[i])
      /\ \A k \in 1..n : k # i => m.opcodes[k] = c.opcodes[k]
  BY WidenFacts
<1>3. DOMAIN m.opcodes = 1..n
  BY <1>2, CircuitFacts DEF Runnable
<1>4. m.opcodes[i].type = "RANGE" /\ m.opcodes[i].wires = c.opcodes[i].wires
  BY <1>1, <1>2, WiderFacts
<1> HIDE DEF m
<1>5. \A k \in 1..n : Defines(m.opcodes[k]) = Defines(c.opcodes[k]) /\ m.opcodes[k].wires = c.opcodes[k].wires
  <2>1. Defines(m.opcodes[i]) = {} /\ Defines(c.opcodes[i]) = {}
    BY <1>1, <1>4 DEF Defines, IsEvaluated
  <2> QED BY <1>1, <1>2, <1>4, <2>1
<1>6. \A k \in 1..n+1 : AssignedBefore(m, k) = AssignedBefore(c, k)
  <2> SUFFICES ASSUME NEW k \in 1..n+1 PROVE AssignedBefore(m, k) = AssignedBefore(c, k)
    OBVIOUS
  <2>1. \A j \in 1..k-1 : j \in 1..n
    BY <1>1
  <2>2. {Defines(m.opcodes[j]) : j \in 1..k-1} = {Defines(c.opcodes[j]) : j \in 1..k-1}
    BY <1>5, <2>1
  <2> QED BY <1>2, <2>2 DEF AssignedBefore
<1>7. Definite(m)
  <2> SUFFICES ASSUME NEW k \in 1..n PROVE DefinesOne(m.opcodes[k], m.opcodes[k].wires \ AssignedBefore(m, k))
    BY <1>3 DEF Definite
  <2>1. DefinesOne(c.opcodes[k], c.opcodes[k].wires \ AssignedBefore(c, k))
    BY <1>1 DEF Definite
  <2>2. AssignedBefore(m, k) = AssignedBefore(c, k)
    BY <1>1, <1>6
  <2>3. CASE k = i
    BY <1>1, <1>4, <2>1, <2>2, <2>3 DEF DefinesOne
  <2>4. CASE k # i
    BY <1>2, <2>1, <2>2, <2>4
  <2> QED BY <2>3, <2>4
<1>8. HintsAreFresh(m)
  <2> SUFFICES ASSUME NEW j \in 1..n, m.opcodes[j].type = "BrilligCall"
               PROVE  /\ ToSet(m.opcodes[j].answers) \cap m.inputs = {}
                      /\ \A k \in 1..j-1 : ToSet(m.opcodes[j].answers) \cap m.opcodes[k].wires = {}
    BY <1>3 DEF HintsAreFresh
  <2>1. m.opcodes[j] = c.opcodes[j]
    BY <1>2, <1>4
  <2>2. \A k \in 1..j-1 : k \in 1..n
    BY <1>1
  <2> QED BY <1>1, <1>2, <1>5, <2>1, <2>2 DEF HintsAreFresh
<1>9. ASSUME NEW a, IsRun(m, a), AcirHolds(c.opcodes[i], a) PROVE IsRun(c, a)
  <2>1. ASSUME NEW b, NEW k \in 1..n PROVE InitBefore(m, b, k) = InitBefore(c, b, k)
    <3>1. \A j \in 1..k-1 : j \in 1..n
      BY <1>1
    <3>2. {j \in 1..k-1 : m.opcodes[j].type = "MemoryInit" /\ m.opcodes[j].block = b}
            = {j \in 1..k-1 : c.opcodes[j].type = "MemoryInit" /\ c.opcodes[j].block = b}
      BY <1>1, <1>2, <1>4, <3>1
    <3> QED BY <3>2 DEF InitBefore
  <2>2. ASSUME NEW b, NEW k \in 1..n, InitBefore(m, b, k) # 0 
        PROVE  m.opcodes[InitBefore(m, b, k)] = c.opcodes[InitBefore(m, b, k)]
    <3>1. InitBefore(m, b, k) \in {j \in 1..k-1 : m.opcodes[j].type = "MemoryInit" /\ m.opcodes[j].block = b}
      <4> DEFINE S == {0} \cup {j \in 1..k-1 : m.opcodes[j].type = "MemoryInit" /\ m.opcodes[j].block = b}
      <4>0. 0 \in Int /\ n \in Int
        BY <1>1
      <4>1. IsFiniteSet(0..n)
        BY ONLY <4>0, FS_Interval
      <4>2. S \in SUBSET (0..n) /\ S # {}
        BY <1>1
      <4>3. S \in SUBSET Int /\ IsFiniteSet(S)
        BY <4>1, <4>2, FS_Subset
      <4> HIDE DEF S
      <4>4. Max(S) \in S
        BY <4>2, <4>3, MaxExists
      <4> QED BY <2>2, <4>4 DEF S, InitBefore
    <3> QED BY <1>1, <1>2, <1>4, <3>1
  <2>3. ASSUME NEW b, NEW k \in 1..n, InitBefore(m, b, k) # 0, NEW x
        PROVE  Content(m, a, b, x, k) = Content(c, a, b, x, k)
    <3>1. InitBefore(m, b, k) = InitBefore(c, b, k) /\ m.opcodes[InitBefore(m, b, k)] = c.opcodes[InitBefore(m, b, k)]
      BY <2>1, <2>2, <2>3
    <3>2. InitBefore(m, b, k) \in Nat
      BY InitBeforeType
    <3> DEFINE q == InitBefore(m, b, k)
    <3> HIDE DEF q
    <3>3. \A j \in q+1..k-1 : j \in 1..n
      BY <1>1, <3>2 DEF q
    <3>4. {j \in q+1..k-1 : m.opcodes[j].type = "Write" /\ m.opcodes[j].block = b /\ a[m.opcodes[j].index] = x}
            = {j \in q+1..k-1 : c.opcodes[j].type = "Write" /\ c.opcodes[j].block = b /\ a[c.opcodes[j].index] = x}
      BY <1>1, <1>2, <1>4, <3>3
    <3>5. Writes(m, a, b, x, k) = Writes(c, a, b, x, k)
      BY <3>1, <3>4 DEF Writes, q
    <3>6. ASSUME Writes(m, a, b, x, k) # {}
          PROVE m.opcodes[Max(Writes(m, a, b, x, k))] = c.opcodes[Max(Writes(m, a, b, x, k))]
      <4> DEFINE S == Writes(m, a, b, x, k)
      <4>0. 0 \in Int /\ n \in Int
        BY <1>1
      <4>1. IsFiniteSet(0..n)
        BY ONLY <4>0, FS_Interval
      <4>2. S \in SUBSET (0..n) /\ \A j \in S : m.opcodes[j].type = "Write" /\ j \in 1..n
        BY <3>2, <3>3 DEF Writes, q
      <4>3. S \in SUBSET Int /\ IsFiniteSet(S)
        BY <4>1, <4>2, FS_Subset
      <4> HIDE DEF S
      <4>4. Max(S) \in S
        BY <3>6, <4>3, MaxExists DEF S
      <4> QED BY <1>2, <1>4, <4>2, <4>4 DEF S
    <3> QED BY <3>1, <3>5, <3>6 DEF Content
  <2>4. ASSUME NEW k \in 1..n PROVE Fulfilled(c, a, k)
    <3>1. Fulfilled(m, a, k)
      BY <1>3, <1>9, RunIsFulfilled
    <3> DEFINE o == c.opcodes[k]
    <3>2. CASE k = i
      BY <1>1, <1>9, <3>2 DEF Fulfilled, IsAccess
    <3>3. CASE k # i /\ ~IsAccess(o)
      <4>1. m.opcodes[k] = o
        BY <1>2, <3>3
      <4> QED BY <3>1, <3>3, <4>1 DEF Fulfilled
    <3>4. CASE k # i /\ IsAccess(o)
      <4> DEFINE q == InitBefore(m, o.block, k)
      <4>1. m.opcodes[k] = o
        BY <1>2, <3>4
      <4>2. /\ InitOf(m, k) = q /\ LastValue(m, a, k) = Content(m, a, o.block, a[o.index], k)
            /\ InitOf(c, k) = InitBefore(c, o.block, k) /\ LastValue(c, a, k) = Content(c, a, o.block, a[o.index], k)
        BY <4>1, ContentIsLastValue
      <4>3. /\ q # 0 /\ a[o.index] < Len(m.opcodes[q].init)
            /\ o.type = "Read" => a[o.value] = Content(m, a, o.block, a[o.index], k)
        BY <3>1, <3>4, <4>1, <4>2 DEF Fulfilled
      <4>4. InitBefore(c, o.block, k) = q /\ m.opcodes[q] = c.opcodes[q]
        BY <2>1, <2>2, <4>3
      <4>5. Content(m, a, o.block, a[o.index], k) = Content(c, a, o.block, a[o.index], k)
        BY <2>3, <4>3
      <4> HIDE DEF q
      <4> QED BY <3>4, <4>2, <4>3, <4>4, <4>5 DEF Fulfilled
    <3> QED BY <3>2, <3>3, <3>4
  <2> QED BY <1>1, <2>4, RunIsFulfilled
<1>10. c.opcodes[i].wires \subseteq AssignedBefore(m, Len(m.opcodes) + 1)
  <2>1. i \in Nat /\ n + 1 \in Nat /\ i <= n + 1 /\ n + 1 \in 1..n+1
    BY <1>1
  <2>2. AssignedBefore(c, i) \subseteq AssignedBefore(c, n + 1)
    BY <2>1, AssignedGrows
  <2> QED BY <1>1, <1>2, <1>6, <2>1, <2>2
<1> QED BY <1>1, <1>2, <1>7, <1>8, <1>9, <1>10 DEF MutantOf, m

LEMMA MutantFacts ==
  ASSUME NEW c, Runnable(c), Definite(c), HintsAreFresh(c), NEW i \in DOMAIN c.opcodes, NEW m \in MutantsAt(c, i)
  PROVE  MutantOf(m, c, i)
<1>1. CASE m = Drop(c, i) /\ i \in PureChecks(c) \cup Ranges(c)
  BY <1>1, DropMutant
<1>2. CASE m = Widen(c, i) /\ i \in Ranges(c) /\ c.opcodes[i].bits < FieldBits - 1
  BY <1>2, WidenMutant
<1> QED BY <1>1, <1>2 DEF MutantsAt

-----------------------------------------------------------------------------
(* What the labeller compares: executions that got through a circuit. *)

GoodRun(m, ins, f) ==
  /\ Valued(f) /\ DOMAIN f \subseteq m.wires /\ Extends(f, ins)
  /\ AssignedBefore(m, Len(m.opcodes) + 1) \subseteq DOMAIN f
  /\ \A a \in [m.wires -> Field] : Extends(a, f) => IsRun(m, a)

LEMMA ExecuteGood ==
  ASSUME NEW m, Runnable(m), Definite(m), NEW ins \in [m.inputs -> Field], ~Execute(m, ins).failed
  PROVE  GoodRun(m, ins, Execute(m, ins).values)
<1> DEFINE n == Len(m.opcodes)
           t == Execute(m, ins)
           s == Fresh(ins)
<1>1. /\ n \in Nat /\ n >= 1 - 1 /\ n <= n /\ 1 \in Nat \ {0} /\ WellFormedCircuit(m)
  BY CircuitFacts DEF Runnable
<1>2. /\ StateOK(m, t) /\ Extends(t.values, ins)
      /\ \A a \in [m.wires -> Field] : Extends(a, t.values) => IsRun(m, a)
  BY ExecuteFacts
<1>3. StateOK(m, s) /\ s.values = ins
  BY <1>1, FreshOK
<1>4. t = RunOn(m, s, 1, n)
  BY DEF Execute
<1>5. AssignedBefore(m, 1) \subseteq DOMAIN s.values
  <2>1. 1..1-1 = {}
    OBVIOUS
  <2> QED BY <1>3, <2>1 DEF AssignedBefore
<1>6. ~t.failed
  OBVIOUS
<1> HIDE DEF t, s
<1>7. AssignedBefore(m, n + 1) \subseteq DOMAIN t.values
  BY <1>1, <1>3, <1>4, <1>5, <1>6, RunFills
<1> QED BY <1>2, <1>7 DEF GoodRun, StateOK, t

LEMMA OverrideGood ==
  ASSUME NEW m, Runnable(m), Definite(m), HintsAreFresh(m), NEW ins \in [m.inputs -> Field],
         NEW h, Producers(m, h) # {}, NEW v \in Field, NEW t, t = ExecuteWithOverride(m, ins, h, v), ~t.failed
  PROVE  GoodRun(m, ins, t.values)
<1> DEFINE n == Len(m.opcodes)
           i == Min(Producers(m, h))
           s == Fresh(ins)
           before == RunOn(m, s, 1, i)
           after == Assign(before, h, v)
           u == RunOn(m, after, i + 1, n)
<1>1. /\ n \in Nat /\ WellFormedCircuit(m) /\ i \in 1..n
      /\ i \in Nat /\ i >= 1 - 1 /\ i <= n /\ 1 \in Nat \ {0} /\ i + 1 \in Nat \ {0} /\ n >= (i + 1) - 1 /\ n <= n
  BY CircuitFacts, FirstProducer DEF Runnable
<1>2. /\ StateOK(m, t) /\ Extends(t.values, ins) /\ h \in m.wires
      /\ \A a \in [m.wires -> Field] : Extends(a, t.values) => IsRun(m, a)
  BY OverrideFacts
<1>3. t = IF before.failed THEN before ELSE u
  BY DEF ExecuteWithOverride, Assign
<1>4. StateOK(m, s) /\ s.values = ins
  BY <1>1, FreshOK
<1>5. AssignedBefore(m, 1) \subseteq DOMAIN s.values
  <2>1. 1..1-1 = {}
    OBVIOUS
  <2> QED BY <1>4, <2>1 DEF AssignedBefore
<1> HIDE DEF n, i, s
<1>6. StateOK(m, before)
  BY <1>1, <1>4, RunFacts DEF Later, n
<1>7. ~before.failed => AssignedBefore(m, i + 1) \subseteq DOMAIN before.values
  BY <1>1, <1>4, <1>5, RunFills DEF n
<1> HIDE DEF before
<1>8. StateOK(m, after) /\ after.failed = before.failed /\ DOMAIN after.values = DOMAIN before.values \cup {h}
  BY <1>2, <1>6, AssignFacts
<1> HIDE DEF after
<1>9. t = u /\ ~u.failed /\ ~before.failed
  BY <1>3
<1>10. AssignedBefore(m, i + 1) \subseteq DOMAIN after.values
  BY <1>7, <1>8, <1>9
<1>11. AssignedBefore(m, n + 1) \subseteq DOMAIN u.values
  BY <1>1, <1>8, <1>9, <1>10, RunFills DEF n
<1> QED BY <1>2, <1>9, <1>11 DEF GoodRun, StateOK, n

(* Without the call p, but given its answers, a run is a run with the call: that
   these are what its code returns is nothing a circuit checks.               *)
LEMMA SuppliedGood ==
  ASSUME NEW m, Runnable(m), Definite(m), HintsAreFresh(m), NEW ins \in [m.inputs -> Field],
         NEW p \in 1..Len(m.opcodes), m.opcodes[p].type = "BrilligCall",
         NEW g \in [ToSet(m.opcodes[p].answers) -> Field],
         NEW t, t = Execute(Drop(m, p), Overlay(g, ins)), ~t.failed
  PROVE  GoodRun(m, ins, t.values)
<1> DEFINE n == Len(m.opcodes)
           d == Drop(m, p)
           o == m.opcodes[p]
           A == ToSet(o.answers)
           e == [wires |-> m.wires, inputs |-> m.inputs \cup A, hints |-> {}, returns |-> m.returns, opcodes |-> d.opcodes]
           ins2 == Overlay(g, ins)
<1>1. /\ n \in Nat /\ DOMAIN m.opcodes = 1..n /\ WellFormedCircuit(m)
      /\ m.inputs \subseteq m.wires /\ m.returns \subseteq m.wires /\ m.wires \subseteq Nat /\ IsFiniteSet(m.wires)
  BY CircuitFacts DEF Runnable
<1>2. d.wires = m.wires /\ Len(d.opcodes) = n - 1 /\ Runnable(d) /\ Without(d, m, p)
  BY DropFacts, DropIsWithout
<1>3. o.wires = {} /\ o.accepts = {<< >>} /\ A \subseteq m.wires /\ A \cap m.inputs = {}
  <2>1. ExecutableOpcode(m.wires, o)
    BY <1>1 DEF Runnable, Executable
  <2>2. o.answers \in Seq(m.wires) /\ o.wires = {} /\ o.accepts = {<< >>}
    BY <2>1 DEF ExecutableOpcode
  <2>3. A \cap m.inputs = {}
    BY <1>1 DEF HintsAreFresh
  <2>4. A \subseteq m.wires
    BY <2>2 DEF ToSet
  <2> QED BY <2>2, <2>3, <2>4
<1> HIDE DEF A, d
<1>4. Runnable(e) /\ e.inputs = m.inputs \cup A /\ e.wires = m.wires /\ e.opcodes = d.opcodes
  <2>1. /\ {"wires", "inputs", "hints", "returns", "opcodes"} \subseteq DOMAIN e
        /\ e.wires = m.wires /\ e.inputs = m.inputs \cup A /\ e.hints = {} /\ e.returns = m.returns
        /\ e.opcodes = d.opcodes
    OBVIOUS
  <2> HIDE DEF e
  <2>2. /\ d.opcodes \in Seq({d.opcodes[i] : i \in DOMAIN d.opcodes})
        /\ \A i \in DOMAIN d.opcodes : d.opcodes[i].wires \subseteq d.wires /\ WellFormedOpcode(d.opcodes[i])
    BY <1>2 DEF Runnable, WellFormedCircuit
  <2>3. WellFormedCircuit(e)
    BY <1>1, <1>2, <1>3, <2>1, <2>2 DEF WellFormedCircuit
  <2>4. Executable(e)
    BY <1>2, <2>1 DEF Runnable, Executable
  <2> QED BY <2>1, <2>3, <2>4 DEF Runnable
<1> HIDE DEF e
<1>5. /\ ins2 \in [e.inputs -> Field]
      /\ \A w \in m.inputs : ins2[w] = ins[w] /\ w \in DOMAIN ins2
  <2>1. DOMAIN g = A /\ DOMAIN ins = m.inputs /\ \A w \in A : g[w] \in Field
    BY DEF A
  <2> QED BY <1>3, <1>4, <2>1 DEF Overlay
<1> HIDE DEF ins2
<1>6. Without(e, m, p)
  BY <1>2, <1>4 DEF Without
<1>7. Definite(e) /\ AssignedBefore(m, n + 1) \subseteq AssignedBefore(e, n)
  <2>1. Defines(o) = A
    BY DEF Defines, A, IsEvaluated
  <2>2. Defines(o) \subseteq e.inputs \cup AssignedBefore(m, p)
    BY <1>4, <2>1
  <2>3. m.inputs \subseteq e.inputs
    BY <1>4
  <2> QED BY <1>6, <2>2, <2>3, WithoutDefinite
<1>8. Execute(e, ins2) = t
  <2> DEFINE s == Fresh(ins2)
             k == n - 1
  <2>1. Execute(d, ins2) = t /\ ~t.failed
    BY DEF d, ins2
  <2>2. /\ Execute(d, ins2) = RunOn(d, s, 1, k)
        /\ Execute(e, ins2) = RunOn(e, s, 1, k)
    BY <1>2, <1>4 DEF Execute
  <2>3. StateOK(d, s)
    <3>1. StateOK(e, s)
      BY <1>4, <1>5, FreshOK DEF Runnable
    <3> QED BY <1>2, <1>4, <3>1 DEF StateOK
  <2>4. /\ k \in Nat /\ k >= 1 - 1 /\ k <= Len(d.opcodes) /\ 1 \in Nat \ {0} /\ 0 \in Nat /\ 0 < 1
        /\ 1 - 0 = 1 /\ k - 0 = k
    BY <1>1, <1>2
  <2>5. Shifted(e, d, 1, k, 0)
    <3>1. \A j \in 1..k : j - 0 = j
      BY <2>4
    <3> QED BY <1>4, <3>1 DEF Shifted
  <2> HIDE DEF s, k
  <2>6. RunOn(e, s, 1 - 0, k - 0) = RunOn(d, s, 1, k)
    BY <1>2, <2>1, <2>2, <2>3, <2>4, <2>5, RunSame
  <2> QED BY <2>1, <2>2, <2>4, <2>6
<1>9. GoodRun(e, ins2, t.values)
  BY <1>4, <1>5, <1>7, <1>8, ExecuteGood
<1>10. Extends(t.values, ins)
  BY <1>5, <1>9 DEF GoodRun, Extends
<1>11. AssignedBefore(m, n + 1) \subseteq DOMAIN t.values
  <2>1. Len(e.opcodes) + 1 = n
    BY <1>1, <1>2, <1>4
  <2> QED BY <1>7, <1>9, <2>1 DEF GoodRun
<1>12. ASSUME NEW a \in [m.wires -> Field], Extends(a, t.values) PROVE IsRun(m, a)
  <2>1. IsRun(e, a)
    BY <1>4, <1>9, <1>12 DEF GoodRun
  <2>2. AcirHolds(o, a)
    <3>1. [w \in {} |-> a[w]] = << >>
      OBVIOUS
    <3> QED BY <1>3, <3>1 DEF AcirHolds
  <2> QED BY <1>6, <2>1, <2>2, WithoutRuns
<1> QED BY <1>4, <1>9, <1>10, <1>11, <1>12 DEF GoodRun

(* Whichever way a hint was answered. *)
LEMMA AnsweredGood ==
  ASSUME Runnable(program), Definite(program), HintsAreFresh(program), NEW ins \in [program.inputs -> Field],
         NEW h, Producers(program, h) # {}, NEW v \in Field, NEW t, t = Answered(ins, h, v), ~t.failed
  PROVE  GoodRun(program, ins, t.values)
<1> DEFINE s == ExecuteWithOverride(program, ins, h, v)
           p == Min(Producers(program, h))
           A == ToSet(program.opcodes[p].answers)
           g == [w \in A |-> IF w = h THEN v ELSE 0]
           r == Execute(Drop(program, p), Overlay(g, ins))
<1>1. t = s \/ t = r
  BY DEF Answered
<1>2. p \in 1..Len(program.opcodes) /\ program.opcodes[p].type = "BrilligCall"
  BY FirstProducer DEF Runnable
<1>3. g \in [A -> Field]
  <2>1. 0 \in Field
    BY ParametersAreNatural DEF Field
  <2> QED BY <2>1
<1> HIDE DEF s, g, p, r
<1>4. CASE t = s
  BY <1>4, OverrideGood DEF s
<1>5. CASE t = r
  BY <1>2, <1>3, <1>5, SuppliedGood DEF r
<1> QED BY <1>1, <1>4, <1>5

-----------------------------------------------------------------------------
(* What the labeller tries is of the field, and about the hints of the mutant. *)

LEMMA HintsType ==
  ASSUME Runnable(program)
  PROVE  Hints \in Seq(Hinted(program))
<1> DEFINE T == Hinted(program)
           s == HintWitnesses(program)
           first == {k \in DOMAIN s : s[k] \in Mentioned(Check)}
           second == {k \in DOMAIN s : ~(s[k] \in Mentioned(Check))}
           u == Keep(s, first) \o Keep(s, second)
<1>1. s \in Seq(T)
  BY HintWitnessType
<1>2. Hints = Dedup(u)
  BY DEF Hints, FirstThose
<1> HIDE DEF s, T
<1>3. Keep(s, first) \in Seq(T) /\ Keep(s, second) \in Seq(T)
  BY <1>1, KeepType
<1> HIDE DEF first, second
<1>4. u \in Seq(T)
  BY <1>3
<1> HIDE DEF u
<1> QED BY <1>2, <1>4, DedupType DEF T

LEMMA HintCandidatesType ==
  ASSUME WellFormedOpcode(Check), NEW f, NEW h, f[h] \in Field
  PROVE  HintCandidates(f, h) \in Seq(Field)
<1> DEFINE v == f[h]
           relaxed == Check.type = "RANGE" /\ h \in Mentioned(Check) /\ Check.bits < FieldBits
           near == <<2^Check.bits % P, (2^Check.bits + v) % P>>
           bound == IF relaxed THEN near ELSE << >>
           all == bound \o CandidateValues(v)
<1>1. HintCandidates(f, h) = Other(all, v)
  BY DEF HintCandidates
<1>2. CandidateValues(v) \in Seq(Field)
  BY CandidateType
<1>3. bound \in Seq(Field)
  <2>1. CASE relaxed
    <3> DEFINE x == 2^Check.bits
    <3>1. x \in Nat
      BY <2>1 DEF WellFormedOpcode
    <3>2. v \in Int
      BY FieldFacts
    <3> HIDE DEF x, v
    <3>3. x % P \in Field
      BY <3>1, FieldFacts
    <3>4. (x + v) % P \in Field
      <4>1. x + v \in Int
        BY <3>1, <3>2
      <4> QED BY <4>1, FieldFacts
    <3>5. near \in Seq(Field)
      <4>1. <<x % P, (x + v) % P>> \in Seq(Field)
        BY <3>3, <3>4
      <4> QED BY <4>1 DEF x, v
    <3> QED BY <2>1, <3>5
  <2>2. CASE ~relaxed
    BY <2>2
  <2> QED BY <2>1, <2>2
<1> HIDE DEF bound, v
<1>4. all \in Seq(Field)
  BY <1>2, <1>3
<1> HIDE DEF all
<1> QED BY <1>1, <1>4, OtherType DEF v

(* Every value for every hint, row by row. *)
LEMMA RowsType ==
  ASSUME NEW H, NEW hints \in Seq(H), NEW values, \A h \in H : values[h] \in Seq(Field)
  PROVE  FlattenSeq([k \in DOMAIN hints |-> [j \in DOMAIN values[hints[k]] |-> <<hints[k], values[hints[k]][j]>>]])
           \in Seq(H \X Field)
<1> DEFINE T == H \X Field
           row(h) == [j \in DOMAIN values[h] |-> <<h, values[h][j]>>]
           rows == [k \in DOMAIN hints |-> row(hints[k])]
<1>1. ASSUME NEW h \in H PROVE row(h) \in Seq(T)
  <2> DEFINE s == values[h]
  <2>1. s \in Seq(Field)
    OBVIOUS
  <2> HIDE DEF s
  <2>2. [j \in DOMAIN s |-> <<h, s[j]>>] \in Seq(T)
    <3>1. \A j \in 1..Len(s) : <<h, s[j]>> \in T
      BY <2>1
    <3> HIDE DEF T
    <3> QED BY <2>1, <3>1
  <2> QED BY <2>2 DEF s
<1> HIDE DEF row, T
<1>2. rows \in Seq(Seq(T))
  <2>1. DOMAIN hints = 1..Len(hints) /\ Len(hints) \in Nat /\ \A k \in 1..Len(hints) : row(hints[k]) \in Seq(T)
    BY <1>1
  <2> QED BY <2>1
<1> HIDE DEF rows
<1>3. FlattenSeq(rows) \in Seq(T)
  BY <1>2, FlattenType
<1> QED BY <1>3 DEF rows, row, T

LEMMA PairsAtType ==
  ASSUME Runnable(program), WellFormedOpcode(Check), NEW f, Valued(f)
  PROVE  PairsAt(f) \in Seq(Hinted(program) \X Field)
<1> DEFINE H == Hinted(program) \cap DOMAIN f
           s == Hints
           I == {k \in DOMAIN s : s[k] \in DOMAIN f}
           hints == Keep(s, I)
           values == [h \in H |-> HintCandidates(f, h)]
<1>1. s \in Seq(Hinted(program))
  BY HintsType
<1> HIDE DEF s
<1>2. hints \in Seq(H)
  <2>0. I \in SUBSET DOMAIN s /\ \A i \in I : s[i] \in DOMAIN f
    OBVIOUS
  <2> HIDE DEF I
  <2>1. hints \in Seq(Hinted(program)) /\ \A k \in DOMAIN hints : \E i \in I : hints[k] = s[i]
    BY <1>1, <2>0, KeepType
  <2> HIDE DEF hints
  <2>2. \A k \in 1..Len(hints) : hints[k] \in H
    BY <2>0, <2>1
  <2> HIDE DEF H
  <2> QED BY <2>1, <2>2
<1>3. \A h \in H : values[h] \in Seq(Field)
  BY HintCandidatesType DEF Valued
<1>4. PairsAt(f) = FlattenSeq([k \in DOMAIN hints |-> [j \in DOMAIN values[hints[k]] |-> <<hints[k], values[hints[k]][j]>>]])
  <2> DEFINE vs(h) == HintCandidates(f, h)
  <2>1. PairsAt(f) = FlattenSeq([k \in DOMAIN hints |-> [j \in DOMAIN vs(hints[k]) |-> <<hints[k], vs(hints[k])[j]>>]])
    BY Zenon DEF PairsAt, Pairs, s
  <2> HIDE DEF hints
  <2>2. \A k \in DOMAIN hints : hints[k] \in H
    BY <1>2
  <2>3. \A k \in DOMAIN hints : values[hints[k]] = vs(hints[k])
    BY <2>2
  <2> HIDE DEF vs, values
  <2>4. [k \in DOMAIN hints |-> [j \in DOMAIN vs(hints[k]) |-> <<hints[k], vs(hints[k])[j]>>]]
          = [k \in DOMAIN hints |-> [j \in DOMAIN values[hints[k]] |-> <<hints[k], values[hints[k]][j]>>]]
    BY <2>3
  <2> QED BY <2>1, <2>4
<1> HIDE DEF hints, values
<1>5. PairsAt(f) \in Seq(H \X Field)
  BY <1>2, <1>3, <1>4, RowsType
<1>6. H \X Field \subseteq Hinted(program) \X Field
  OBVIOUS
<1> HIDE DEF H
<1> QED BY <1>5, <1>6, SeqOfMore

LEMMA VariantsType ==
  ASSUME WellFormedCircuit(program), inputs \in [program.inputs -> Field]
  PROVE  Variants \in Seq([program.inputs -> Field])
<1> DEFINE T == [program.inputs -> Field]
           params == Ascending(program.inputs)
           uniform == [k \in 1..2 |-> [w \in program.inputs |-> k - 1]]
           vs(k) == CandidateValues(inputs[params[k]])
           row(k) == [j \in DOMAIN vs(k) |-> [inputs EXCEPT ![params[k]] = vs(k)[j]]]
           rows == [k \in DOMAIN params |-> row(k)]
<1>1. params \in Seq(program.inputs)
  <2>1. program.inputs \in SUBSET Int /\ IsFiniteSet(program.inputs)
    BY CircuitFacts, FS_Subset
  <2> QED BY <2>1, AscendingType
<1> HIDE DEF params
<1>2. uniform \in Seq(T)
  <2>1. 0 \in Field /\ 1 \in Field
    BY ParametersAreNatural DEF Field
  <2>2. \A k \in 1..2 : [w \in program.inputs |-> k - 1] \in T
    BY <2>1
  <2> HIDE DEF T
  <2> QED BY <2>2
<1>3. ASSUME NEW k \in DOMAIN params PROVE row(k) \in Seq(T)
  <2> DEFINE w == params[k]
             s == CandidateValues(inputs[w])
  <2>1. w \in program.inputs
    BY <1>1
  <2> HIDE DEF w
  <2>2. s \in Seq(Field)
    BY <2>1, CandidateType
  <2> HIDE DEF s
  <2>3. \A j \in 1..Len(s) : [inputs EXCEPT ![w] = s[j]] \in T
    BY <2>1, <2>2
  <2> HIDE DEF T
  <2>4. [j \in DOMAIN s |-> [inputs EXCEPT ![w] = s[j]]] \in Seq(T)
    BY <2>2, <2>3
  <2> QED BY <2>4 DEF s, w
<1>4. Variants = uniform \o FlattenSeq(rows)
  BY Zenon DEF Variants, params
<1> HIDE DEF row, T, uniform
<1>5. rows \in Seq(Seq(T))
  <2>1. DOMAIN params = 1..Len(params) /\ Len(params) \in Nat /\ \A k \in 1..Len(params) : row(k) \in Seq(T)
    BY <1>1, <1>3
  <2> QED BY <2>1
<1> HIDE DEF rows
<1>6. FlattenSeq(rows) \in Seq(T)
  BY <1>5, FlattenType
<1>7. Variants \in Seq(T)
  BY <1>2, <1>4, <1>6
<1> QED BY <1>7 DEF T

(* What a variant is compared with is a run of the mutant on it, whether that is
   the honest one or the first that a small answer completes.                  *)
LEMMA FirstAcceptedGood ==
  ASSUME Runnable(program), Definite(program), HintsAreFresh(program), NEW ins \in [program.inputs -> Field],
         NEW base \in FirstAccepted(ins)
  PROVE  GoodRun(program, ins, base)
<1> DEFINE H == Hinted(program)
           s == Hints
           n == Min({HintsFirst, Len(s)})
           hints == SubSeq(s, 1, n)
           values == [h \in H |-> <<0, 1>>]
           pairs == FlattenSeq([k \in DOMAIN hints |-> [j \in DOMAIN values[hints[k]] |-> <<hints[k], values[hints[k]][j]>>]])
           runs == [k \in DOMAIN pairs |-> Answered(ins, pairs[k][1], pairs[k][2])]
           accepted == {k \in DOMAIN runs : ~runs[k].failed}
<1>1. s \in Seq(H)
  BY HintsType
<1> HIDE DEF s
<1>2. n \in 0..Len(s)
  <2> DEFINE len == Len(s)
  <2>1. len \in Nat /\ HintsFirst \in Nat
    BY <1>1, HintsFirstIsNatural
  <2>2. HintsFirst \in Int /\ len \in Int
    BY <2>1
  <2> HIDE DEF len
  <2>3. Min({HintsFirst, len}) \in {HintsFirst, len} /\ Min({HintsFirst, len}) <= len
    BY <2>2, PairExtrema
  <2>4. Min({HintsFirst, len}) \in 0..len
    BY <2>1, <2>3
  <2> QED BY <2>4 DEF len
<1> HIDE DEF n
<1>3. hints \in Seq(H)
  <2> HIDE DEF H
  <2> QED BY <1>1, <1>2
<1>4. \A h \in H : values[h] = <<0, 1>> /\ values[h] \in Seq(Field)
  <2>1. 0 \in Field /\ 1 \in Field
    BY ParametersAreNatural DEF Field
  <2> QED BY <2>1
<1> HIDE DEF hints, values, H
<1>5. pairs \in Seq(H \X Field)
  BY <1>3, <1>4, RowsType
<1>6. FirstAccepted(ins) = IF accepted = {} THEN {} ELSE {runs[Min(accepted)].values}
  <2> DEFINE vs(h) == <<0, 1>>
             rows == [k \in DOMAIN hints |-> [j \in DOMAIN vs(hints[k]) |-> <<hints[k], vs(hints[k])[j]>>]]
             tried == FlattenSeq(rows)
  <2>1. FirstAccepted(ins)
          = LET R == [k \in DOMAIN tried |-> Answered(ins, tried[k][1], tried[k][2])]
                acc == {k \in DOMAIN R : ~R[k].failed}
            IN  IF acc = {} THEN {} ELSE {R[Min(acc)].values}
    BY Zenon DEF FirstAccepted, Pairs, hints, n, s
  <2>2. tried = pairs
    <3>1. \A k \in DOMAIN hints : hints[k] \in H
      BY <1>3
    <3>2. \A k \in DOMAIN hints : values[hints[k]] = vs(hints[k])
      BY <1>4, <3>1
    <3> HIDE DEF vs
    <3>3. rows = [k \in DOMAIN hints |-> [j \in DOMAIN values[hints[k]] |-> <<hints[k], values[hints[k]][j]>>]]
      BY <3>2
    <3> QED BY <3>3
  <2> HIDE DEF tried, pairs
  <2> QED BY <2>1, <2>2
<1> HIDE DEF pairs
<1>7. accepted # {} /\ base = runs[Min(accepted)].values
  BY <1>6
<1>8. Min(accepted) \in accepted
  <2>1. DOMAIN pairs = 1..Len(pairs) /\ Len(pairs) \in Nat
    BY <1>5
  <2>2. 1 \in Int /\ Len(pairs) \in Int
    BY <2>1
  <2>3. IsFiniteSet(1..Len(pairs))
    BY ONLY <2>2, FS_Interval
  <2>4. accepted \in SUBSET (1..Len(pairs))
    BY <2>1
  <2> HIDE DEF accepted
  <2>5. IsFiniteSet(accepted)
    BY <2>3, <2>4, FS_Subset
  <2>6. accepted \in SUBSET Int
    BY <2>4
  <2> QED BY <1>7, <2>5, <2>6, MinExists
<1> DEFINE k == Min(accepted)
           h == pairs[k][1]
           v == pairs[k][2]
           t == Answered(ins, h, v)
<1>9. k \in DOMAIN pairs /\ runs[k] = t /\ ~t.failed
  BY <1>8
<1>10. h \in H /\ v \in Field
  <2> HIDE DEF k
  <2>1. pairs[k] \in H \X Field
    BY <1>5, <1>9
  <2> QED BY <2>1
<1>11. Producers(program, h) # {}
  BY <1>10 DEF H, Hinted
<1>12. base = t.values
  BY <1>7, <1>9
<1> HIDE DEF t, h, v, k
<1> QED BY <1>9, <1>10, <1>11, <1>12, AnsweredGood DEF t

LEMMA BaseGood ==
  ASSUME Runnable(program), Definite(program), HintsAreFresh(program), NEW ins \in [program.inputs -> Field],
         NEW base \in Bases(ins)
  PROVE  GoodRun(program, ins, base)
<1>1. CASE Execute(program, ins).failed
  BY <1>1, FirstAcceptedGood DEF Bases
<1>2. CASE ~Execute(program, ins).failed
  BY <1>2, ExecuteGood DEF Bases
<1> QED BY <1>1, <1>2

(* Two runs on the same inputs stand for two assignments that differ on just the
   wires on which both runs have a value, and not the same.                    *)
LEMMA SideBySide ==
  ASSUME NEW m, NEW ins, NEW f, GoodRun(m, ins, f), NEW g, GoodRun(m, ins, g)
  PROVE  \E a \in [m.wires -> Field], b \in [m.wires -> Field] :
           /\ Extends(a, f) /\ Extends(b, g)
           /\ \A w \in m.wires : a[w] # b[w] => w \in DOMAIN f \cap DOMAIN g
<1> DEFINE a == [w \in m.wires |-> IF w \in DOMAIN f THEN f[w] ELSE IF w \in DOMAIN g THEN g[w] ELSE 0]
           b == [w \in m.wires |-> IF w \in DOMAIN g THEN g[w] ELSE IF w \in DOMAIN f THEN f[w] ELSE 0]
<1>1. 0 \in Field
  BY ParametersAreNatural DEF Field
<1>2. Valued(f) /\ DOMAIN f \subseteq m.wires /\ Valued(g) /\ DOMAIN g \subseteq m.wires
  BY DEF GoodRun
<1>3. a \in [m.wires -> Field] /\ b \in [m.wires -> Field]
  BY <1>1, <1>2 DEF Valued
<1>4. Extends(a, f) /\ Extends(b, g)
  BY <1>2 DEF Extends
<1>5. \A w \in m.wires : a[w] # b[w] => w \in DOMAIN f \cap DOMAIN g
  OBVIOUS
<1> QED BY <1>3, <1>4, <1>5

LEMMA OneCompletion ==
  ASSUME NEW m, NEW ins, NEW f, GoodRun(m, ins, f)
  PROVE  \E a \in [m.wires -> Field] : Extends(a, f) /\ IsRun(m, a)
<1>1. PICK a \in [m.wires -> Field], b \in [m.wires -> Field] : Extends(a, f) /\ Extends(b, f)
  BY SideBySide
<1> QED BY <1>1 DEF GoodRun

(* Whether the check is violated is decided by what a run has assigned. *)
LEMMA ViolatesSame ==
  ASSUME NEW o, NEW W, o.wires \subseteq W, o.type \in {"AssertZero", "RANGE"}, NEW f, o.wires \subseteq DOMAIN f,
         NEW a \in [W -> Field], Extends(a, f)
  PROVE  /\ Violates(o, f) <=> Violates(o, a)
         /\ ~Violates(o, f) /\ o.wires # {} => AcirHolds(o, a)
<1>1. [w \in o.wires |-> a[w]] = [w \in o.wires |-> f[w]]
  BY DEF Extends
<1>2. AcirHolds(o, a) <=> AcirHolds(o, f)
  BY <1>1 DEF AcirHolds
<1> QED BY <1>2 DEF Violates, Mentioned

(* What LabelIsJustified asks of a report r on the mutant m of c at opcode i. *)
Broken(c, i, m) == {a \in Runs(m) : Violates(c.opcodes[i], a)}

Internal(c, i, m) ==
  \E a \in Broken(c, i, m) : \E b \in Runs(c) : Agree(c.inputs, a, b) /\ Differ(c.returns, a, b) = {}

OverAccepted(c, i, m) == \E a \in Broken(c, i, m) : Rejects(c, a)

Nondet(c, i, m, moved, k) ==
  \E b \in Broken(c, i, m) : \E a \in Runs(m) :
    /\ Agree(m.inputs, a, b)
    /\ moved # {} /\ moved = {<<w, a[w], b[w]>> : w \in Differ(m.returns, a, b)}
    /\ k = "honest" => Agree(c.inputs, a, c.seed) /\ IsRun(c, a)
    /\ k = "rejected" <=> Rejects(c, a)

Ambiguous(c) ==
  \E a, b \in {x \in Runs(c) : Agree(c.inputs, x, c.seed)} : Differ(c.returns, a, b) # {}

Borne(c, i, m, r) ==
  /\ r.label = "internal" => Internal(c, i, m)
  /\ r.label = "over-accept" => OverAccepted(c, i, m)
  /\ r.label = "nondet" => Nondet(c, i, m, r.moved, r.nondetInputs)
  /\ r.baseline => Ambiguous(c)

(* The run f that a search on ins starts from, and what kind of inputs these are;
   where the original runs, f is its run as well.                              *)
Compared(c, m, ins, f, k) ==
  /\ ins \in [m.inputs -> Field] /\ GoodRun(m, ins, f)
  /\ k = "honest" => ins = c.seed
  /\ k = "rejected" <=> Execute(c, ins).failed
  /\ k # "rejected" => f = Execute(c, ins).values

Moved(m, f, g) == {<<w, f[w], g[w]>> : w \in Differ(m.returns \cap DOMAIN f \cap DOMAIN g, f, g)}

LEMMA MovedFacts ==
  ASSUME NEW m, WellFormedCircuit(m), NEW ins \in [m.inputs -> Field],
         NEW f, GoodRun(m, ins, f), NEW g, GoodRun(m, ins, g)
  PROVE  \E a \in Runs(m), b \in Runs(m) :
           /\ Extends(a, f) /\ Extends(b, g) /\ Agree(m.inputs, a, b)
           /\ Moved(m, f, g) = {<<w, a[w], b[w]>> : w \in Differ(m.returns, a, b)}
           /\ Moved(m, f, g) # {} => Differ(m.returns, a, b) # {}
<1>1. m.inputs \subseteq m.wires /\ m.returns \subseteq m.wires
  BY CircuitFacts
<1>2. PICK a \in [m.wires -> Field], b \in [m.wires -> Field] :
        /\ Extends(a, f) /\ Extends(b, g)
        /\ \A w \in m.wires : a[w] # b[w] => w \in DOMAIN f \cap DOMAIN g
  BY SideBySide
<1>3. a \in Runs(m) /\ b \in Runs(m)
  BY <1>2 DEF GoodRun, Runs
<1>4. Agree(m.inputs, a, b)
  <2>1. \A w \in m.inputs : a[w] = ins[w] /\ b[w] = ins[w]
    BY <1>2 DEF GoodRun, Extends
  <2> QED BY <2>1 DEF Agree
<1>5. \A w \in DOMAIN f : a[w] = f[w]
  BY <1>2 DEF Extends
<1>6. \A w \in DOMAIN g : b[w] = g[w]
  BY <1>2 DEF Extends
<1>7. \A w \in m.returns : w \in DOMAIN a /\ w \in DOMAIN b
  BY <1>1
<1>8. Differ(m.returns, a, b) = {w \in m.returns : a[w] # b[w]}
  BY <1>7 DEF Differ, Get
<1>9. Differ(m.returns \cap DOMAIN f \cap DOMAIN g, f, g) = {w \in m.returns : w \in DOMAIN f /\ w \in DOMAIN g /\ f[w] # g[w]}
  BY DEF Differ, Get
<1>10. Differ(m.returns \cap DOMAIN f \cap DOMAIN g, f, g) = Differ(m.returns, a, b)
  BY <1>1, <1>2, <1>5, <1>6, <1>8, <1>9
<1>11. \A w \in Differ(m.returns, a, b) : a[w] = f[w] /\ b[w] = g[w]
  BY <1>1, <1>2, <1>5, <1>6, <1>8
<1> DEFINE D == Differ(m.returns, a, b)
<1>12. Moved(m, f, g) = {<<w, a[w], b[w]>> : w \in D}
  <2>1. Moved(m, f, g) = {<<w, f[w], g[w]>> : w \in D}
    BY <1>10 DEF Moved
  <2> HIDE DEF D
  <2>2. {<<w, f[w], g[w]>> : w \in D} = {<<w, a[w], b[w]>> : w \in D}
    BY <1>11 DEF D
  <2> QED BY <2>1, <2>2
<1>13. Moved(m, f, g) # {} => D # {}
  <2> HIDE DEF D
  <2> QED BY <1>12
<1> QED BY <1>2, <1>3, <1>4, <1>12, <1>13

(* A run of the mutant that breaks the check. *)
LEMMA BrokenFacts ==
  ASSUME NEW c, NEW i, NEW m, MutantOf(m, c, i), NEW ins, NEW g, GoodRun(m, ins, g),
         Violates(c.opcodes[i], g), NEW b \in Runs(m), Extends(b, g)
  PROVE  b \in Broken(c, i, m)
<1>1. /\ c.opcodes[i].wires \subseteq m.wires /\ c.opcodes[i].type \in {"AssertZero", "RANGE"}
      /\ c.opcodes[i].wires \subseteq DOMAIN g
  BY DEF MutantOf, GoodRun
<1>2. b \in [m.wires -> Field]
  BY DEF Runs
<1> QED BY <1>1, <1>2, ViolatesSame DEF Broken

LEMMA RejectsSame ==
  ASSUME NEW c, NEW m, m.inputs = c.inputs, NEW ins \in [m.inputs -> Field], NEW f, Extends(f, ins), NEW a, Extends(a, f)
  PROVE  Rejects(c, a) <=> Execute(c, ins).failed
<1>1. [w \in c.inputs |-> a[w]] = ins
  BY DEF Extends
<1> QED BY <1>1 DEF Rejects

(* An answer that breaks the check and moves no output, next to a run that the
   original accepts: its own, or one that does not break the check.            *)
LEMMA InternalBorne ==
  ASSUME NEW c, Runnable(c), NEW i, NEW m, MutantOf(m, c, i), NEW ins, NEW f, NEW k, Compared(c, m, ins, f, k),
         k = "rejected" => ~Violates(c.opcodes[i], f),
         NEW g, GoodRun(m, ins, g), Violates(c.opcodes[i], g), Moved(m, f, g) = {}
  PROVE  Internal(c, i, m)
<1> DEFINE o == c.opcodes[i]
<1>1. /\ ins \in [m.inputs -> Field] /\ GoodRun(m, ins, f) /\ m.inputs = c.inputs /\ m.wires = c.wires /\ WellFormedCircuit(m)
      /\ m.returns = c.returns /\ m.inputs \subseteq m.wires /\ m.returns \subseteq m.wires
      /\ o.wires \subseteq m.wires /\ o.type \in {"AssertZero", "RANGE"} /\ o.wires \subseteq DOMAIN f
      /\ \A a : IsRun(m, a) /\ AcirHolds(o, a) => IsRun(c, a)
  BY CircuitFacts DEF Compared, MutantOf, Runnable, GoodRun
<1>2. PICK a \in Runs(m), b \in Runs(m) :
        /\ Extends(a, f) /\ Extends(b, g) /\ Agree(m.inputs, a, b)
        /\ Moved(m, f, g) = {<<w, a[w], b[w]>> : w \in Differ(m.returns, a, b)}
  BY <1>1, MovedFacts
<1>3. a \in [c.wires -> Field] /\ IsRun(m, a) /\ b \in Broken(c, i, m)
  BY <1>1, <1>2, BrokenFacts DEF Runs
<1>4. IsRun(c, a)
  <2>1. CASE k # "rejected"
    <3>1. ~Execute(c, ins).failed /\ f = Execute(c, ins).values
      BY <2>1 DEF Compared
    <3>2. \A x \in [c.wires -> Field] : Extends(x, Execute(c, ins).values) => IsRun(c, x)
      BY <1>1, <3>1, ExecuteFacts
    <3> QED BY <1>2, <1>3, <3>1, <3>2
  <2>2. CASE k = "rejected"
    <3>1. o.wires # {} /\ ~Violates(o, f)
      BY <1>1, <2>2 DEF Violates, Mentioned
    <3> HIDE DEF o
    <3>2. AcirHolds(o, a)
      BY <1>1, <1>2, <1>3, <3>1, ViolatesSame
    <3> QED BY <1>1, <1>3, <3>2
  <2> QED BY <2>1, <2>2
<1>5. Differ(m.returns, a, b) = {}
  <2> DEFINE D == Differ(m.returns, a, b)
  <2>1. {<<w, a[w], b[w]>> : w \in D} = {}
    BY <1>2
  <2> HIDE DEF D
  <2>2. D = {}
    BY <2>1
  <2> QED BY <2>2 DEF D
<1>6. Agree(c.inputs, b, a) /\ Differ(c.returns, b, a) = {}
  BY <1>1, <1>2, <1>5 DEF Agree, Differ
<1> QED BY <1>3, <1>4, <1>6 DEF Runs, Internal

LEMMA OverAcceptBorne ==
  ASSUME NEW c, NEW i, NEW m, MutantOf(m, c, i), NEW ins \in [m.inputs -> Field], NEW g, GoodRun(m, ins, g),
         Violates(c.opcodes[i], g), Execute(c, ins).failed
  PROVE  OverAccepted(c, i, m)
<1>1. PICK b \in [m.wires -> Field] : Extends(b, g) /\ IsRun(m, b)
  BY OneCompletion
<1>2. b \in Runs(m)
  BY <1>1 DEF Runs
<1>3. Rejects(c, b)
  BY <1>1, RejectsSame DEF MutantOf, GoodRun
<1> QED BY <1>1, <1>2, <1>3, BrokenFacts DEF OverAccepted

LEMMA NondetBorne ==
  ASSUME NEW c, Runnable(c), NEW i, NEW m, MutantOf(m, c, i), NEW ins, NEW f, NEW k, Compared(c, m, ins, f, k),
         NEW g, GoodRun(m, ins, g), Violates(c.opcodes[i], g), Moved(m, f, g) # {}
  PROVE  Nondet(c, i, m, Moved(m, f, g), k)
<1>1. ins \in [m.inputs -> Field] /\ GoodRun(m, ins, f) /\ m.inputs = c.inputs /\ m.wires = c.wires /\ WellFormedCircuit(m)
  BY DEF Compared, MutantOf, Runnable
<1>2. PICK a \in Runs(m), b \in Runs(m) :
        /\ Extends(a, f) /\ Extends(b, g) /\ Agree(m.inputs, a, b)
        /\ Moved(m, f, g) = {<<w, a[w], b[w]>> : w \in Differ(m.returns, a, b)}
  BY <1>1, MovedFacts
<1>3. b \in Broken(c, i, m)
  BY <1>2, BrokenFacts
<1>4. ASSUME k = "honest" PROVE Agree(c.inputs, a, c.seed) /\ IsRun(c, a)
  <2>1. ins = c.seed /\ ~Execute(c, ins).failed /\ f = Execute(c, ins).values
    BY <1>4 DEF Compared
  <2>2. IsRun(c, a)
    <3>1. a \in [c.wires -> Field]
      BY <1>1, <1>2 DEF Runs
    <3>2. \A x \in [c.wires -> Field] : Extends(x, Execute(c, ins).values) => IsRun(c, x)
      BY <1>1, <2>1, ExecuteFacts
    <3> QED BY <1>2, <2>1, <3>1, <3>2
  <2>3. Agree(c.inputs, a, c.seed)
    BY <1>1, <1>2, <2>1 DEF GoodRun, Extends, Agree
  <2> QED BY <2>2, <2>3
<1>5. k = "rejected" <=> Rejects(c, a)
  <2>1. Extends(f, ins)
    BY <1>1 DEF GoodRun
  <2>2. Rejects(c, a) <=> Execute(c, ins).failed
    BY <1>1, <1>2, <2>1, RejectsSame
  <2> QED BY <2>2 DEF Compared
<1> DEFINE moved == Moved(m, f, g)
<1>6. moved # {} /\ moved = {<<w, a[w], b[w]>> : w \in Differ(m.returns, a, b)}
  BY <1>2
<1> HIDE DEF moved
<1>7. Nondet(c, i, m, moved, k)
  BY <1>2, <1>3, <1>4, <1>5, <1>6 DEF Nondet
<1> QED BY <1>7 DEF moved

(* Another answer that does not violate the check but moves an output shows two
   runs of the original.                                                       *)
LEMMA BaselineBorne ==
  ASSUME NEW c, Runnable(c), NEW i \in DOMAIN c.opcodes, NEW m, MutantOf(m, c, i), NEW ins, NEW f,
         Compared(c, m, ins, f, "honest"),
         NEW g, GoodRun(m, ins, g), ~Violates(c.opcodes[i], g), Moved(m, f, g) # {}
  PROVE  Ambiguous(c)
<1> DEFINE o == c.opcodes[i]
<1>1. /\ ins \in [m.inputs -> Field] /\ GoodRun(m, ins, f) /\ m.inputs = c.inputs /\ m.wires = c.wires /\ WellFormedCircuit(m)
      /\ m.returns = c.returns
      /\ o.wires \subseteq m.wires /\ o.type \in {"AssertZero", "RANGE"} /\ o.wires \subseteq DOMAIN g
      /\ ins = c.seed /\ ~Execute(c, ins).failed /\ f = Execute(c, ins).values
      /\ \A a : IsRun(m, a) /\ AcirHolds(o, a) => IsRun(c, a)
  BY DEF Compared, MutantOf, Runnable, GoodRun
<1>2. PICK a \in Runs(m), b \in Runs(m) :
        /\ Extends(a, f) /\ Extends(b, g) /\ Agree(m.inputs, a, b)
        /\ Differ(m.returns, a, b) # {}
  BY <1>1, MovedFacts
<1>3. a \in [c.wires -> Field] /\ b \in [c.wires -> Field] /\ IsRun(m, b)
  BY <1>1, <1>2 DEF Runs
<1>4. IsRun(c, a)
  <2>1. \A x \in [c.wires -> Field] : Extends(x, Execute(c, ins).values) => IsRun(c, x)
    BY <1>1, ExecuteFacts
  <2> QED BY <1>1, <1>2, <1>3, <2>1
<1>5. AcirHolds(o, b)
  <2>1. CASE o.wires = {}
    <3>1. Fulfilled(c, a, i)
      BY <1>4, RunIsFulfilled
    <3>2. AcirHolds(o, a)
      BY <1>1, <3>1 DEF Fulfilled, IsAccess
    <3>3. [w \in o.wires |-> a[w]] = [w \in o.wires |-> b[w]]
      BY <2>1
    <3> QED BY <3>2, <3>3 DEF AcirHolds
  <2>2. CASE o.wires # {}
    <3> HIDE DEF o
    <3>1. b \in [m.wires -> Field] /\ ~Violates(o, g)
      BY <1>2 DEF Runs, o
    <3> QED BY <1>1, <1>2, <2>2, <3>1, ViolatesSame
  <2> QED BY <2>1, <2>2
<1>6. IsRun(c, b)
  BY <1>1, <1>3, <1>5
<1>7. Agree(c.inputs, a, c.seed) /\ Agree(c.inputs, b, c.seed)
  BY <1>1, <1>2 DEF GoodRun, Extends, Agree
<1> QED BY <1>1, <1>2, <1>3, <1>4, <1>6, <1>7 DEF Runs, Ambiguous

-----------------------------------------------------------------------------
(* The labels *)

IsReport(r) == r = [label |-> r.label, moved |-> r.moved, baseline |-> r.baseline, nondetInputs |-> r.nondetInputs]

LEMMA ReportFacts ==
  ASSUME NEW r, IsReport(r), NEW x, NEW y, NEW z
  PROVE  /\ [r EXCEPT !.label = x]
              = [label |-> x, moved |-> r.moved, baseline |-> r.baseline, nondetInputs |-> r.nondetInputs]
         /\ [r EXCEPT !.baseline = x]
              = [label |-> r.label, moved |-> r.moved, baseline |-> x, nondetInputs |-> r.nondetInputs]
         /\ [r EXCEPT !.label = x, !.moved = y, !.nondetInputs = z]
              = [label |-> x, moved |-> y, baseline |-> r.baseline, nondetInputs |-> z]
<1>1. PICK l, m, b, n : r = [label |-> l, moved |-> m, baseline |-> b, nondetInputs |-> n]
  BY DEF IsReport
<1>2. r.label = l /\ r.moved = m /\ r.baseline = b /\ r.nondetInputs = n
  BY <1>1
<1>3. [r EXCEPT !.label = x] = [label |-> x, moved |-> m, baseline |-> b, nondetInputs |-> n]
  BY <1>1
<1>4. [r EXCEPT !.baseline = x] = [label |-> l, moved |-> m, baseline |-> x, nondetInputs |-> n]
  BY <1>1
<1>5. [r EXCEPT !.label = x, !.moved = y, !.nondetInputs = z]
        = [label |-> x, moved |-> y, baseline |-> b, nondetInputs |-> z]
  <2> DEFINE p == [r EXCEPT !.label = x]
             q == [p EXCEPT !.moved = y]
  <2>1. p = [label |-> x, moved |-> m, baseline |-> b, nondetInputs |-> n]
    BY <1>3
  <2> HIDE DEF p
  <2>2. q = [label |-> x, moved |-> y, baseline |-> b, nondetInputs |-> n]
    BY <2>1
  <2> HIDE DEF q
  <2>3. [q EXCEPT !.nondetInputs = z] = [label |-> x, moved |-> y, baseline |-> b, nondetInputs |-> z]
    BY <2>2
  <2>4. [r EXCEPT !.label = x, !.moved = y, !.nondetInputs = z] = [q EXCEPT !.nondetInputs = z]
    BY Zenon DEF p, q
  <2> QED BY <2>3, <2>4
<1> QED BY <1>2, <1>3, <1>4, <1>5

(* A search holds its answers against one run of the mutant, on inputs of the kind
   that it will report; and what it has reported so far has its example.  As long as
   there is none, that run does not break the check on inputs the original rejects. *)
LabelInv ==
  command = "label-mutant" =>
    /\ MutantInv
    /\ IsReport(report) /\ report.baseline \in BOOLEAN
    /\ Borne(original, opcodeIndex, program, report)
    /\ variants \in Seq([program.inputs -> Field])
    /\ phase = "honest" => inputs = original.seed /\ kind = "honest"
    /\ phase \in {"override", "variants"} => Compared(original, program, inputs, honest, kind)
    /\ phase \in {"override", "variants"} /\ report.label = "no-weakening" /\ kind = "rejected"
         => ~Violates(Check, honest)
    /\ phase = "override" => todo \in Seq(Hinted(program) \X Field)

LEMMA LabelFacts ==
  ASSUME MutantInv, command = "label-mutant"
  PROVE  /\ Runnable(original) /\ Definite(original) /\ original.seed \in [original.inputs -> Field]
         /\ opcodeIndex \in DOMAIN original.opcodes /\ program \in MutantsAt(original, opcodeIndex)
         /\ MutantOf(program, original, opcodeIndex)
         /\ Runnable(program) /\ WellFormedCircuit(program) /\ Definite(program) /\ HintsAreFresh(program)
         /\ program.inputs = original.inputs
         /\ WellFormedOpcode(Check)
<1>1. /\ original \in Originals /\ opcodeIndex \in DOMAIN original.opcodes
      /\ program \in MutantsAt(original, opcodeIndex)
  BY DEF MutantInv
<1>2. /\ Runnable(original) /\ Definite(original) /\ HintsAreFresh(original) /\ WellFormedCircuit(original)
      /\ original.seed \in [original.inputs -> Field]
  BY <1>1, OriginalFacts
<1>3. MutantOf(program, original, opcodeIndex)
  BY <1>1, <1>2, MutantFacts
<1>4. WellFormedOpcode(Check)
  BY <1>1, <1>2, CircuitFacts DEF Check
<1> QED BY <1>1, <1>2, <1>3, <1>4 DEF MutantOf, Runnable

LEMMA InitLabel == Init => LabelInv
<1> SUFFICES ASSUME command = "label-mutant", LabelInit PROVE LabelInv
  BY DEF Init, LabelInv
<1>1. MutantInv
  BY DEF LabelInit, MutantInv
<1>2. IsReport(report) /\ report.baseline \in BOOLEAN /\ Borne(original, opcodeIndex, program, report)
  <2>1. report.label = "no-weakening" /\ report.baseline = FALSE /\ IsReport(report)
    BY DEF LabelInit, NoReport, IsReport
  <2> QED BY <2>1 DEF Borne
<1>3. variants \in Seq([program.inputs -> Field]) /\ phase = "honest" /\ inputs = original.seed /\ kind = "honest"
  BY DEF LabelInit
<1> QED BY <1>1, <1>2, <1>3 DEF LabelInv

(* Mutant and original run alike on the inputs of the original. *)
LEMMA HonestCompared ==
  ASSUME LabelInv, command = "label-mutant", OriginalRuns
  PROVE  Compared(original, program, inputs, honest', kind) /\ todo' \in Seq(Hinted(program) \X Field)
<1> DEFINE s == Execute(original, inputs)
<1>1. MutantInv /\ inputs = original.seed /\ kind = "honest" /\ ~s.failed /\ honest' = s.values /\ todo' = PairsAt(s.values)
  BY DEF LabelInv, OriginalRuns
<1>2. /\ Runnable(original) /\ Definite(original) /\ inputs \in [original.inputs -> Field]
      /\ opcodeIndex \in DOMAIN original.opcodes /\ program \in MutantsAt(original, opcodeIndex)
      /\ Runnable(program) /\ Definite(program) /\ program.inputs = original.inputs /\ WellFormedOpcode(Check)
  BY <1>1, LabelFacts
<1>3. Execute(program, inputs) = s
  BY <1>1, <1>2, MutantRuns
<1>4. GoodRun(program, inputs, s.values)
  BY <1>1, <1>2, <1>3, ExecuteGood
<1>5. Valued(s.values)
  BY <1>4 DEF GoodRun
<1>6. todo' \in Seq(Hinted(program) \X Field)
  BY <1>1, <1>2, <1>5, PairsAtType
<1>7. Compared(original, program, inputs, honest', kind)
  BY <1>1, <1>2, <1>4 DEF Compared
<1> QED BY <1>6, <1>7

LEMMA VariantCompared ==
  ASSUME LabelInv, command = "label-mutant", TryVariant
  PROVE  /\ Compared(original, program, inputs', honest', kind') /\ todo' \in Seq(Hinted(program) \X Field)
         /\ report'.label = "no-weakening" /\ kind' = "rejected" => ~Violates(Check, honest')
         /\ IsReport(report') /\ report'.baseline \in BOOLEAN /\ Borne(original, opcodeIndex, program, report')
<1> DEFINE ins == Head(variants)
<1>1. /\ MutantInv /\ variants \in Seq([program.inputs -> Field]) /\ variants # << >>
      /\ IsReport(report) /\ report.baseline \in BOOLEAN /\ Borne(original, opcodeIndex, program, report)
  BY DEF LabelInv, TryVariant
<1>2. /\ Runnable(original) /\ Definite(original) /\ MutantOf(program, original, opcodeIndex)
      /\ opcodeIndex \in DOMAIN original.opcodes /\ program \in MutantsAt(original, opcodeIndex)
      /\ Runnable(program) /\ Definite(program) /\ HintsAreFresh(program) /\ program.inputs = original.inputs
      /\ WellFormedOpcode(Check)
  BY <1>1, LabelFacts
<1>3. ins \in [program.inputs -> Field]
  BY <1>1
<1>4. PICK base \in Bases(ins) :
        /\ inputs' = ins /\ honest' = base
        /\ kind' = IF Execute(original, ins).failed THEN "rejected" ELSE "other"
        /\ report' = IF OverAccepts(ins, base) THEN [report EXCEPT !.label = "over-accept"] ELSE report
        /\ todo' = PairsAt(base)
  BY DEF TryVariant
<1> HIDE DEF ins
<1>5. GoodRun(program, ins, base)
  BY <1>2, <1>3, <1>4, BaseGood
<1>6. todo' \in Seq(Hinted(program) \X Field)
  BY <1>2, <1>4, <1>5, PairsAtType DEF GoodRun
<1>7. Compared(original, program, inputs', honest', kind')
  <2>1. kind' # "honest" /\ (kind' = "rejected" <=> Execute(original, ins).failed)
    BY <1>4
  <2>2. ~Execute(original, ins).failed => base = Execute(original, ins).values
    <3> SUFFICES ASSUME ~Execute(original, ins).failed PROVE base = Execute(original, ins).values
      OBVIOUS
    <3>1. Execute(program, ins) = Execute(original, ins)
      BY <1>2, <1>3, MutantRuns
    <3> QED BY <1>4, <3>1 DEF Bases
  <2> QED BY <1>3, <1>4, <1>5, <2>1, <2>2 DEF Compared
<1>8. IsReport(report') /\ report'.baseline \in BOOLEAN /\ Borne(original, opcodeIndex, program, report')
  <2>1. CASE ~OverAccepts(ins, base)
    BY <1>1, <1>4, <2>1
  <2>2. CASE OverAccepts(ins, base)
    <3>1. Execute(original, ins).failed /\ Violates(original.opcodes[opcodeIndex], base)
      BY <2>2 DEF OverAccepts, Check
    <3>2. OverAccepted(original, opcodeIndex, program)
      BY <1>2, <1>3, <1>5, <3>1, OverAcceptBorne
    <3> DEFINE r == report'
    <3>3. r = [label |-> "over-accept", moved |-> report.moved, baseline |-> report.baseline,
               nondetInputs |-> report.nondetInputs]
      BY <1>1, <1>4, <2>2, ReportFacts
    <3> HIDE DEF r
    <3>4. r.label = "over-accept" /\ r.baseline = report.baseline /\ IsReport(r)
      BY <3>3 DEF IsReport
    <3>5. Borne(original, opcodeIndex, program, r)
      BY <1>1, <3>2, <3>4 DEF Borne
    <3> QED BY <1>1, <3>4, <3>5 DEF r
  <2> QED BY <2>1, <2>2
<1>9. ASSUME report'.label = "no-weakening", kind' = "rejected" PROVE ~Violates(Check, honest')
  <2>1. ~OverAccepts(ins, base)
    <3> SUFFICES ASSUME OverAccepts(ins, base) PROVE FALSE
      OBVIOUS
    <3> DEFINE r == report'
    <3>1. r = [label |-> "over-accept", moved |-> report.moved, baseline |-> report.baseline,
               nondetInputs |-> report.nondetInputs]
      BY <1>1, <1>4, ReportFacts
    <3> HIDE DEF r
    <3>2. r.label = "over-accept"
      BY <3>1
    <3> QED BY <1>9, <3>2 DEF r
  <2>2. Execute(original, ins).failed
    BY <1>4, <1>9
  <2> QED BY <1>4, <2>1, <2>2 DEF OverAccepts
<1> QED BY <1>6, <1>7, <1>8, <1>9

LEMMA AnswerBorne ==
  ASSUME LabelInv, command = "label-mutant", TryAnswer
  PROVE  /\ IsReport(report') /\ report'.baseline \in BOOLEAN /\ Borne(original, opcodeIndex, program, report')
         /\ report'.label = "no-weakening" => report.label = "no-weakening"
<1> DEFINE h == Head(todo)[1]
           v == Head(todo)[2]
           s == Answered(inputs, h, v)
           moved == MovedOutputs(s.values)
           o == original.opcodes[opcodeIndex]
<1>1. /\ MutantInv /\ todo \in Seq(Hinted(program) \X Field) /\ todo # << >>
      /\ IsReport(report) /\ report.baseline \in BOOLEAN /\ Borne(original, opcodeIndex, program, report)
      /\ Compared(original, program, inputs, honest, kind)
      /\ report.label = "no-weakening" /\ kind = "rejected" => ~Violates(o, honest)
  BY DEF LabelInv, TryAnswer, Check
<1>2. /\ Runnable(original) /\ opcodeIndex \in DOMAIN original.opcodes
      /\ MutantOf(program, original, opcodeIndex) /\ WellFormedCircuit(program)
      /\ Runnable(program) /\ Definite(program) /\ HintsAreFresh(program) /\ program.inputs = original.inputs
      /\ inputs \in [program.inputs -> Field]
  BY <1>1, LabelFacts DEF Compared
<1>3. h \in Hinted(program) /\ v \in Field
  BY <1>1
<1>4. Producers(program, h) # {}
  BY <1>3 DEF Hinted
<1>5. \/ report' = report
      \/ ~s.failed /\ ~Violates(o, s.values) /\ report' = [report EXCEPT !.baseline = Baseline(moved)]
      \/ /\ ~s.failed /\ Violates(o, s.values) /\ moved = {} /\ report.label = "no-weakening"
         /\ report' = [report EXCEPT !.label = "internal"]
      \/ /\ ~s.failed /\ Violates(o, s.values) /\ moved # {}
         /\ report' = [report EXCEPT !.label = "nondet", !.moved = moved, !.nondetInputs = kind]
  BY DEF TryAnswer, Check
<1>6. moved = Moved(program, honest, s.values)
  BY DEF MovedOutputs, Moved
<1> HIDE DEF moved, h, v
<1>7. ~s.failed => GoodRun(program, inputs, s.values)
  BY <1>2, <1>3, <1>4, AnsweredGood
<1> HIDE DEF s
<1> DEFINE r == report'
<1>8. CASE report' = report
  BY <1>1, <1>8
<1>9. CASE ~s.failed /\ ~Violates(o, s.values) /\ report' = [report EXCEPT !.baseline = Baseline(moved)]
  <2> DEFINE b == Baseline(moved)
  <2>1. b \in BOOLEAN /\ (b => report.baseline \/ (kind = "honest" /\ moved # {}))
    BY <1>1 DEF Baseline
  <2>2. r = [label |-> report.label, moved |-> report.moved, baseline |-> b, nondetInputs |-> report.nondetInputs]
    BY <1>1, <1>9, ReportFacts
  <2> HIDE DEF b, r
  <2>3. /\ r.label = report.label /\ r.moved = report.moved /\ r.baseline = b /\ r.nondetInputs = report.nondetInputs
        /\ IsReport(r)
    BY <2>2 DEF IsReport
  <2>4. ASSUME b PROVE Ambiguous(original)
    <3>1. CASE report.baseline
      BY <1>1, <3>1 DEF Borne
    <3>2. CASE kind = "honest" /\ moved # {}
      BY <1>1, <1>2, <1>6, <1>7, <1>9, <3>2, BaselineBorne
    <3> QED BY <2>1, <2>4, <3>1, <3>2
  <2>5. Borne(original, opcodeIndex, program, r)
    BY <1>1, <2>3, <2>4 DEF Borne
  <2> QED BY <2>1, <2>3, <2>5 DEF r
<1>10. CASE /\ ~s.failed /\ Violates(o, s.values) /\ moved = {} /\ report.label = "no-weakening"
            /\ report' = [report EXCEPT !.label = "internal"]
  <2>1. Internal(original, opcodeIndex, program)
    BY <1>1, <1>2, <1>6, <1>7, <1>10, InternalBorne
  <2>2. r = [label |-> "internal", moved |-> report.moved, baseline |-> report.baseline,
             nondetInputs |-> report.nondetInputs]
    BY <1>1, <1>10, ReportFacts
  <2> HIDE DEF r
  <2>3. r.label = "internal" /\ r.baseline = report.baseline /\ IsReport(r)
    BY <2>2 DEF IsReport
  <2>4. Borne(original, opcodeIndex, program, r)
    BY <1>1, <2>1, <2>3 DEF Borne
  <2> QED BY <1>1, <1>10, <2>3, <2>4 DEF r
<1>11. CASE /\ ~s.failed /\ Violates(o, s.values) /\ moved # {}
            /\ report' = [report EXCEPT !.label = "nondet", !.moved = moved, !.nondetInputs = kind]
  <2>1. Nondet(original, opcodeIndex, program, moved, kind)
    BY <1>1, <1>2, <1>6, <1>7, <1>11, NondetBorne
  <2>2. r = [label |-> "nondet", moved |-> moved, baseline |-> report.baseline, nondetInputs |-> kind]
    BY <1>1, <1>11, ReportFacts
  <2> HIDE DEF r
  <2>3. r.label = "nondet" /\ r.moved = moved /\ r.baseline = report.baseline /\ r.nondetInputs = kind /\ IsReport(r)
    BY <2>2 DEF IsReport
  <2>4. Borne(original, opcodeIndex, program, r)
    BY <1>1, <1>11, <2>1, <2>3 DEF Borne
  <2> QED BY <1>1, <2>3, <2>4 DEF r
<1> QED BY <1>5, <1>8, <1>9, <1>10, <1>11

LEMMA LabelStep == LabelInv /\ [Next]_vars => LabelInv'
<1> SUFFICES ASSUME LabelInv, [Next]_vars, command' = "label-mutant" PROVE LabelInv'
  BY DEF LabelInv
<1>1. command = "label-mutant" /\ original' = original /\ opcodeIndex' = opcodeIndex /\ program' = program
  BY MutantStays
<1>2. /\ MutantInv /\ IsReport(report) /\ report.baseline \in BOOLEAN /\ Borne(original, opcodeIndex, program, report)
      /\ variants \in Seq([program.inputs -> Field])
      /\ phase = "honest" => inputs = original.seed /\ kind = "honest"
      /\ phase \in {"override", "variants"} => Compared(original, program, inputs, honest, kind)
      /\ phase \in {"override", "variants"} /\ report.label = "no-weakening" /\ kind = "rejected"
           => ~Violates(Check, honest)
      /\ phase = "override" => todo \in Seq(Hinted(program) \X Field)
  BY <1>1 DEF LabelInv
<1>3. MutantInv'
  BY <1>2, MutantStep
<1> DEFINE c == original
           i == opcodeIndex
           m == program
<1>4. SUFFICES /\ IsReport(report') /\ report'.baseline \in BOOLEAN /\ Borne(c, i, m, report')
               /\ variants' \in Seq([m.inputs -> Field])
               /\ phase' = "honest" => inputs' = c.seed /\ kind' = "honest"
               /\ phase' \in {"override", "variants"} => Compared(c, m, inputs', honest', kind')
               /\ phase' \in {"override", "variants"} /\ report'.label = "no-weakening" /\ kind' = "rejected"
                    => ~Violates(Check, honest')
               /\ phase' = "override" => todo' \in Seq(Hinted(m) \X Field)
  BY <1>1, <1>3 DEF LabelInv, Check
<1>5. CASE OriginalRejects
  BY <1>2, <1>5 DEF OriginalRejects, labelOwn
<1>6. CASE OriginalRuns
  <2>1. Compared(c, m, inputs, honest', kind) /\ todo' \in Seq(Hinted(m) \X Field)
    BY <1>1, <1>6, HonestCompared
  <2>2. UNCHANGED <<inputs, variants, kind, report>> /\ phase = "honest" /\ phase' = "override"
    BY <1>6 DEF OriginalRuns, labelOwn
  <2> QED BY <1>2, <2>1, <2>2
<1>7. CASE TryAnswer
  <2>1. /\ IsReport(report') /\ report'.baseline \in BOOLEAN /\ Borne(c, i, m, report')
        /\ report'.label = "no-weakening" => report.label = "no-weakening"
    BY <1>1, <1>7, AnswerBorne
  <2>2. UNCHANGED <<inputs, honest, variants, kind>> /\ phase = "override" /\ todo # << >> /\ todo' = Tail(todo)
        /\ phase' \in {"override", "done"}
    BY <1>7 DEF TryAnswer
  <2>3. todo' \in Seq(Hinted(m) \X Field)
    <3> DEFINE T == Hinted(m) \X Field
    <3>1. todo \in Seq(T)
      BY <1>2, <2>2
    <3> HIDE DEF T
    <3>2. Tail(todo) \in Seq(T)
      BY <2>2, <3>1
    <3> QED BY <2>2, <3>2 DEF T
  <2> QED BY <1>2, <2>1, <2>2, <2>3
<1>8. CASE AnswersTimeOut
  <2>1. UNCHANGED <<phase, inputs, honest, variants, kind, report>> /\ todo' = << >>
    BY <1>8 DEF AnswersTimeOut, labelOwn
  <2>2. << >> \in Seq(Hinted(m) \X Field)
    OBVIOUS
  <2> QED BY <1>2, <2>1, <2>2
<1>9. CASE EndAnswers
  <2>1. UNCHANGED <<inputs, honest, kind, report>> /\ phase = "override" /\ phase' = "variants"
        /\ variants' \in {Variants, variants}
    BY <1>9 DEF EndAnswers
  <2>2. Variants \in Seq([m.inputs -> Field])
    BY <1>1, <1>2, <2>1, LabelFacts, VariantsType DEF Compared
  <2>3. variants' \in Seq([m.inputs -> Field])
    BY <1>2, <2>1, <2>2
  <2> QED BY <1>2, <2>1, <2>3
<1>10. CASE TryVariant
  <2>1. /\ Compared(c, m, inputs', honest', kind') /\ todo' \in Seq(Hinted(m) \X Field)
        /\ report'.label = "no-weakening" /\ kind' = "rejected" => ~Violates(Check, honest')
        /\ IsReport(report') /\ report'.baseline \in BOOLEAN /\ Borne(c, i, m, report')
    BY <1>1, <1>10, VariantCompared
  <2>2. phase' = "override" /\ variants' = Tail(variants) /\ variants # << >>
    BY <1>10 DEF TryVariant
  <2>3. variants' \in Seq([m.inputs -> Field])
    BY <1>2, <2>2
  <2> QED BY <2>1, <2>2, <2>3
<1>11. CASE SkipVariant
  <2>1. UNCHANGED <<phase, inputs, honest, todo, kind, report>> /\ variants' = Tail(variants) /\ variants # << >>
    BY <1>11 DEF SkipVariant, overrideVars
  <2>2. variants' \in Seq([m.inputs -> Field])
    BY <1>2, <2>1
  <2> QED BY <1>2, <2>1, <2>2
<1>12. CASE EndVariants
  BY <1>2, <1>12 DEF EndVariants, labelOwn
<1>13. CASE DeadlinePasses /\ UNCHANGED <<fuzzOwn, labelOwn, command>>
  BY <1>2, <1>13 DEF DeadlinePasses, labelOwn
<1>14. CASE UNCHANGED vars
  BY <1>2, <1>14 DEF vars, overrideVars, labelOwn
<1> QED BY <1>1, <1>5, <1>6, <1>7, <1>8, <1>9, <1>10, <1>11, <1>12, <1>13, <1>14 DEF Next, LabelNext, Finished

(* LabelIsJustified, for all circuits, mutants, fields and bounds: what label_mutant
   reports of a mutant has the example that the label promises (label.rs:3, 24).
   Every answer, honest, overridden or supplied in place of a call that failed, is
   held against a run of the mutant on the same inputs; and since a check mentions
   only what is assigned before it, whether it is violated is decided by the run.  *)
THEOREM LabelsAreJustified == Spec => []LabelIsJustified
<1>1. LabelInv => LabelIsJustified
  <2> SUFFICES ASSUME LabelInv, command = "label-mutant" PROVE LabelIsJustified
    BY DEF LabelIsJustified
  <2>1. Borne(original, opcodeIndex, program, report)
    BY DEF LabelInv
  <2> QED BY <2>1 DEF Borne, Broken, Internal, OverAccepted, Nondet, Ambiguous, LabelIsJustified, Check, Honest
<1> QED BY <1>1, InitLabel, LabelStep, PTL DEF Spec
=============================================================================
