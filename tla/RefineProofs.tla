---------------------------- MODULE RefineProofs ----------------------------
(***************************************************************************)
(* Safety of the refinement pass for every circuit and every choice of     *)
(* radius, window, budget and timeouts: a wire it adds is determined, at   *)
(* most one proved wire is lost when the pass is killed, and a grace that  *)
(* covers the start-up and the windows of one witness keeps the scan's     *)
(* brake, and with it an unbounded solver, out of play.                    *)
(***************************************************************************)
EXTENDS Refine, CircuitTheorems, FiniteSetTheorems

(* A non-empty set of naturals has a least element. The library proves well-
   foundedness of < for an operator argument, which the provers do not take;
   the strict subset ordering on the intervals 0..n says the same.           *)
LEMMA LeastWitness ==
  ASSUME NEW S \in SUBSET Nat, S # {}
  PROVE  First(S) \in S
<1> DEFINE T == {0..n : n \in S}
<1>1. T \subseteq FiniteSubsetsOf(Nat) /\ T # {}
  <2>1. ASSUME NEW n \in S
        PROVE  0..n \in FiniteSubsetsOf(Nat)
    <3>1. n \in Int /\ 0 \in Int /\ 0..n \subseteq Nat
      OBVIOUS
    <3>2. IsFiniteSet(0..n)
      BY <3>1, FS_Interval
    <3> QED BY <3>1, <3>2 DEF FiniteSubsetsOf
  <2> QED BY <2>1
<1>2. PICK I \in T : \A J \in T : <<J, I>> \notin StrictSubsetOrdering(Nat)
  BY <1>1, FS_StrictSubsetOrderingWellFounded, WFMin
<1>3. PICK n \in S : I = 0..n
  OBVIOUS
<1>4. ASSUME NEW k \in S, k < n
      PROVE  FALSE
  <2>1. 0..k \subseteq 0..n /\ n \in 0..n /\ n \notin 0..k
    BY <1>4
  <2>2. 0..k \in T /\ 0..k \in SUBSET Nat /\ 0..n \in SUBSET Nat
    BY <1>4
  <2> QED BY <1>2, <1>3, <2>1, <2>2 DEF StrictSubsetOrdering
<1>5. \A k \in S : n <= k
  BY <1>4
<1> QED BY <1>5 DEF First

(* refine-circuit's own model, without proved callees, means the same circuit,
   and it is as sound as the model of the scan.                              *)
LEMMA ChildFacts ==
  ASSUME m \in Models
  PROVE  /\ WellFormed(ChildModel) /\ SoundModel(ChildModel)
         /\ ChildModel.wires = m.wires
         /\ \A w : Unique(ChildModel, w) <=> Unique(m, w)
<1>1. WellFormed(m) /\ SoundModel(m)
  BY ModelsWellFormed, ModelsSound
<1>2. /\ ChildModel.wires = m.wires /\ ChildModel.inputs = m.inputs
      /\ ChildModel.opcodes = m.opcodes /\ ChildModel.consts = m.consts
      /\ ChildModel.known = m.known /\ ChildModel.proved = {}
      /\ DOMAIN ChildModel = DOMAIN m
  BY <1>1 DEF ChildModel, WellFormed
<1>3. /\ Ops(ChildModel) = Ops(m) /\ Assignments(ChildModel) = Assignments(m)
      /\ Solutions(ChildModel) = Solutions(m)
  BY <1>2 DEF Ops, Assignments, Solutions
<1>4. \A w : Unique(ChildModel, w) <=> Unique(m, w)
  BY <1>2, <1>3 DEF Unique
<1>5. WellFormed(ChildModel)
  BY <1>1, <1>2, <1>3 DEF WellFormed, LocalOpcode, OnOwnWires
<1>6. ASSUME NEW o \in Ops(ChildModel), Treatment(ChildModel, o) = "functional"
      PROVE  IsFunction(ChildModel, o)
  <2>1. Treatment(m, o) = "functional"
    BY <1>2, <1>6 DEF Treatment
  <2> QED BY <1>1, <1>3, <2>1 DEF SoundModel, IsFunction
<1>7. SoundModel(ChildModel)
  BY <1>1, <1>2, <1>3, <1>4, <1>6 DEF SoundModel
<1> QED BY <1>2, <1>4, <1>5, <1>7

-----------------------------------------------------------------------------
(* Soundness: what is proved, written and read is determined. *)

(* A witness is being worked on, and an `unsat` of its window stands. *)
WindowInv ==
  /\ pc \in {"radius", "window", "print"} => todo # {}
  /\ pc = "window" /\ windowPc = "unsat" => WindowPairs = {}
  /\ pc = "print" => witness \in known

ProofInv ==
  /\ KnownSound
  /\ \A w \in output : Unique(m, w)

(* What is lost between proving a wire and reading it: nothing, or the one
   wire whose line was being written.                                        *)
Behind(w) == known \subseteq m.known \cup output \cup {w}

OutputInv ==
  /\ m.known \subseteq determined
  /\ pc \notin {"print", "killed"} /\ ~ioFailed => known \subseteq m.known \cup output
  /\ pc = "print" /\ ~ioFailed => Behind(witness)
  /\ pc = "killed" /\ ~ioFailed => \E w \in m.wires \cup {0} : Behind(w)
  /\ scanPc = "spawn" => pc = "none"
  /\ scanPc = "waiting" => pc \notin {"none", "killed"}
  /\ scanPc \in {"reading", "done"} => pc \in {"none", "exited", "killed"}
  /\ scanPc = "done" /\ pc # "none" /\ ~ioFailed => output \subseteq determined
  /\ pc = "none" => output = {}

IInv == TypeOK /\ WindowInv /\ ProofInv /\ OutputInv

LEMMA WitnessFacts ==
  ASSUME TypeOK, todo # {}
  PROVE  witness \in todo /\ witness \in m.wires
BY LeastWitness, WiresAreNaturals DEF TypeOK, witness

(* An `unsat` of the window proves its witness: the determined wires the
   window leans on are determined.                                           *)
LEMMA UnsatWitness ==
  ASSUME TypeOK, KnownSound, WindowPairs = {}
  PROVE  Unique(m, witness)
<1>1. m \in Models
  BY DEF TypeOK
<1>2. \A w \in known : Unique(ChildModel, w)
  BY <1>1, ChildFacts DEF KnownSound
<1> QED BY <1>1, <1>2, ChildFacts, UnsatIsUnique DEF WindowPairs

LEMMA InitInv == Init => IInv
<1> SUFFICES ASSUME Init PROVE IInv
  OBVIOUS
<1>1. WellFormed(m) /\ SoundModel(m) /\ m \in Models
  BY ModelsWellFormed, ModelsSound DEF Init
<1>2. TypeOK
  <2>1. now \in 0..MaxTime /\ radius \in Nat /\ deadline \in Nat /\ windowDeadline \in Nat
    BY TimesAreNaturals DEF Init
  <2>2. progressed \in BOOLEAN /\ ioFailed \in BOOLEAN /\ missed \in BOOLEAN
    BY DEF Init
  <2>3. known \subseteq m.wires /\ determined \subseteq m.wires
    BY <1>1 DEF Init, WellFormed
  <2> QED BY <1>1, <2>1, <2>2, <2>3 DEF Init, TypeOK
<1>3. WindowInv /\ ProofInv
  BY <1>1 DEF Init, WindowInv, ProofInv, KnownSound, SoundModel
<1>4. OutputInv
  BY DEF Init, OutputInv
<1> QED BY <1>2, <1>3, <1>4 DEF IInv

(* The scan's steps. *)
LEMMA ScanStepInv == IInv /\ ScanStep => IInv'
<1> SUFFICES ASSUME IInv, ScanStep PROVE IInv'
  OBVIOUS
<1>1. /\ TypeOK /\ WindowInv /\ ProofInv /\ OutputInv
      /\ UNCHANGED <<m, now, known, todo, radius, progressed, deadline, output, windowPc, windowDeadline>>
  BY DEF IInv, ScanStep, ScanSpawn, ScanSpawnFails, ScanReap, ScanKill, ScanRead, sweepVars,
         ioVars, windowVars
<1>2. TypeOK'
  <2>1. scanPc' \in {"waiting", "reading", "done"} /\ pc' \in {pc, "starting", "killed"}
    BY DEF ScanStep, ScanSpawn, ScanSpawnFails, ScanReap, ScanKill, ScanRead, sweepVars
  <2>2. determined' \subseteq m.wires
    BY <1>1 DEF TypeOK, ScanStep, ScanSpawn, ScanSpawnFails, ScanReap, ScanKill, ScanRead
  <2>3. ioFailed' \in BOOLEAN /\ missed' \in BOOLEAN
    <3>1. ioFailed' \in {ioFailed, TRUE} /\ missed' \in {missed, TRUE}
      BY DEF ScanStep, ScanSpawn, ScanSpawnFails, ScanReap, ScanKill, ScanRead, ioVars
    <3> QED BY <1>1, <3>1 DEF TypeOK
  <2> QED BY <1>1, <2>1, <2>2, <2>3 DEF TypeOK
<1>3. WindowInv'
  <2>1. pc' \in {pc, "starting", "killed"}
    BY DEF ScanStep, ScanSpawn, ScanSpawnFails, ScanReap, ScanKill, ScanRead, sweepVars
  <2> QED BY <1>1, <2>1 DEF WindowInv, WindowPairs, Window, witness, ChildModel
<1>4. ProofInv'
  <2>1. determined' \subseteq determined \cup output
    BY DEF ScanStep, ScanSpawn, ScanSpawnFails, ScanReap, ScanKill, ScanRead
  <2> QED BY <1>1, <2>1 DEF ProofInv, KnownSound
<1>5. OutputInv'
  <2>1. CASE ScanSpawn
    BY <1>1, <2>1 DEF OutputInv, ScanSpawn, Behind, ioVars
  <2>2. CASE ScanSpawnFails
    BY <1>1, <2>2 DEF OutputInv, ScanSpawnFails, Behind, ioVars, sweepVars
  <2>3. CASE ScanReap
    BY <1>1, <2>3 DEF OutputInv, ScanReap, Behind, ioVars, sweepVars
  <2>4. CASE ScanKill
    <3>1. pc' = "killed" /\ scanPc = "waiting" /\ scanPc' = "reading"
          /\ pc # "none" /\ UNCHANGED <<m, determined, ioFailed>>
      BY <1>1, <2>4 DEF OutputInv, ScanKill
    <3>2. ~ioFailed => \E w \in m.wires \cup {0} : Behind(w)
      <4>1. CASE pc = "print"
        <5>1. witness \in m.wires
          BY <1>1, <4>1, WitnessFacts DEF WindowInv
        <5> QED BY <1>1, <4>1, <5>1 DEF OutputInv
      <4>2. CASE pc # "print" /\ ~ioFailed
        <5>1. Behind(0)
          BY <1>1, <3>1, <4>2 DEF OutputInv, Behind
        <5> QED BY <5>1
      <4> QED BY <4>1, <4>2
    <3> QED BY <1>1, <3>1, <3>2 DEF OutputInv, Behind
  <2>5. CASE ScanRead
    BY <1>1, <2>5 DEF OutputInv, ScanRead, Behind, sweepVars
  <2> QED BY <2>1, <2>2, <2>3, <2>4, <2>5 DEF ScanStep
<1> QED BY <1>2, <1>3, <1>4, <1>5 DEF IInv

(* The steps of refine-circuit before and after a proof: the sweep, the
   radii, the windows that prove nothing.                                     *)
LEMMA QuietStepInv ==
  ASSUME IInv,
         Load \/ LoadFails \/ NextWitness \/ EndSweep \/ SkipWindow \/ SpawnWindow
           \/ SpawnWindowFails \/ TakeOther \/ KillWindow
  PROVE  IInv'
<1> DEFINE quiet == Load \/ LoadFails \/ NextWitness \/ EndSweep \/ SkipWindow \/ SpawnWindow
                      \/ SpawnWindowFails \/ TakeOther \/ KillWindow
<1>1. /\ TypeOK /\ WindowInv /\ ProofInv /\ OutputInv
      /\ UNCHANGED <<m, now, known, output, ioFailed, scanPc, determined>>
  BY DEF IInv, Load, LoadFails, NextWitness, EndSweep, SkipWindow, SpawnWindow,
         SpawnWindowFails, TakeOther, KillWindow, scanVars, ioVars
<1>2. /\ pc' \in {"sweep", "radius", "window", "exited"}
      /\ todo' \subseteq todo \cup m.wires
      /\ radius' \in {radius, radius + 1, 1}
      /\ progressed' \in {progressed, FALSE}
      /\ deadline' \in {deadline, now + Budget}
      /\ windowPc' \in {windowPc, "none", "running"}
      /\ windowDeadline' \in {windowDeadline, now + WindowBudget}
  BY DEF Load, LoadFails, StartSweep, UndeterminedWitnesses, NextWitness, EndSweep, SkipWindow,
         SpawnWindow, SpawnWindowFails, TakeOther, KillWindow, GiveUpRadius, windowVars
<1>3. missed' \in BOOLEAN
  BY <1>1 DEF TypeOK, Load, LoadFails, NextWitness, EndSweep, SkipWindow, SpawnWindow,
              SpawnWindowFails, TakeOther, KillWindow, Miss, ioVars
<1>4. TypeOK'
  <2>1. deadline' \in Nat /\ windowDeadline' \in Nat /\ radius' \in Nat
    BY <1>1, <1>2, TimesAreNaturals DEF TypeOK
  <2>2. progressed' \in BOOLEAN
    BY <1>1, <1>2 DEF TypeOK
  <2> QED BY <1>1, <1>2, <1>3, <2>1, <2>2 DEF TypeOK
<1>5. WindowInv'
  <2>1. pc' \in {"radius", "window"} => todo' # {}
    BY <1>1 DEF WindowInv, Load, LoadFails, StartSweep, NextWitness, EndSweep, SkipWindow,
                SpawnWindow, SpawnWindowFails, TakeOther, KillWindow, GiveUpRadius
  <2>2. pc' = "window" => windowPc' = "running"
    BY DEF Load, LoadFails, StartSweep, NextWitness, EndSweep, SkipWindow,
           SpawnWindow, SpawnWindowFails, TakeOther, KillWindow, GiveUpRadius
  <2> QED BY <1>2, <2>1, <2>2 DEF WindowInv
<1>6. ProofInv'
  BY <1>1 DEF ProofInv, KnownSound
<1>7. OutputInv'
  <2>1. pc \in {"starting", "sweep", "radius", "window"}
    BY DEF Load, LoadFails, NextWitness, EndSweep, SkipWindow, SpawnWindow, SpawnWindowFails,
           TakeOther, KillWindow
  <2> QED BY <1>1, <1>2, <2>1 DEF OutputInv, Behind
<1> QED BY <1>4, <1>5, <1>6, <1>7 DEF IInv

(* The step that proves a wire. *)
LEMMA TakeUnsatInv == IInv /\ TakeUnsat => IInv'
<1> SUFFICES ASSUME IInv, TakeUnsat PROVE IInv'
  OBVIOUS
<1>1. /\ pc = "window" /\ windowPc = "unsat" /\ pc' = "print" /\ windowPc' = "none"
      /\ known' = known \cup {witness}
      /\ UNCHANGED <<m, now, scanPc, determined, todo, radius, progressed, deadline,
                     output, ioFailed, missed, windowDeadline>>
  BY DEF TakeUnsat, scanVars, ioVars
<1>2. TypeOK /\ WindowInv /\ ProofInv /\ OutputInv /\ todo # {}
  BY <1>1 DEF IInv, WindowInv
<1>3. witness \in m.wires
  BY <1>2, WitnessFacts
<1>4. TypeOK'
  BY <1>1, <1>2, <1>3 DEF TypeOK
<1>5. WindowInv'
  BY <1>1, <1>2 DEF WindowInv, witness
<1>6. ProofInv'
  <2>1. Unique(m, witness)
    BY <1>1, <1>2, UnsatWitness DEF WindowInv, ProofInv
  <2> QED BY <1>1, <1>2, <2>1 DEF ProofInv, KnownSound
<1>7. OutputInv'
  <2>1. witness' = witness
    BY <1>1 DEF witness
  <2>2. ~ioFailed' => Behind(witness)'
    BY <1>1, <1>2, <2>1 DEF OutputInv, Behind
  <2>3. scanPc # "spawn" /\ scanPc # "reading" /\ scanPc # "done"
    BY <1>1, <1>2 DEF OutputInv
  <2> QED BY <1>1, <1>2, <2>2, <2>3 DEF OutputInv
<1> QED BY <1>4, <1>5, <1>6, <1>7 DEF IInv

LEMMA PrintWireInv == IInv /\ PrintWire => IInv'
<1> SUFFICES ASSUME IInv, PrintWire PROVE IInv'
  OBVIOUS
<1>1. /\ pc = "print" /\ pc' = "sweep" /\ progressed' = TRUE /\ todo' = todo \ {witness}
      /\ UNCHANGED <<m, now, scanPc, determined, known, radius, deadline, missed,
                     windowPc, windowDeadline>>
      /\ \/ output' = output \cup {witness} /\ UNCHANGED ioFailed
         \/ ioFailed' = TRUE /\ UNCHANGED output
  BY DEF PrintWire, scanVars, windowVars
<1>2. TypeOK /\ WindowInv /\ ProofInv /\ OutputInv /\ todo # {}
  BY <1>1 DEF IInv, WindowInv
<1>3. witness \in m.wires
  BY <1>2, WitnessFacts
<1>4. TypeOK'
  <2>1. progressed' \in BOOLEAN /\ ioFailed' \in BOOLEAN
    BY <1>1, <1>2 DEF TypeOK
  <2>2. output' \subseteq m.wires /\ todo' \subseteq m.wires
    BY <1>1, <1>2, <1>3 DEF TypeOK
  <2> QED BY <1>1, <1>2, <2>1, <2>2 DEF TypeOK
<1>5. WindowInv'
  BY <1>1 DEF WindowInv
<1>6. ProofInv'
  <2>1. Unique(m, witness)
    BY <1>1, <1>2 DEF WindowInv, ProofInv, KnownSound
  <2> QED BY <1>1, <1>2, <2>1 DEF ProofInv, KnownSound
<1>7. OutputInv'
  <2>1. ~ioFailed' => known' \subseteq m.known \cup output'
    BY <1>1, <1>2 DEF OutputInv, Behind
  <2>2. scanPc # "spawn" /\ scanPc # "reading" /\ scanPc # "done"
    BY <1>1, <1>2 DEF OutputInv
  <2> QED BY <1>1, <1>2, <2>1, <2>2 DEF OutputInv
<1> QED BY <1>4, <1>5, <1>6, <1>7 DEF IInv

(* The window's answers, the clock, and steps of no process. *)
LEMMA OtherStepInv ==
  ASSUME IInv, WindowUnsat \/ WindowOther \/ Tick \/ Done \/ UNCHANGED vars
  PROVE  IInv'
<1>1. /\ TypeOK /\ WindowInv /\ ProofInv /\ OutputInv
      /\ UNCHANGED <<m, scanVars, sweepVars, ioVars, windowDeadline>>
  BY DEF IInv, WindowUnsat, WindowOther, Tick, Done, vars, windowVars
<1>2. UNCHANGED <<m, scanPc, determined, pc, known, todo, radius, progressed, deadline,
                  output, ioFailed, missed, windowDeadline>>
  BY <1>1 DEF scanVars, sweepVars, ioVars
<1>3. TypeOK'
  <2>1. now' \in 0..MaxTime
    BY <1>1, TimesAreNaturals DEF TypeOK, WindowUnsat, WindowOther, Tick, Done, vars
  <2>2. windowPc' \in {"none", "running", "unsat", "other"}
    BY <1>1 DEF TypeOK, WindowUnsat, WindowOther, Tick, Done, vars, windowVars
  <2> QED BY <1>1, <1>2, <2>1, <2>2 DEF TypeOK
<1>4. WindowInv'
  <2>1. WindowPairs' = WindowPairs /\ witness' = witness
    BY <1>2 DEF WindowPairs, Window, witness, ChildModel
  <2>2. windowPc' = "unsat" => windowPc = "unsat" \/ WindowPairs = {}
    BY DEF WindowUnsat, WindowOther, Tick, Done, vars, windowVars
  <2> QED BY <1>1, <1>2, <2>1, <2>2 DEF WindowInv
<1>5. ProofInv' /\ OutputInv'
  BY <1>1, <1>2 DEF ProofInv, KnownSound, OutputInv, Behind, witness
<1> QED BY <1>3, <1>4, <1>5 DEF IInv

LEMMA NextInv == IInv /\ [Next]_vars => IInv'
<1> SUFFICES ASSUME IInv, [Next]_vars PROVE IInv'
  OBVIOUS
<1>1. CASE ScanStep
  BY <1>1, ScanStepInv
<1>2. CASE Load \/ LoadFails \/ NextWitness \/ EndSweep \/ SkipWindow \/ SpawnWindow
             \/ SpawnWindowFails \/ TakeOther \/ KillWindow
  BY <1>2, QuietStepInv
<1>3. CASE TakeUnsat
  BY <1>3, TakeUnsatInv
<1>4. CASE PrintWire
  BY <1>4, PrintWireInv
<1>5. CASE WindowUnsat \/ WindowOther \/ Tick \/ Done \/ UNCHANGED vars
  BY <1>5, OtherStepInv
<1> QED BY <1>1, <1>2, <1>3, <1>4, <1>5 DEF Next, SweepStep

(* The inductive invariant. *)
THEOREM SpecInv == Spec => []IInv
BY InitInv, NextInv, PTL DEF Spec

(* Types. *)
THEOREM TypeCorrect == Spec => []TypeOK
<1>1. IInv => TypeOK
  BY DEF IInv
<1> QED BY <1>1, SpecInv, PTL

(* Refinement never adds a wire that is not determined. *)
THEOREM RefinementIsSound == Spec => []KnownSound
<1>1. IInv => KnownSound
  BY DEF IInv, ProofInv
<1> QED BY <1>1, SpecInv, PTL

(* A kill at any moment loses at most the wire being written. *)
THEOREM KillKeepsProved == Spec => []KeepsProved
<1>1. IInv => KeepsProved
  <2> SUFFICES ASSUME IInv, scanPc = "done", ~ioFailed
               PROVE  Cardinality(known \ determined) <= 1
    BY DEF KeepsProved
  <2>1. \E w : known \ determined \subseteq {w}
    <3>1. OutputInv /\ pc \in {"none", "exited", "killed"}
      BY DEF IInv, OutputInv
    <3>2. CASE pc # "killed"
      BY <3>1, <3>2 DEF OutputInv
    <3>3. CASE pc = "killed"
      BY <3>1, <3>3 DEF OutputInv, Behind
    <3> QED BY <3>2, <3>3
  <2>2. PICK w : known \ determined \subseteq {w}
    BY <2>1
  <2>3. Cardinality({w}) = 1 /\ IsFiniteSet({w})
    BY FS_Singleton
  <2>4. Cardinality(known \ determined) <= Cardinality({w})
    BY <2>2, <2>3, FS_Subset
  <2> QED BY <2>3, <2>4
<1> QED BY <1>1, SpecInv, PTL

-----------------------------------------------------------------------------
(* Timing: when the grace covers what refine-circuit may spend outside its
   own budget, it always stops before the scan's brake.                       *)

GraceCovers == Budget > 0 /\ StartupMax + MaxRadius * WindowBudget <= Grace

(* What r windows may take. *)
Span(r) == r * WindowBudget

(* The clock against the deadlines, by where refine-circuit is: within a
   witness the radii so far have had a window each, beyond the budget that was
   looked at before the first.                                                 *)
ClockInv ==
  /\ pc # "killed"
  /\ windowPc = "running" => pc = "window" /\ now <= windowDeadline
  /\ pc \in {"none", "starting"} => now <= StartupMax
  /\ pc \in {"sweep", "print"} => now < deadline + Span(MaxRadius)
  /\ pc = "radius" => radius # 0 /\ now < deadline + Span(radius - 1)
  /\ pc = "window" =>
       radius \in 1..MaxRadius /\ now < deadline + Span(radius) /\
       windowDeadline < deadline + Span(radius)
  /\ pc = "radius" => radius <= MaxRadius \/ radius = 1
  /\ pc \in {"sweep", "print", "radius", "window"} => deadline <= StartupMax + Budget

LEMMA SpanFacts ==
  ASSUME NEW r \in Nat
  PROVE  /\ Span(r) \in Nat /\ Span(0) = 0
         /\ Span(r + 1) = Span(r) + WindowBudget
         /\ r <= MaxRadius => Span(r) <= Span(MaxRadius)
<1>1. WindowBudget \in Nat /\ MaxRadius \in Nat
  BY TimesAreNaturals
<1>2. Span(r) \in Nat /\ Span(0) = 0
  BY <1>1 DEF Span
<1>3. Span(r + 1) = Span(r) + WindowBudget
  BY <1>1 DEF Span
<1>4. ASSUME r <= MaxRadius
      PROVE  Span(r) <= Span(MaxRadius)
  <2>1. PICK d \in Nat : MaxRadius = r + d
    BY <1>1, <1>4
  <2>2. (r + d) * WindowBudget = r * WindowBudget + d * WindowBudget
    BY <1>1
  <2>3. d * WindowBudget \in Nat
    BY <1>1
  <2> QED BY <1>1, <2>1, <2>2, <2>3 DEF Span
<1> QED BY <1>2, <1>3, <1>4

(* Before the scan's deadline wherever it is. *)
LEMMA BeforeTheBrake ==
  ASSUME GraceCovers, TypeOK, ClockInv, pc \notin {"exited", "killed"}
  PROVE  now < ScanDeadline
<1>1. /\ StartupMax \in Nat /\ Budget \in Nat /\ Grace \in Nat /\ MaxRadius \in Nat
      /\ now \in Nat /\ radius \in Nat /\ deadline \in Nat
  BY TimesAreNaturals DEF TypeOK
<1>2. Span(MaxRadius) \in Nat /\ Budget > 0 /\ StartupMax + Span(MaxRadius) <= Grace
  BY <1>1, SpanFacts DEF GraceCovers, Span
<1>3. CASE pc \in {"none", "starting"}
  BY <1>1, <1>2, <1>3 DEF ClockInv, ScanDeadline
<1>4. CASE pc \in {"sweep", "print"}
  BY <1>1, <1>2, <1>4 DEF ClockInv, ScanDeadline
<1>5. CASE pc = "radius"
  <2>1. radius - 1 \in Nat /\ radius - 1 <= MaxRadius
    BY <1>1, <1>5 DEF ClockInv
  <2>2. Span(radius - 1) \in Nat /\ Span(radius - 1) <= Span(MaxRadius)
    BY <2>1, SpanFacts
  <2> QED BY <1>1, <1>2, <1>5, <2>2 DEF ClockInv, ScanDeadline
<1>6. CASE pc = "window"
  <2>1. radius <= MaxRadius
    BY <1>1, <1>6 DEF ClockInv
  <2>2. Span(radius) \in Nat /\ Span(radius) <= Span(MaxRadius)
    BY <1>1, <2>1, SpanFacts
  <2> QED BY <1>1, <1>2, <1>6, <2>2 DEF ClockInv, ScanDeadline
<1> QED BY <1>3, <1>4, <1>5, <1>6 DEF TypeOK

(* Giving up a radius moves to the next one, or to the next witness. *)
LEMMA GiveUpRadiusClock ==
  ASSUME TypeOK, ClockInv, pc \in {"radius", "window"}, GiveUpRadius,
         UNCHANGED <<now, deadline>>, windowPc' # "running"
  PROVE  ClockInv'
<1>1. /\ now \in Nat /\ radius \in Nat /\ deadline \in Nat /\ MaxRadius \in Nat
      /\ radius' = radius + 1
  BY TimesAreNaturals DEF TypeOK, GiveUpRadius
<1>2. now < deadline + Span(radius)
  <2>1. CASE pc = "window"
    BY <2>1 DEF ClockInv
  <2>2. CASE pc = "radius"
    <3>1. radius - 1 \in Nat /\ (radius - 1) + 1 = radius
      BY <1>1, <2>2 DEF ClockInv
    <3>2. /\ Span(radius) = Span(radius - 1) + WindowBudget
          /\ Span(radius - 1) \in Nat /\ WindowBudget \in Nat
      BY <3>1, SpanFacts, TimesAreNaturals
    <3> QED BY <1>1, <2>2, <3>2 DEF ClockInv
  <2> QED BY <2>1, <2>2
<1>3. CASE radius >= MaxRadius
  <2>1. pc' = "sweep"
    BY <1>3 DEF GiveUpRadius
  <2>2. now < deadline + Span(MaxRadius)
    <3>1. CASE radius = MaxRadius
      BY <1>2, <3>1
    <3>2. CASE radius # MaxRadius
      <4>1. pc = "radius" /\ radius = 1
        BY <1>1, <1>3, <3>2 DEF ClockInv
      <4>2. now < deadline + Span(0)
        BY <4>1 DEF ClockInv
      <4>3. Span(MaxRadius) \in Nat /\ Span(0) = 0
        BY <1>1, SpanFacts
      <4> QED BY <1>1, <4>2, <4>3
    <3> QED BY <3>1, <3>2
  <2> QED BY <2>1, <2>2 DEF ClockInv
<1>4. CASE radius < MaxRadius
  <2>1. pc' = "radius"
    BY <1>1, <1>4 DEF GiveUpRadius
  <2>2. radius' - 1 = radius
    BY <1>1
  <2> QED BY <1>1, <1>2, <1>4, <2>1, <2>2 DEF ClockInv
<1> QED BY <1>1, <1>3, <1>4

LEMMA ClockInit == Init => ClockInv
<1> SUFFICES ASSUME Init PROVE ClockInv
  OBVIOUS
<1>1. now <= StartupMax
  BY TimesAreNaturals DEF Init
<1> QED BY <1>1 DEF Init, ClockInv

LEMMA ClockStep == GraceCovers /\ IInv /\ ClockInv /\ [Next]_vars => ClockInv'
<1> SUFFICES ASSUME GraceCovers, TypeOK, OutputInv, ClockInv, [Next]_vars
             PROVE  ClockInv'
  BY DEF IInv
<1> USE TimesAreNaturals
<1>1. /\ now \in Nat /\ deadline \in Nat /\ windowDeadline \in Nat /\ radius \in Nat
      /\ Span(MaxRadius) \in Nat /\ Span(0) = 0
  BY SpanFacts DEF TypeOK
<1>2. CASE ScanSpawn
  BY <1>1, <1>2 DEF ScanSpawn, windowVars, ClockInv, OutputInv
<1>3. CASE ScanSpawnFails \/ ScanReap \/ ScanRead
  BY <1>3 DEF ScanSpawnFails, ScanReap, ScanRead, sweepVars, windowVars, ClockInv
<1>4. CASE ScanKill
  <2>1. pc \in {"none", "starting", "sweep", "print", "radius", "window"}
    BY <1>4 DEF TypeOK, ScanKill, ClockInv
  <2>2. now < ScanDeadline
    BY <2>1, BeforeTheBrake
  <2>3. ScanDeadline \in Nat
    BY DEF ScanDeadline
  <2> QED BY <1>1, <1>4, <2>2, <2>3 DEF ScanKill
<1>5. CASE Load
  <2>1. /\ pc' = "sweep" /\ now' = now /\ deadline' = now + Budget /\ now <= StartupMax
        /\ windowPc' = windowPc /\ windowPc # "running"
    BY <1>5 DEF Load, StartSweep, windowVars, ClockInv
  <2>2. now' < deadline' + Span(MaxRadius) /\ deadline' <= StartupMax + Budget
    BY <1>1, <2>1 DEF GraceCovers
  <2> QED BY <2>1, <2>2 DEF ClockInv
<1>6. CASE LoadFails
  BY <1>6 DEF LoadFails, windowVars, ClockInv
<1>7. CASE NextWitness
  <2>1. /\ UNCHANGED <<now, deadline, windowPc>> /\ radius' = 1 /\ windowPc # "running"
        /\ deadline <= StartupMax + Budget
        /\ \/ pc' = "exited"
           \/ pc' = "radius" /\ ~(now >= deadline)
    BY <1>7 DEF NextWitness, windowVars, ClockInv
  <2>2. radius' - 1 = 0
    BY <2>1
  <2> QED BY <1>1, <2>1, <2>2 DEF ClockInv
<1>8. CASE EndSweep
  BY <1>8 DEF EndSweep, StartSweep, windowVars, ClockInv
<1>9. CASE SkipWindow
  <2>1. windowPc' # "running"
    BY <1>9 DEF SkipWindow, windowVars, ClockInv
  <2> QED BY <1>9, <2>1, GiveUpRadiusClock DEF SkipWindow
<1>10. CASE SpawnWindow
  <2>1. /\ pc = "radius" /\ pc' = "window" /\ windowDeadline' = now + WindowBudget
        /\ UNCHANGED <<now, deadline, radius>> /\ MaxRadius > 0
        /\ radius # 0 /\ now < deadline + Span(radius - 1) /\ (radius <= MaxRadius \/ radius = 1)
        /\ deadline <= StartupMax + Budget
    BY <1>10 DEF SpawnWindow, ClockInv
  <2>2. radius - 1 \in Nat /\ radius \in 1..MaxRadius
    BY <1>1, <1>10, <2>1 DEF ClockInv, SpawnWindow
  <2>3. Span((radius - 1) + 1) = Span(radius - 1) + WindowBudget /\ Span(radius - 1) \in Nat
    BY <2>2, SpanFacts
  <2>4. Span(radius) = Span(radius - 1) + WindowBudget
    <3>1. (radius - 1) + 1 = radius
      BY <1>1
    <3> QED BY <2>3, <3>1
  <2>5. now < deadline + Span(radius - 1)
    BY <1>10 DEF SpawnWindow, ClockInv
  <2>6. now' <= windowDeadline' /\ now' < deadline' + Span(radius') /\
        windowDeadline' < deadline' + Span(radius')
    BY <1>1, <2>1, <2>3, <2>4, <2>5
  <2> QED BY <2>1, <2>2, <2>6 DEF ClockInv
<1>11. CASE SpawnWindowFails
  <2>1. windowPc' # "running"
    BY <1>11 DEF SpawnWindowFails, windowVars, ClockInv
  <2> QED BY <1>11, <2>1, GiveUpRadiusClock DEF SpawnWindowFails
<1>12. CASE TakeUnsat
  <2>1. /\ pc = "window" /\ pc' = "print" /\ windowPc' = "none" /\ UNCHANGED <<now, deadline>>
        /\ radius <= MaxRadius /\ now < deadline + Span(radius) /\ deadline <= StartupMax + Budget
    BY <1>1, <1>12 DEF TakeUnsat, ClockInv
  <2>2. Span(radius) \in Nat /\ Span(radius) <= Span(MaxRadius)
    BY <1>1, <2>1, SpanFacts
  <2> QED BY <1>1, <2>1, <2>2 DEF ClockInv
<1>13. CASE PrintWire
  BY <1>13 DEF PrintWire, windowVars, ClockInv
<1>14. CASE TakeOther \/ KillWindow
  BY <1>14, GiveUpRadiusClock DEF TakeOther, KillWindow
<1>15. CASE WindowUnsat \/ WindowOther
  BY <1>15 DEF WindowUnsat, WindowOther, sweepVars, ClockInv
<1>16. CASE Tick
  <2>1. /\ UNCHANGED <<pc, radius, deadline, windowPc, windowDeadline>> /\ now' = now + 1
        /\ \/ pc = "starting" /\ now < StartupMax
           \/ windowPc = "running" /\ (pc = "window" => now < windowDeadline)
    BY <1>16 DEF Tick, sweepVars, windowVars
  <2>2. CASE pc = "starting"
    BY <1>1, <2>1, <2>2 DEF ClockInv
  <2>3. CASE pc # "starting"
    <3>1. pc = "window" /\ now < windowDeadline /\ windowDeadline < deadline + Span(radius)
      BY <2>1, <2>3 DEF ClockInv
    <3>2. radius \in Nat /\ Span(radius) \in Nat
      BY <1>1, SpanFacts
    <3>3. now' <= windowDeadline' /\ now' < deadline' + Span(radius')
      BY <1>1, <2>1, <3>1, <3>2
    <3> QED BY <2>1, <3>1, <3>3 DEF ClockInv
  <2> QED BY <2>2, <2>3
<1>17. CASE Done \/ UNCHANGED vars
  BY <1>17 DEF Done, vars, sweepVars, windowVars, ClockInv
<1> QED BY <1>2, <1>3, <1>4, <1>5, <1>6, <1>7, <1>8, <1>9, <1>10, <1>11, <1>12, <1>13, <1>14,
           <1>15, <1>16, <1>17 DEF Next, ScanStep, SweepStep

(* With such a grace the scan never has to kill refine-circuit... *)
THEOREM GraceSuffices ==
  ASSUME GraceCovers
  PROVE  Spec => []NeverKilled
<1>1. Init => ClockInv
  BY ClockInit
<1>2. IInv /\ ClockInv /\ [Next]_vars => ClockInv'
  BY ClockStep
<1>3. ClockInv => NeverKilled
  BY DEF ClockInv, NeverKilled
<1> QED BY <1>1, <1>2, <1>3, SpecInv, PTL DEF Spec

(* ... and no window outlives its deadline. *)
THEOREM GraceBoundsWindows ==
  ASSUME GraceCovers
  PROVE  Spec => []WindowDeadline
<1>1. Init => ClockInv
  BY ClockInit
<1>2. IInv /\ ClockInv /\ [Next]_vars => ClockInv'
  BY ClockStep
<1>3. ClockInv => WindowDeadline
  BY DEF ClockInv, WindowDeadline
<1> QED BY <1>1, <1>2, <1>3, SpecInv, PTL DEF Spec

-----------------------------------------------------------------------------
(* Completeness of the sweeps: a pass that ends by itself is at a fixpoint. *)

Hopeless(w, radii) == \A r \in radii : ~Provable(known, w, r)

(* As long as this sweep proved nothing, the determined set is the one every
   finished witness was looked at with; within a witness, the radii before the
   current one have failed.                                                   *)
FixpointInv ==
  /\ pc \in {"sweep", "radius", "window"} /\ ~missed /\ ~progressed =>
       \A w \in UndeterminedWitnesses(known) \ todo : Hopeless(w, 1..MaxRadius)
  /\ pc \in {"radius", "window"} /\ ~missed => Hopeless(witness, 1..(radius - 1))
  /\ pc \in {"radius", "window"} => radius # 0
  /\ SweepsToFixpoint

(* This radius is over, and its window proves nothing. *)
LEMMA GiveUpRadiusFixpoint ==
  ASSUME TypeOK, FixpointInv, pc \in {"radius", "window"}, GiveUpRadius,
         UNCHANGED <<m, known, progressed>>,
         ~missed' => ~missed /\ ~Provable(known, witness, radius)
  PROVE  FixpointInv'
<1>1. radius \in Nat /\ MaxRadius \in Nat /\ radius' = radius + 1 /\ radius # 0
  BY TimesAreNaturals DEF TypeOK, GiveUpRadius, FixpointInv
<1>2. ~missed' => Hopeless(witness, 1..radius)
  BY <1>1 DEF FixpointInv, Hopeless
<1>3. /\ UndeterminedWitnesses(known)' = UndeterminedWitnesses(known)
      /\ \A w, r : Provable(known, w, r)' <=> Provable(known, w, r)
      /\ \A w, R : Hopeless(w, R)' <=> Hopeless(w, R)
  BY DEF UndeterminedWitnesses, Provable, ChildModel, Hopeless
<1>4. CASE radius >= MaxRadius
  <2>1. pc' = "sweep" /\ todo' = todo \ {witness}
    BY <1>4 DEF GiveUpRadius
  <2>2. ~missed' => Hopeless(witness, 1..MaxRadius)
    BY <1>1, <1>2, <1>4 DEF Hopeless
  <2>3. ~missed' /\ ~progressed' =>
          \A w \in UndeterminedWitnesses(known)' \ todo' : Hopeless(w, 1..MaxRadius)'
    BY <1>3, <2>1, <2>2 DEF FixpointInv
  <2> QED BY <2>1, <2>3 DEF FixpointInv, SweepsToFixpoint
<1>5. CASE radius < MaxRadius
  <2>1. pc' = "radius" /\ todo' = todo
    BY <1>1, <1>5 DEF GiveUpRadius
  <2>2. witness' = witness
    BY <2>1 DEF witness
  <2>3. ~missed' => Hopeless(witness, 1..(radius - 1))'
    <3>1. radius' - 1 = radius
      BY <1>1
    <3>2. ~missed' => \A r \in 1..(radius' - 1) : ~Provable(known, witness, r)
      BY <1>2, <3>1 DEF Hopeless
    <3>3. \A r : Provable(known, witness, r)' <=> Provable(known, witness, r)
      BY <2>2 DEF Provable, ChildModel
    <3> QED BY <3>2, <3>3 DEF Hopeless
  <2>4. ~missed' /\ ~progressed' =>
          \A w \in UndeterminedWitnesses(known)' \ todo' : Hopeless(w, 1..MaxRadius)'
    BY <1>3, <2>1 DEF FixpointInv
  <2>5. radius' # 0
    BY <1>1
  <2> QED BY <2>1, <2>3, <2>4, <2>5 DEF FixpointInv, SweepsToFixpoint
<1> QED BY <1>1, <1>4, <1>5

(* Steps that leave the sweep where it is. *)
LEMMA FixpointUnmoved ==
  ASSUME FixpointInv, UNCHANGED <<m, pc, known, todo, radius, progressed, missed>>
  PROVE  FixpointInv'
<1>1. /\ UndeterminedWitnesses(known)' = UndeterminedWitnesses(known) /\ witness' = witness
      /\ \A w, r : Provable(known, w, r)' <=> Provable(known, w, r)
  BY DEF UndeterminedWitnesses, Provable, ChildModel, witness
<1>2. \A r : Provable(known, witness, r)' <=> Provable(known, witness, r)
  BY <1>1 DEF Provable, ChildModel
<1> QED BY <1>1, <1>2 DEF FixpointInv, Hopeless, SweepsToFixpoint

LEMMA FixpointStep == TypeOK /\ OutputInv /\ FixpointInv /\ [Next]_vars => FixpointInv'
<1> SUFFICES ASSUME TypeOK, OutputInv, FixpointInv, [Next]_vars
             PROVE  FixpointInv'
  OBVIOUS
<1>1. CASE ScanSpawn
  BY <1>1 DEF ScanSpawn, FixpointInv, SweepsToFixpoint
<1>2. CASE ScanSpawnFails \/ ScanReap \/ ScanRead
  BY <1>2, FixpointUnmoved DEF ScanSpawnFails, ScanReap, ScanRead, sweepVars, ioVars
<1>3. CASE ScanKill
  BY <1>3 DEF ScanKill, FixpointInv, SweepsToFixpoint
<1>4. CASE Load
  <2>1. pc' = "sweep" /\ todo' = UndeterminedWitnesses(known) /\ UNCHANGED <<m, known>>
    BY <1>4 DEF Load, StartSweep
  <2>2. UndeterminedWitnesses(known)' = todo'
    BY <2>1 DEF UndeterminedWitnesses
  <2> QED BY <2>1, <2>2 DEF FixpointInv, SweepsToFixpoint
<1>5. CASE LoadFails
  BY <1>5 DEF LoadFails, FixpointInv, SweepsToFixpoint
<1>6. CASE NextWitness
  <2>1. /\ UNCHANGED <<m, known, todo, progressed>> /\ radius' = 1 /\ pc = "sweep"
        /\ \/ pc' = "exited" /\ missed'
           \/ pc' = "radius" /\ UNCHANGED missed
    BY <1>6 DEF NextWitness
  <2>2. radius' # 0 /\ 1..(radius' - 1) = {}
    BY <2>1
  <2>3. /\ UndeterminedWitnesses(known)' = UndeterminedWitnesses(known)
        /\ \A w, R : Hopeless(w, R)' <=> Hopeless(w, R)
    BY <2>1 DEF UndeterminedWitnesses, Provable, ChildModel, Hopeless
  <2>4. ~missed' /\ ~progressed' =>
          \A w \in UndeterminedWitnesses(known)' \ todo' : Hopeless(w, 1..MaxRadius)'
    BY <2>1, <2>3 DEF FixpointInv
  <2>5. Hopeless(witness, 1..(radius - 1))'
    BY <2>2 DEF Hopeless
  <2> QED BY <2>1, <2>2, <2>4, <2>5 DEF FixpointInv, SweepsToFixpoint
<1>7. CASE EndSweep
  <2>1. /\ UNCHANGED <<m, known, missed>> /\ pc = "sweep" /\ todo = {}
        /\ \/ progressed /\ pc' = "sweep" /\ todo' = UndeterminedWitnesses(known)
           \/ ~progressed /\ pc' = "exited"
    BY <1>7 DEF EndSweep, StartSweep, ioVars
  <2>2. /\ UndeterminedWitnesses(known)' = UndeterminedWitnesses(known)
        /\ \A w, r : Provable(known, w, r)' <=> Provable(known, w, r)
    BY <2>1 DEF UndeterminedWitnesses, Provable, ChildModel
  <2>3. CASE progressed
    BY <2>1, <2>2, <2>3 DEF FixpointInv, SweepsToFixpoint
  <2>4. CASE ~progressed
    <3>1. ~missed => \A w \in UndeterminedWitnesses(known) : Hopeless(w, 1..MaxRadius)
      BY <2>1, <2>4 DEF FixpointInv
    <3>2. SweepsToFixpoint'
      BY <2>1, <2>2, <3>1 DEF SweepsToFixpoint, Hopeless
    <3> QED BY <2>1, <2>4, <3>2 DEF FixpointInv
  <2> QED BY <2>3, <2>4
<1>8. CASE SkipWindow
  <2>1. ~Provable(known, witness, radius) \/ MaxRadius = 0
    BY <1>8, TimesAreNaturals DEF SkipWindow, WindowSize, Window, Provable
  <2>2. radius \in Nat /\ radius # 0 /\ MaxRadius \in Nat /\ pc = "radius"
    BY <1>8, TimesAreNaturals DEF TypeOK, FixpointInv, SkipWindow
  <2>3. CASE ~Provable(known, witness, radius)
    BY <1>8, <2>3, GiveUpRadiusFixpoint DEF SkipWindow, ioVars
  <2>4. CASE MaxRadius = 0
    <3>1. /\ pc' = "sweep" /\ UNCHANGED <<m, known, missed, progressed>>
      BY <1>8, <2>2, <2>4 DEF SkipWindow, GiveUpRadius, ioVars
    <3>2. \A w : Hopeless(w, 1..MaxRadius)'
      BY <2>4 DEF Hopeless
    <3> QED BY <3>1, <3>2 DEF FixpointInv, SweepsToFixpoint
  <2> QED BY <2>1, <2>3, <2>4
<1>9. CASE SpawnWindow
  <2>1. /\ UNCHANGED <<m, known, todo, radius, progressed, missed>> /\ pc = "radius" /\ pc' = "window"
    BY <1>9 DEF SpawnWindow, ioVars
  <2>2. /\ UndeterminedWitnesses(known)' = UndeterminedWitnesses(known) /\ witness' = witness
        /\ \A w, R : Hopeless(w, R)' <=> Hopeless(w, R)
    BY <2>1 DEF UndeterminedWitnesses, Provable, ChildModel, Hopeless, witness
  <2>3. /\ ~missed /\ ~progressed =>
             \A w \in UndeterminedWitnesses(known) \ todo : Hopeless(w, 1..MaxRadius)
        /\ ~missed => Hopeless(witness, 1..(radius - 1))
        /\ radius # 0
    BY <2>1 DEF FixpointInv
  <2>4. ~missed' => Hopeless(witness, 1..(radius - 1))'
    BY <2>1, <2>2, <2>3 DEF Hopeless
  <2>5. ~missed' /\ ~progressed' =>
          \A w \in UndeterminedWitnesses(known)' \ todo' : Hopeless(w, 1..MaxRadius)'
    BY <2>1, <2>2, <2>3
  <2> QED BY <2>1, <2>3, <2>4, <2>5 DEF FixpointInv, SweepsToFixpoint
<1>10. CASE SpawnWindowFails \/ TakeOther \/ KillWindow
  <2>1. ~missed' => ~missed /\ WindowPairs # {}
    BY <1>10 DEF SpawnWindowFails, TakeOther, KillWindow, Miss
  <2>2. WindowPairs # {} => ~Provable(known, witness, radius)
    BY DEF WindowPairs, Window, Provable
  <2> QED BY <1>10, <2>1, <2>2, GiveUpRadiusFixpoint DEF SpawnWindowFails, TakeOther, KillWindow
<1>11. CASE TakeUnsat
  BY <1>11 DEF TakeUnsat, FixpointInv, SweepsToFixpoint
<1>12. CASE PrintWire
  BY <1>12 DEF PrintWire, FixpointInv, SweepsToFixpoint
<1>13. CASE WindowUnsat \/ WindowOther \/ Tick \/ Done \/ UNCHANGED vars
  BY <1>13, FixpointUnmoved DEF WindowUnsat, WindowOther, Tick, Done, vars, sweepVars, ioVars
<1> QED BY <1>1, <1>2, <1>3, <1>4, <1>5, <1>6, <1>7, <1>8, <1>9, <1>10, <1>11, <1>12, <1>13
        DEF Next, ScanStep, SweepStep

(* A pass that was not cut short leaves nothing a window could still prove. *)
THEOREM SweepsReachFixpoint == Spec => []SweepsToFixpoint
<1>1. Init => FixpointInv
  BY DEF Init, FixpointInv, SweepsToFixpoint
<1>2. IInv /\ FixpointInv /\ [Next]_vars => FixpointInv'
  BY FixpointStep DEF IInv
<1>3. FixpointInv => SweepsToFixpoint
  BY DEF FixpointInv
<1> QED BY <1>1, <1>2, <1>3, SpecInv, PTL DEF Spec
=============================================================================
