----------------------------- MODULE ScanProofs -----------------------------
(***************************************************************************)
(* Safety of the scan of a program, for every field, every program of      *)
(* well-formed circuits, every budget and every failure of a child.        *)
(*                                                                         *)
(* The argument goes round between circuits: a circuit's reports are       *)
(* justified because the model they were computed on is sound; the model   *)
(* is sound because the callees it abstracts have all their returns        *)
(* verified, by justified reports of circuits that were finished before.   *)
(***************************************************************************)
EXTENDS Scan, CircuitTheorems, FiniteSetTheorems, SequenceTheorems

-----------------------------------------------------------------------------
(* The model of a circuit and the circuit mean the same. *)

(* What propagation, refinement and the finished callees change of a model. *)
Prepared(m, callees, determined) == [m EXCEPT !.proved = callees, !.known = determined]

LEMMA PreparedFields ==
  ASSUME NEW m, WellFormed(m), NEW callees, NEW determined,
         NEW n, n = Prepared(m, callees, determined)
  PROVE  /\ n.wires = m.wires /\ n.inputs = m.inputs /\ n.opcodes = m.opcodes
         /\ n.consts = m.consts /\ n.proved = callees /\ n.known = determined
         /\ DOMAIN n = DOMAIN m
BY DEF WellFormed, Prepared

(* Solutions, uniqueness and slices speak of wires, inputs and opcodes only. *)
LEMMA PreparedMeaning ==
  ASSUME NEW m, WellFormed(m), NEW callees, NEW determined,
         NEW n, n = Prepared(m, callees, determined)
  PROVE  /\ Ops(n) = Ops(m) /\ Assignments(n) = Assignments(m) /\ HardCut(n) = HardCut(m)
         /\ Solutions(n) = Solutions(m)
         /\ \A w : Unique(n, w) <=> Unique(m, w)
         /\ \A t, cut : DependencyComponentCut(n, t, cut) = DependencyComponentCut(m, t, cut)
         /\ \A o : IsFunction(n, o) <=> IsFunction(m, o)
<1>1. /\ n.wires = m.wires /\ n.inputs = m.inputs /\ n.opcodes = m.opcodes /\ n.consts = m.consts
  BY PreparedFields
<1>2. Ops(n) = Ops(m) /\ Assignments(n) = Assignments(m) /\ HardCut(n) = HardCut(m)
  BY <1>1 DEF Ops, Assignments, HardCut
<1>3. Solutions(n) = Solutions(m)
  BY <1>2 DEF Solutions
<1>4. \A w : Unique(n, w) <=> Unique(m, w)
  BY <1>1, <1>3 DEF Unique
<1>5. Edges(n) = Edges(m)
  BY <1>2 DEF Edges
<1>6. \A t, cut : DependencyComponentCut(n, t, cut) = DependencyComponentCut(m, t, cut)
  <2>1. \A S, cut : Closed(n, S, cut) <=> Closed(m, S, cut)
    BY <1>5 DEF Closed
  <2> QED BY <1>1, <2>1 DEF DependencyComponentCut
<1>7. \A o : IsFunction(n, o) <=> IsFunction(m, o)
  BY <1>2 DEF IsFunction
<1> QED BY <1>2, <1>3, <1>4, <1>6, <1>7

(* A prepared model is well formed when its determined wires are wires that
   include the inputs.                                                        *)
LEMMA PreparedWellFormed ==
  ASSUME NEW m, WellFormed(m), NEW callees, NEW determined,
         m.inputs \subseteq determined, determined \subseteq m.wires,
         NEW n, n = Prepared(m, callees, determined)
  PROVE  WellFormed(n)
<1>1. /\ n.wires = m.wires /\ n.inputs = m.inputs /\ n.consts = m.consts
      /\ n.known = determined /\ DOMAIN n = DOMAIN m
  BY PreparedFields
<1>2. Ops(n) = Ops(m) /\ Assignments(n) = Assignments(m)
  BY PreparedMeaning
<1>3. \A o : LocalOpcode(n, o) <=> LocalOpcode(m, o)
  BY <1>1, <1>2 DEF LocalOpcode, OnOwnWires
<1> QED BY <1>1, <1>2, <1>3 DEF WellFormed

(* It is sound when its determined wires are unique and the calls it abstracts
   are functions.                                                             *)
LEMMA PreparedSound ==
  ASSUME NEW m, WellFormed(m), SoundModel(m), NEW callees, NEW determined,
         \A w \in determined : Unique(m, w),
         \A o \in Ops(m) : o.kind = "call" /\ o.callee \in callees => IsFunction(m, o),
         NEW n, n = Prepared(m, callees, determined)
  PROVE  SoundModel(n)
<1>1. n.consts = m.consts /\ n.known = determined /\ n.proved = callees
  BY PreparedFields
<1>2. /\ Ops(n) = Ops(m) /\ Solutions(n) = Solutions(m)
      /\ \A w : Unique(n, w) <=> Unique(m, w)
      /\ \A o : IsFunction(n, o) <=> IsFunction(m, o)
  BY PreparedMeaning
<1>3. ASSUME NEW o \in Ops(m), Treatment(n, o) = "functional"
      PROVE  IsFunction(m, o)
  <2>1. CASE o.kind = "call"
    BY <1>1, <1>3, <2>1 DEF Treatment
  <2>2. CASE o.kind # "call"
    <3>1. Treatment(m, o) = "functional"
      BY <1>3, <2>2 DEF Treatment
    <3> QED BY <3>1 DEF SoundModel
  <2> QED BY <2>1, <2>2
<1> QED BY <1>1, <1>2, <1>3 DEF SoundModel

(* A verdict justified on the prepared model is justified on the circuit: what
   the circuit translates exactly, or can certify, the model does too.        *)
LEMMA PreparedJustified ==
  ASSUME NEW m, WellFormed(m), m.proved = {}, NEW callees, NEW determined,
         NEW n, n = Prepared(m, callees, determined),
         NEW t, NEW s, NEW c, Justified(n, t, s, c)
  PROVE  Justified(m, t, s, c)
<1>1. /\ Ops(n) = Ops(m) /\ HardCut(n) = HardCut(m) /\ Solutions(n) = Solutions(m)
      /\ \A w : Unique(n, w) <=> Unique(m, w)
      /\ Cone(n, t) = Cone(m, t)
  BY PreparedMeaning DEF Cone
<1>2. ASSUME NEW o \in Ops(m), Treatment(m, o) # "unsupported"
      PROVE  Treatment(n, o) = Treatment(m, o)
  BY <1>2 DEF Treatment
<1>3. Conclusive(m, t, c) => Conclusive(n, t, c)
  BY <1>1, <1>2 DEF Conclusive
<1> QED BY <1>1, <1>3 DEF Justified

-----------------------------------------------------------------------------
(* What solve_target returns is justified. *)

Certificates == {"none", "certified", "refuted", "incomplete"}
Answers == [status : Statuses \ {"unsupported"}, cert : Certificates]

(* A certified pair satisfies every opcode of the cone, in both copies. *)
LEMMA CertifiedHolds ==
  ASSUME NEW md, NEW cone, NEW t, NEW a, NEW b,
         Certificate(md, cone, t, <<a, b>>) = "certified",
         NEW o \in Ops(md), Touches(o, cone)
  PROVE  Holds(o, a) /\ Holds(o, b)
<1>1. PICK i \in DOMAIN md.opcodes : o = md.opcodes[i]
  BY DEF Ops
<1> DEFINE checked == {j \in DOMAIN md.opcodes : Touches(md.opcodes[j], cone)}
           failing == {j \in checked : FailsAt(md.opcodes[j], <<a, b>>)}
<1>2. failing = {}
  BY DEF Certificate
<1>3. ~FailsAt(o, <<a, b>>)
  BY <1>1, <1>2
<1> QED BY <1>3 DEF FailsAt, Passes

LEMMA CertificateInType ==
  ASSUME NEW md, NEW cone, NEW t, NEW p
  PROVE  Certificate(md, cone, t, p) \in Certificates
BY DEF Certificate, Certificates

LEMMA OutcomeType ==
  ASSUME NEW md, NEW t, NEW certify_, NEW answer \in SolveOutcomes(md, t, certify_)
  PROVE  answer \in Answers
<1>1. \A s \in {"verified", "unknown", "error"} : Outcome(s, "none") \in Answers
  BY DEF Outcome, Answers, Certificates, Statuses
<1>2. \A c \in Certificates : Outcome(IF c = "refuted" THEN "unknown" ELSE "unsafe", c) \in Answers
  BY DEF Outcome, Answers, Statuses
<1>3. \A p : (IF certify_ THEN Certificate(md, ExactComponent(md, t), t, p) ELSE "none") \in Certificates
  BY CertificateInType DEF Certificates
<1> QED BY <1>1, <1>2, <1>3 DEF SolveOutcomes

(* `verified` comes from a wire that is known, or from a query with no
   solution; `unsafe` from a solution of the query of the exact slice.        *)
LEMMA OutcomeJustified ==
  ASSUME NEW md, WellFormed(md), SoundModel(md), NEW t \in md.wires, NEW certify_,
         NEW answer \in SolveOutcomes(md, t, certify_)
  PROVE  Justified(md, t, answer.status, answer.cert)
<1> DEFINE exact == ExactComponent(md, t)
           pairs == QueryPairs(md, exact, md.known, t)
           cert(p) == IF certify_ THEN Certificate(md, exact, t, p) ELSE "none"
<1>1. \A w \in md.known : Unique(md, w)
  BY DEF SoundModel
<1>2. CASE IsTriviallyDetermined(md, t)
  <2>1. answer = Outcome("verified", "none")
    BY <1>2 DEF SolveOutcomes
  <2>2. Unique(md, t)
    BY <1>1, <1>2 DEF IsTriviallyDetermined, WellFormed
  <2> QED BY <2>1, <2>2 DEF Outcome, Justified
<1>3. CASE ~IsTriviallyDetermined(md, t)
  <2>1. \/ answer \in {Outcome("unknown", "none"), Outcome("error", "none")}
        \/ /\ answer = Outcome("verified", "none")
           /\ \E c \in {exact, RelaxedComponent(md, t)} : QueryPairs(md, c, md.known, t) = {}
        \/ \E p \in pairs :
             answer = Outcome(IF cert(p) = "refuted" THEN "unknown" ELSE "unsafe", cert(p))
    BY <1>3, Zenon DEF SolveOutcomes
  <2>2. CASE answer \in {Outcome("unknown", "none"), Outcome("error", "none")}
    BY <2>2 DEF Outcome, Justified
  <2>3. CASE /\ answer = Outcome("verified", "none")
             /\ \E c \in {exact, RelaxedComponent(md, t)} : QueryPairs(md, c, md.known, t) = {}
    <3>1. Unique(md, t)
      BY <1>1, <2>3, UnsatIsUnique
    <3> QED BY <2>3, <3>1 DEF Outcome, Justified
  <2>4. ASSUME NEW p \in pairs,
               answer = Outcome(IF cert(p) = "refuted" THEN "unknown" ELSE "unsafe", cert(p)),
               Conclusive(md, t, answer.cert)
        PROVE  ~Unique(md, t)
    <3>1. PICK a, b : p = <<a, b>>
      BY DEF QueryPairs
    <3>2. answer.cert = cert(p)
      BY <2>4 DEF Outcome
    <3>3. answer.cert = "certified" =>
            \A o \in Ops(md) : Touches(o, exact) => Holds(o, a) /\ Holds(o, b)
      BY <3>1, <3>2, CertifiedHolds
    <3>4. /\ t \notin HardCut(md) /\ Solutions(md) # {} /\ Cone(md, t) = exact
      BY <2>4 DEF Conclusive, Cone, ExactComponent
    <3>5. \A o \in Ops(md) : Touches(o, exact) =>
            \/ Treatment(md, o) \in {"exact", "hint"}
            \/ /\ Treatment(md, o) \in {"functional", "dropped"}
               /\ Holds(o, a) /\ Holds(o, b)
      BY <2>4, <3>3, <3>4 DEF Conclusive
    <3>6. <<a, b>> \in QueryPairs(md, exact, md.known, t)
      BY <3>1
    <3> HIDE DEF pairs
    <3> QED BY <3>4, <3>5, <3>6, ExactSliceIsReal DEF ExactComponent
  <2>5. CASE \E p \in pairs :
               answer = Outcome(IF cert(p) = "refuted" THEN "unknown" ELSE "unsafe", cert(p))
    <3>1. PICK p \in pairs :
               answer = Outcome(IF cert(p) = "refuted" THEN "unknown" ELSE "unsafe", cert(p))
      BY <2>5
    <3>2. answer.status # "verified"
      BY <3>1 DEF Outcome
    <3>3. Conclusive(md, t, answer.cert) => ~Unique(md, t)
      BY <2>4, <3>1
    <3> QED BY <3>2, <3>3 DEF Justified
  <2> QED BY <2>1, <2>2, <2>3, <2>5
<1> QED BY <1>2, <1>3

-----------------------------------------------------------------------------
(* The inductive invariant. *)

Targets(i) == program[i].targets
Analysing == pc \in {"refine", "target", "poll"}
Finished(i) == i > circuit \/ pc = "done"

(* What a report is made of. *)
ReportTypes ==
  \A i \in DOMAIN program :
    reports[i] \in Seq([wire : program[i].wires, status : Statuses, cert : Certificates, noted : BOOLEAN])

(* Every wire taken as known, refined ones included, is unique. *)
KnownInv ==
  Analysing =>
    /\ program[circuit].inputs \subseteq known /\ known \subseteq program[circuit].wires
    /\ \A w \in known : Unique(program[circuit], w)

(* The callees taken as deterministic are the finished circuits all of whose
   returns were verified.                                                     *)
DeterministicInv ==
  /\ \A d \in deterministic : Finished(d)
  /\ \A d \in DOMAIN program : d > circuit => (d \in deterministic <=> AllVerified(d))

(* What a child may have written is justified. *)
ChildInv ==
  /\ child \in [state : {"none", "running", "blocked", "exited", "failed"}, answer : Answers]
  /\ pc = "poll" =>
       /\ HasTarget
       /\ child.state = "exited" =>
            Justified(program[circuit], target, child.answer.status, child.answer.cert)

(* Finished circuits have all their reports, later ones none, and the one under
   analysis those before its position.                                         *)
ProgressInv ==
  /\ \A i \in DOMAIN program :
       /\ i < circuit => reports[i] = << >>
       /\ Finished(i) => Len(reports[i]) = Len(Targets(i))
       /\ \A j \in DOMAIN reports[i] : j <= Len(Targets(i)) /\ reports[i][j].wire = Targets(i)[j]
  /\ pc \in {"build", "refine"} => reports[circuit] = << >>
  /\ pc = "refine" => position = 1
  /\ pc \in {"target", "poll"} =>
       position = Len(reports[circuit]) + 1 /\ position <= Len(Targets(circuit)) + 1
  /\ pc = "done" => circuit = 1

(* The summary counts the reports of each verdict. *)
CountInv ==
  \A s \in Statuses : IsFiniteSet(Reported(s)) /\ summary[s] = Cardinality(Reported(s))

IInv ==
  /\ TypeOK /\ ReportTypes /\ KnownInv /\ DeterministicInv /\ ChildInv /\ ProgressInv /\ CountInv
  /\ ReportsJustified /\ VerifiedCalleesAreUsed

(* What the assumptions on programs say of the circuit i. *)
LEMMA CallerFacts ==
  ASSUME program \in Programs, NEW i \in DOMAIN program
  PROVE  /\ WellFormed(program[i]) /\ SoundModel(program[i]) /\ program[i].proved = {}
         /\ program[i].returns \subseteq program[i].wires
         /\ Targets(i) \in Seq(program[i].wires)
<1>1. program \in Seq(Models)
  BY ProgramsWellFormed
<1>2. program[i] \in Models
  BY <1>1, ElementOfSeq, LenProperties
<1> QED BY <1>2, ProgramsWellFormed, ModelsWellFormed, ModelsSound DEF Targets

LEMMA ProgramFacts ==
  ASSUME program \in Programs
  PROVE  Len(program) \in Nat /\ Len(program) >= 1 /\ DOMAIN program = 1..Len(program)
<1>1. program \in Seq(Models) /\ program # << >>
  BY ProgramsWellFormed
<1> QED BY <1>1, LenProperties, EmptySeq

(* The model of the circuit under analysis is the circuit, prepared. *)
LEMMA ModelFacts ==
  ASSUME IInv, Analysing
  PROVE  WellFormed(Model) /\ SoundModel(Model)
<1> DEFINE m == program[circuit]
<1>1. program \in Programs /\ circuit \in DOMAIN program
  BY DEF IInv, TypeOK
<1>2. WellFormed(m) /\ SoundModel(m)
  BY <1>1, CallerFacts
<1>3. Model = Prepared(m, deterministic, known)
  BY DEF Model, Prepared
<1>4. m.inputs \subseteq known /\ known \subseteq m.wires /\ \A w \in known : Unique(m, w)
  BY DEF IInv, KnownInv
<1>5. ASSUME NEW o \in Ops(m), o.kind = "call", o.callee \in deterministic
      PROVE  IsFunction(m, o)
  <2>1. o.callee \in DOMAIN program
    BY <1>5, <1>1 DEF IInv, TypeOK
  <2>2. o.callee > circuit
    BY <1>5 DEF IInv, DeterministicInv, Finished, Analysing
  <2>3. AllVerified(o.callee)
    BY <1>5, <2>1, <2>2 DEF IInv, DeterministicInv
  <2>4. \A w \in program[o.callee].returns : Unique(program[o.callee], w)
    BY <2>1, <2>3 DEF IInv, ReportsJustified, AllVerified, Justified
  <2> QED BY <1>1, <1>5, <2>4, CallsMeanTheirCallee
<1>6. WellFormed(Model)
  BY <1>2, <1>3, <1>4, PreparedWellFormed
<1>7. SoundModel(Model)
  BY <1>2, <1>3, <1>4, <1>5, PreparedSound
<1> QED BY <1>6, <1>7

(* So is the model that scan-target and refine-circuit build. *)
LEMMA ChildModelFacts ==
  ASSUME program \in Programs, circuit \in DOMAIN program
  PROVE  /\ WellFormed(ChildModel) /\ SoundModel(ChildModel)
         /\ ChildModel = Prepared(program[circuit], {}, program[circuit].known)
<1> DEFINE m == program[circuit]
<1>1. WellFormed(m) /\ SoundModel(m)
  BY CallerFacts
<1>2. ChildModel = Prepared(m, {}, m.known)
  BY <1>1 DEF ChildModel, Prepared, WellFormed
<1>3. m.inputs \subseteq m.known /\ m.known \subseteq m.wires
  BY <1>1 DEF WellFormed
<1>4. \A w \in m.known : Unique(m, w)
  BY <1>1 DEF SoundModel
<1> QED BY <1>1, <1>2, <1>3, <1>4, PreparedWellFormed, PreparedSound

(* An answer of either process is justified on the circuit itself. *)
LEMMA AnswerHere ==
  ASSUME IInv, Analysing, HasTarget, NEW answer \in SolveOutcomes(Model, target, certify)
  PROVE  Justified(program[circuit], target, answer.status, answer.cert)
<1>1. program \in Programs /\ circuit \in DOMAIN program
  BY DEF IInv, TypeOK
<1>2. WellFormed(program[circuit]) /\ program[circuit].proved = {}
  BY <1>1, CallerFacts
<1>3. Model = Prepared(program[circuit], deterministic, known)
  BY DEF Model, Prepared
<1>4. target \in program[circuit].wires
  BY <1>1, CallerFacts, LenProperties, ElementOfSeq DEF target, HasTarget, IInv, TypeOK, Targets
<1>5. target \in Model.wires
  BY <1>2, <1>3, <1>4, PreparedFields
<1>6. Justified(Model, target, answer.status, answer.cert)
  BY <1>5, ModelFacts, OutcomeJustified
<1> QED BY <1>2, <1>3, <1>6, PreparedJustified

LEMMA AnswerOfChild ==
  ASSUME IInv, HasTarget, NEW answer \in SolveOutcomes(ChildModel, target, certify)
  PROVE  Justified(program[circuit], target, answer.status, answer.cert)
<1>1. program \in Programs /\ circuit \in DOMAIN program
  BY DEF IInv, TypeOK
<1>2. WellFormed(program[circuit]) /\ program[circuit].proved = {}
  BY <1>1, CallerFacts
<1>3. ChildModel = Prepared(program[circuit], {}, program[circuit].known)
  BY <1>1, ChildModelFacts
<1>4. target \in program[circuit].wires
  BY <1>1, CallerFacts, LenProperties, ElementOfSeq DEF target, HasTarget, IInv, TypeOK, Targets
<1>5. target \in ChildModel.wires
  BY <1>2, <1>3, <1>4, PreparedFields
<1>6. Justified(ChildModel, target, answer.status, answer.cert)
  BY <1>1, <1>5, ChildModelFacts, OutcomeJustified
<1> QED BY <1>2, <1>3, <1>6, PreparedJustified

-----------------------------------------------------------------------------
(* The step that records a report. *)

ReportOf(answer) ==
  [wire |-> target, status |-> answer.status, cert |-> answer.cert,
   noted |-> AbstractionReasonsForTarget(Model, target) # {}]

(* The new report is the last one of the circuit; nothing else changes. *)
LEMMA RecordFacts ==
  ASSUME IInv, pc \in {"target", "poll"}, HasTarget,
         NEW answer \in [status : Statuses, cert : Certificates], Record(answer)
  PROVE  /\ circuit \in DOMAIN program /\ UNCHANGED <<program, circuit, known, deterministic>>
         /\ DOMAIN reports' = DOMAIN program
         /\ \A i \in DOMAIN program \ {circuit} : reports'[i] = reports[i]
         /\ reports'[circuit] \in
              Seq([wire : program[circuit].wires, status : Statuses, cert : Certificates, noted : BOOLEAN])
         /\ position \in Nat \ {0}
         /\ DOMAIN reports[circuit] = 1..(position - 1)
         /\ DOMAIN reports'[circuit] = 1..position /\ Len(reports'[circuit]) = position
         /\ \A j \in 1..(position - 1) : reports'[circuit][j] = reports[circuit][j]
         /\ reports'[circuit][position] = ReportOf(answer)
<1> DEFINE R == [wire : program[circuit].wires, status : Statuses, cert : Certificates, noted : BOOLEAN]
           old == reports[circuit]
           r == ReportOf(answer)
<1>1. /\ program \in Programs /\ circuit \in DOMAIN program /\ DOMAIN reports = DOMAIN program
      /\ position \in Nat \ {0}
  BY DEF IInv, TypeOK
<1>2. UNCHANGED <<program, circuit, known, deterministic>>
  BY DEF Record, args
<1>3. reports' = [reports EXCEPT ![circuit] = Append(old, r)]
  BY DEF Record, ReportOf
<1>4. target \in program[circuit].wires
  BY <1>1, CallerFacts, LenProperties, ElementOfSeq DEF target, HasTarget, Targets
<1>5. r \in R
  BY <1>4 DEF ReportOf
<1>6. old \in Seq(R)
  BY <1>1 DEF IInv, ReportTypes
<1>7. position = Len(old) + 1
  BY DEF IInv, ProgressInv
<1> HIDE DEF r, R, old
<1>8. Len(old) \in Nat /\ DOMAIN old = 1..Len(old)
  BY <1>6, LenProperties
<1>9. /\ Append(old, r) \in Seq(R) /\ Len(Append(old, r)) = Len(old) + 1
      /\ \A j \in 1..Len(old) : Append(old, r)[j] = old[j]
      /\ Append(old, r)[Len(old) + 1] = r
  BY <1>5, <1>6, AppendProperties
<1>10. DOMAIN Append(old, r) = 1..Len(Append(old, r))
  BY <1>9, LenProperties
<1>11. Len(old) = position - 1
  BY <1>1, <1>7, <1>8
<1>12. reports'[circuit] = Append(old, r)
  BY <1>1, <1>3
<1>13. DOMAIN reports' = DOMAIN program /\ \A i \in DOMAIN program \ {circuit} : reports'[i] = reports[i]
  BY <1>1, <1>3
<1>14. DOMAIN Append(old, r) = 1..position /\ Len(Append(old, r)) = position
  BY <1>7, <1>9, <1>10
<1> QED BY <1>1, <1>2, <1>8, <1>9, <1>11, <1>12, <1>13, <1>14 DEF r, R, old

(* Counting the reports: one more of the verdict recorded. *)
LEMMA RecordCounts ==
  ASSUME IInv, pc \in {"target", "poll"}, HasTarget,
         NEW answer \in [status : Statuses, cert : Certificates], Record(answer)
  PROVE  CountInv'
<1> DEFINE new == <<circuit, position>>
<1>1. /\ circuit \in DOMAIN program /\ program' = program
      /\ \A i \in DOMAIN program \ {circuit} : reports'[i] = reports[i]
      /\ position \in Nat \ {0}
      /\ DOMAIN reports[circuit] = 1..(position - 1) /\ DOMAIN reports'[circuit] = 1..position
      /\ \A j \in 1..(position - 1) : reports'[circuit][j] = reports[circuit][j]
      /\ reports'[circuit][position].status = answer.status
  <2>1. reports'[circuit][position] = ReportOf(answer)
    BY RecordFacts
  <2>2. reports'[circuit][position].status = answer.status
    BY <2>1 DEF ReportOf
  <2> QED BY <2>2, RecordFacts
<1>2. summary' = [summary EXCEPT ![answer.status] = @ + 1] /\ summary \in [Statuses -> Nat]
  BY DEF Record, IInv, TypeOK
<1>3. ASSUME NEW s \in Statuses
      PROVE  Reported(s)' = IF s = answer.status THEN Reported(s) \cup {new} ELSE Reported(s)
  <2> DEFINE at(i) == {j \in DOMAIN reports[i] : reports[i][j].status = s}
             atNext(i) == {j \in DOMAIN reports'[i] : reports'[i][j].status = s}
  <2>1. \A i \in DOMAIN program \ {circuit} : atNext(i) = at(i)
    BY <1>1
  <2>2. atNext(circuit) = at(circuit) \cup IF s = answer.status THEN {position} ELSE {}
    <3>1. \A j : j \in 1..position <=> j \in 1..(position - 1) \/ j = position
      BY <1>1
    <3> QED BY <1>1, <3>1
  <2>3. Reported(s) = UNION {{i} \X at(i) : i \in DOMAIN program}
    BY DEF Reported
  <2>4. Reported(s)' = UNION {{i} \X atNext(i) : i \in DOMAIN program}
    BY <1>1 DEF Reported
  <2> HIDE DEF at, atNext
  <2>5. ASSUME NEW i, NEW j
        PROVE  <<i, j>> \in Reported(s) <=> i \in DOMAIN program /\ j \in at(i)
    BY <2>3
  <2>6. ASSUME NEW i, NEW j
        PROVE  <<i, j>> \in Reported(s)' <=> i \in DOMAIN program /\ j \in atNext(i)
    BY <2>4
  <2>7. \A p \in Reported(s) \cup Reported(s)' : \E i, j : p = <<i, j>>
    BY <2>3, <2>4
  <2>8. ASSUME NEW i, NEW j
        PROVE  <<i, j>> \in Reported(s)' <=>
                 <<i, j>> \in Reported(s) \/ (s = answer.status /\ <<i, j>> = new)
    <3>1. CASE i = circuit
      BY <1>1, <2>2, <2>5, <2>6, <3>1
    <3>2. CASE i # circuit
      BY <2>1, <2>5, <2>6, <3>2
    <3> QED BY <3>1, <3>2
  <2>9. \A p : p \in Reported(s)' <=> p \in Reported(s) \/ (s = answer.status /\ p = new)
    BY <2>7, <2>8
  <2> QED BY <2>9, Zenon
<1>4. ASSUME NEW s \in Statuses
      PROVE  IsFiniteSet(Reported(s)') /\ summary'[s] = Cardinality(Reported(s)')
  <2>1. IsFiniteSet(Reported(s)) /\ summary[s] = Cardinality(Reported(s))
    BY DEF IInv, CountInv
  <2>2. new \notin Reported(s)
    BY <1>1 DEF Reported
  <2>3. CASE s = answer.status
    BY <1>2, <1>3, <2>1, <2>2, <2>3, FS_AddElement
  <2>4. CASE s # answer.status
    BY <1>2, <1>3, <2>1, <2>4
  <2> QED BY <2>3, <2>4
<1> QED BY <1>4 DEF CountInv

(* A target called unsupported is so on account of an opcode that the finished
   callees cannot account for.                                                *)
Excused(i, w) ==
  \E o \in Ops(program[i]) :
    /\ o.wires = {} \/ Touches(o, DependencyComponent(program[i], w))
    /\ \/ o.kind = "unsupported"
       \/ o.kind = "call" /\ ~(o.callee > i /\ o.outs # {} /\ AllVerified(o.callee))

LEMMA NotAdmittedExcused ==
  ASSUME IInv, Analysing, ~Admitted(Model, target)
  PROVE  Excused(circuit, target)
<1> DEFINE m == program[circuit]
<1>1. program \in Programs /\ circuit \in DOMAIN program
  BY DEF IInv, TypeOK
<1>2. WellFormed(m) /\ m.proved = {}
  BY <1>1, CallerFacts
<1>3. Model = Prepared(m, deterministic, known)
  BY DEF Model, Prepared
<1>4. /\ Ops(Model) = Ops(m) /\ Model.proved = deterministic
      /\ DependencyComponent(Model, target) = DependencyComponent(m, target)
  BY <1>2, <1>3, PreparedMeaning, PreparedFields DEF DependencyComponent
<1>5. PICK o \in Ops(m) : /\ Treatment(Model, o) = "unsupported"
                          /\ o.wires = {} \/ Touches(o, DependencyComponent(m, target))
  BY <1>4 DEF Admitted, UnsupportedReasonsForTarget
<1>6. CASE o.kind # "call"
  BY <1>5, <1>6 DEF Treatment, Excused
<1>7. CASE o.kind = "call"
  <2>1. ~(o.callee \in deterministic /\ o.outs # {})
    BY <1>4, <1>5, <1>7 DEF Treatment
  <2>2. o.callee \in DOMAIN program
    BY <1>1, <1>7, CallsMeanTheirCallee
  <2>3. o.callee > circuit /\ AllVerified(o.callee) => o.callee \in deterministic
    BY <2>2 DEF IInv, DeterministicInv
  <2> QED BY <1>5, <1>7, <2>1, <2>3 DEF Excused
<1> QED BY <1>6, <1>7

(* Recording a justified answer keeps the invariant. *)
LEMMA RecordInv ==
  ASSUME IInv, pc \in {"target", "poll"}, HasTarget,
         NEW answer \in [status : Statuses, cert : Certificates],
         Justified(program[circuit], target, answer.status, answer.cert),
         answer.status = "unsupported" => Excused(circuit, target),
         Record(answer)
  PROVE  IInv'
<1>1. /\ program \in Programs /\ circuit \in DOMAIN program
      /\ UNCHANGED <<program, circuit, known, deterministic, noSolve, noRefine, targetTimeout, certify>>
      /\ pc' = "target" /\ child' = NoChild /\ polls' = 0 /\ position' = position + 1
      /\ summary' = [summary EXCEPT ![answer.status] = @ + 1]
  BY DEF Record, args, IInv, TypeOK
<1>2. /\ DOMAIN reports' = DOMAIN program
      /\ \A i \in DOMAIN program \ {circuit} : reports'[i] = reports[i]
      /\ reports'[circuit] \in
           Seq([wire : program[circuit].wires, status : Statuses, cert : Certificates, noted : BOOLEAN])
      /\ position \in Nat \ {0}
      /\ DOMAIN reports[circuit] = 1..(position - 1)
      /\ DOMAIN reports'[circuit] = 1..position /\ Len(reports'[circuit]) = position
      /\ \A j \in 1..(position - 1) : reports'[circuit][j] = reports[circuit][j]
      /\ reports'[circuit][position] = ReportOf(answer)
  BY RecordFacts
<1>3. /\ reports'[circuit][position].wire = target
      /\ reports'[circuit][position].status = answer.status
      /\ reports'[circuit][position].cert = answer.cert
  BY <1>2 DEF ReportOf
<1>4. circuit \in Nat /\ DOMAIN program = 1..Len(program) /\ Len(program) \in Nat
  BY <1>1, ProgramFacts
<1>5. Len(Targets(circuit)) \in Nat
  BY <1>1, CallerFacts, LenProperties
(* A new position is an old one or the last. *)
<1>6. \A j \in 1..position : j \in 1..(position - 1) \/ j = position
  BY <1>2
<1>7. TypeOK'
  <2>1. summary' \in [Statuses -> Nat]
    BY <1>1 DEF IInv, TypeOK
  <2>2. polls' \in 0..Budget /\ position' \in Nat \ {0}
    BY <1>1, <1>2, BudgetIsNatural
  <2>3. child'.state = "none"
    BY <1>1 DEF NoChild
  <2> QED BY <1>1, <1>2, <2>1, <2>2, <2>3 DEF IInv, TypeOK
<1>8. ReportTypes'
  BY <1>1, <1>2 DEF IInv, ReportTypes
<1>9. KnownInv'
  BY <1>1 DEF IInv, KnownInv, Analysing
<1>10. ASSUME NEW d \in DOMAIN program, d > circuit
       PROVE  AllVerified(d)' <=> AllVerified(d)
  <2>1. d # circuit
    BY <1>4, <1>10
  <2>2. reports'[d] = reports[d] /\ program' = program
    BY <1>1, <1>2, <2>1
  <2> QED BY <2>2 DEF AllVerified
<1>11. DeterministicInv'
  <2>1. \A d : Finished(d)' <=> d > circuit
    BY <1>1 DEF Finished
  <2>2. \A d \in deterministic : d > circuit
    BY DEF IInv, DeterministicInv, Finished
  <2> QED BY <1>1, <1>10, <2>1, <2>2 DEF IInv, DeterministicInv
<1>12. ChildInv'
  BY <1>1 DEF ChildInv, NoChild, Outcome, Answers, Statuses, Certificates
<1>13. ProgressInv'
  <2>1. position <= Len(Targets(circuit))
    BY DEF HasTarget, Targets
  <2>2. \A i : Targets(i)' = Targets(i)
    BY <1>1 DEF Targets
  <2>3. ASSUME NEW j \in 1..position
        PROVE  j <= Len(Targets(circuit)) /\ reports'[circuit][j].wire = Targets(circuit)[j]
    <3>1. CASE j \in 1..(position - 1)
      BY <1>1, <1>2, <3>1 DEF IInv, ProgressInv
    <3>2. CASE j = position
      BY <1>3, <2>1, <3>2 DEF target, Targets
    <3> QED BY <1>6, <3>1, <3>2
  <2>4. ASSUME NEW i \in DOMAIN program
        PROVE  /\ i < circuit => reports'[i] = << >>
               /\ i > circuit => Len(reports'[i]) = Len(Targets(i))
               /\ \A j \in DOMAIN reports'[i] : j <= Len(Targets(i)) /\ reports'[i][j].wire = Targets(i)[j]
    <3>1. CASE i = circuit
      BY <1>2, <1>4, <2>3, <3>1
    <3>2. CASE i # circuit
      BY <1>2, <3>2 DEF IInv, ProgressInv, Finished
    <3> QED BY <3>1, <3>2
  <2>5. position' = Len(reports'[circuit]) + 1 /\ position' <= Len(Targets(circuit)) + 1
    BY <1>1, <1>2, <1>5, <2>1
  <2> QED BY <1>1, <2>2, <2>4, <2>5 DEF ProgressInv, Finished
<1>14. CountInv'
  BY RecordCounts
<1>15. ReportsJustified'
  <2> SUFFICES ASSUME NEW i \in DOMAIN program, NEW j \in DOMAIN reports'[i]
               PROVE  Justified(program[i], reports'[i][j].wire, reports'[i][j].status, reports'[i][j].cert)
    BY <1>1 DEF ReportsJustified
  <2>1. CASE i # circuit
    BY <1>2, <2>1 DEF IInv, ReportsJustified
  <2>2. CASE i = circuit /\ j # position
    BY <1>2, <1>6, <2>2 DEF IInv, ReportsJustified
  <2>3. CASE i = circuit /\ j = position
    BY <1>3, <2>3
  <2> QED BY <2>1, <2>2, <2>3
<1>16. VerifiedCalleesAreUsed'
  <2>1. ASSUME NEW i \in DOMAIN program, i >= circuit, NEW w, Excused(i, w)
        PROVE  Excused(i, w)'
    <3>1. PICK o \in Ops(program[i]) :
            /\ o.wires = {} \/ Touches(o, DependencyComponent(program[i], w))
            /\ \/ o.kind = "unsupported"
               \/ o.kind = "call" /\ ~(o.callee > i /\ o.outs # {} /\ AllVerified(o.callee))
      BY <2>1 DEF Excused
    <3>2. o.kind = "call" => o.callee \in DOMAIN program
      BY <1>1, CallsMeanTheirCallee
    <3>3. o.kind = "call" /\ o.callee > i => (AllVerified(o.callee)' <=> AllVerified(o.callee))
      BY <1>4, <1>10, <2>1, <3>2
    <3> QED BY <1>1, <3>1, <3>3 DEF Excused
  <2>2. ASSUME NEW i \in DOMAIN program, NEW j \in DOMAIN reports'[i],
               reports'[i][j].status = "unsupported"
        PROVE  i >= circuit /\ Excused(i, reports'[i][j].wire)
    <3>1. CASE i = circuit /\ j = position
      BY <1>3, <1>4, <2>2, <3>1
    <3>2. CASE ~(i = circuit /\ j = position)
      <4>1. j \in DOMAIN reports[i] /\ reports'[i][j] = reports[i][j]
        BY <1>2, <1>6, <2>2, <3>2
      <4>2. Excused(i, reports[i][j].wire)
        BY <2>2, <4>1 DEF IInv, VerifiedCalleesAreUsed, Excused
      <4>3. i >= circuit
        BY <1>4, <4>1 DEF IInv, ProgressInv
      <4> QED BY <4>1, <4>2, <4>3
    <3> QED BY <3>1, <3>2
  <2>3. \A i \in DOMAIN program : \A j \in DOMAIN reports'[i] :
          reports'[i][j].status = "unsupported" => \E w : w = reports'[i][j].wire /\ Excused(i, w)'
    BY <2>1, <2>2
  <2> QED BY <1>1, <2>3 DEF VerifiedCalleesAreUsed, Excused
<1> QED BY <1>7, <1>8, <1>9, <1>11, <1>12, <1>13, <1>14, <1>15, <1>16 DEF IInv

-----------------------------------------------------------------------------
(* The inductive step: what each action leaves behind. *)

LEMMA InitInv == Init => IInv
<1> SUFFICES ASSUME Init PROVE IInv
  OBVIOUS
<1>1. program \in Programs
  BY DEF Init
<1>2. DOMAIN program = 1..Len(program) /\ circuit = Len(program) /\ circuit \in DOMAIN program
  BY <1>1, ProgramFacts DEF Init
<1>3. TypeOK
  <2>1. polls \in 0..Budget
    BY BudgetIsNatural DEF Init
  <2>2. noSolve \in BOOLEAN /\ noRefine \in BOOLEAN /\ targetTimeout \in BOOLEAN /\ certify \in BOOLEAN
    BY DEF Init
  <2>3. pc = "build" /\ known = {} /\ deterministic = {} /\ position = 1 /\ child.state = "none"
    BY DEF Init, NoChild
  <2>4. DOMAIN reports = DOMAIN program /\ summary \in [Statuses -> Nat]
    BY DEF Init
  <2> QED BY <1>1, <1>2, <2>1, <2>2, <2>3, <2>4 DEF TypeOK
<1>4. \A i \in DOMAIN program : reports[i] = << >>
  BY DEF Init
<1>5. \A i \in DOMAIN program : DOMAIN reports[i] = {}
  BY <1>4
<1>6. ReportTypes
  BY <1>4, EmptySeq DEF ReportTypes
<1>7. KnownInv /\ ChildInv
  BY DEF Init, KnownInv, Analysing, ChildInv, NoChild, Outcome, Answers, Statuses, Certificates
<1>8. DeterministicInv
  BY <1>1, <1>2, ProgramFacts DEF Init, DeterministicInv
<1>9. ProgressInv
  BY <1>1, <1>2, <1>4, <1>5, ProgramFacts DEF Init, ProgressInv, Finished
<1>10. CountInv
  <2>1. \A s : Reported(s) = {}
    BY <1>5 DEF Reported
  <2>2. \A s \in Statuses : summary[s] = 0
    BY DEF Init
  <2> QED BY <2>1, <2>2, FS_EmptySet DEF CountInv
<1>11. ReportsJustified /\ VerifiedCalleesAreUsed
  BY <1>5 DEF ReportsJustified, VerifiedCalleesAreUsed
<1> QED BY <1>3, <1>6, <1>7, <1>8, <1>9, <1>10, <1>11 DEF IInv

(* The parts of the invariant about the reports alone. *)
LEMMA ReportsKept ==
  ASSUME IInv, UNCHANGED <<program, reports, summary>>
  PROVE  ReportTypes' /\ CountInv' /\ ReportsJustified' /\ VerifiedCalleesAreUsed'
<1>1. ReportTypes' /\ ReportsJustified'
  BY DEF IInv, ReportTypes, ReportsJustified
<1>2. CountInv'
  BY DEF IInv, CountInv, Reported
<1>3. VerifiedCalleesAreUsed'
  BY DEF IInv, VerifiedCalleesAreUsed, AllVerified
<1> QED BY <1>1, <1>2, <1>3

LEMMA BuildModelInv == IInv /\ BuildModel => IInv'
<1> SUFFICES ASSUME IInv, BuildModel PROVE IInv'
  OBVIOUS
<1>1. /\ pc = "build" /\ pc' = "refine" /\ known' = program[circuit].known /\ position' = 1
      /\ UNCHANGED <<program, noSolve, noRefine, targetTimeout, certify, circuit, deterministic,
                     child, polls, reports, summary>>
  BY DEF BuildModel, args
<1>2. program \in Programs /\ circuit \in DOMAIN program
  BY DEF IInv, TypeOK
<1>3. WellFormed(program[circuit]) /\ SoundModel(program[circuit])
  BY <1>2, CallerFacts
<1>4. KnownInv'
  BY <1>1, <1>3 DEF KnownInv, WellFormed, SoundModel
<1>5. TypeOK'
  BY <1>1, <1>2, <1>3 DEF IInv, TypeOK, WellFormed
<1>6. DeterministicInv' /\ ChildInv' /\ ProgressInv'
  <2>1. \A i : AllVerified(i)' <=> AllVerified(i)
    BY <1>1 DEF AllVerified
  <2> QED BY <1>1, <2>1 DEF IInv, DeterministicInv, ChildInv, ProgressInv, Finished, Targets
<1> QED BY <1>1, <1>4, <1>5, <1>6, ReportsKept DEF IInv

(* What refinement adds is unique in the circuit. *)
LEMMA RefineModelInv == IInv /\ RefineModel => IInv'
<1> SUFFICES ASSUME IInv, RefineModel PROVE IInv'
  OBVIOUS
<1>1. /\ pc = "refine" /\ pc' = "target"
      /\ UNCHANGED <<program, noSolve, noRefine, targetTimeout, certify, circuit, deterministic,
                     position, child, polls, reports, summary>>
  BY DEF RefineModel, args
<1>2. PICK proved \in SUBSET Refinable : known' = known \cup proved
  BY DEF RefineModel
<1>3. program \in Programs /\ circuit \in DOMAIN program
  BY DEF IInv, TypeOK
<1>4. WellFormed(program[circuit])
  BY <1>3, CallerFacts
<1>5. \A w \in proved : w \in program[circuit].wires /\ Unique(program[circuit], w)
  <2>1. ChildModel = Prepared(program[circuit], {}, program[circuit].known)
    BY <1>3, ChildModelFacts
  <2> QED BY <1>2, <1>4, <2>1, PreparedMeaning DEF Refinable
<1>6. KnownInv'
  BY <1>1, <1>2, <1>5 DEF IInv, KnownInv, Analysing
<1>7. TypeOK'
  BY <1>1, <1>2, <1>3, <1>5 DEF IInv, TypeOK
<1>8. DeterministicInv' /\ ChildInv'
  <2>1. \A i : AllVerified(i)' <=> AllVerified(i)
    BY <1>1 DEF AllVerified
  <2> QED BY <1>1, <2>1 DEF IInv, DeterministicInv, ChildInv, Finished
<1>9. ProgressInv'
  <2>1. reports[circuit] = << >> /\ position = 1
    BY <1>1 DEF IInv, ProgressInv
  <2>2. Len(reports[circuit]) = 0
    BY <2>1, EmptySeq
  <2>3. Len(Targets(circuit)) \in Nat
    BY <1>3, CallerFacts, LenProperties
  <2> QED BY <1>1, <2>1, <2>2, <2>3 DEF IInv, ProgressInv, Finished, Targets
<1> QED BY <1>1, <1>6, <1>7, <1>8, <1>9, ReportsKept DEF IInv

(* The reports given in this process. *)
LEMMA NotSolvedInv == IInv /\ NotSolved => IInv'
BY RecordInv DEF NotSolved, AtTarget, Outcome, Statuses, Certificates, Justified

LEMMA UnsupportedInv == IInv /\ Unsupported => IInv'
<1> SUFFICES ASSUME IInv, Unsupported PROVE IInv'
  OBVIOUS
<1>1. Excused(circuit, target)
  BY NotAdmittedExcused DEF Unsupported, AtTarget, Analysing
<1> QED BY <1>1, RecordInv DEF Unsupported, AtTarget, Outcome, Statuses, Certificates, Justified

LEMMA SolveHereInv == IInv /\ SolveHere => IInv'
<1> SUFFICES ASSUME IInv, SolveHere PROVE IInv'
  OBVIOUS
<1>1. pc = "target" /\ HasTarget
  BY DEF SolveHere, Solvable, AtTarget
<1>2. PICK answer \in SolveOutcomes(Model, target, certify) : Record(answer)
  BY DEF SolveHere
<1>3. answer \in Answers
  BY OutcomeType
<1>4. answer \in [status : Statuses, cert : Certificates] /\ answer.status # "unsupported"
  BY <1>3 DEF Answers
<1>5. Justified(program[circuit], target, answer.status, answer.cert)
  BY <1>1, AnswerHere DEF Analysing
<1> QED BY <1>1, <1>2, <1>4, <1>5, RecordInv

(* The steps of the parent and the child that give no report. *)
LEMMA ChildStepInv ==
  ASSUME IInv,
         UNCHANGED <<program, noSolve, noRefine, targetTimeout, certify, circuit, known, deterministic,
                     position, reports, summary>>,
         pc \in {"target", "poll"}, pc' = "poll", HasTarget,
         child' \in [state : {"running", "blocked", "exited", "failed"}, answer : Answers],
         child'.state = "exited" =>
           Justified(program[circuit], target, child'.answer.status, child'.answer.cert),
         polls' \in 0..Budget
  PROVE  IInv'
<1>1. TypeOK'
  BY DEF IInv, TypeOK
<1>2. DeterministicInv' /\ KnownInv'
  <2>1. \A i : AllVerified(i)' <=> AllVerified(i)
    BY DEF AllVerified
  <2> QED BY <2>1 DEF IInv, DeterministicInv, KnownInv, Analysing, Finished
<1>3. ChildInv'
  BY DEF ChildInv, HasTarget, target
<1>4. ProgressInv'
  BY DEF IInv, ProgressInv, Finished, Targets
<1> QED BY <1>1, <1>2, <1>3, <1>4, ReportsKept DEF IInv

LEMMA SpawnChildInv == IInv /\ SpawnChild => IInv'
<1> SUFFICES ASSUME IInv, SpawnChild PROVE IInv'
  OBVIOUS
<1>1. child' = [state |-> "running", answer |-> Outcome("unknown", "none")]
  BY DEF SpawnChild, NoChild
<1>2. Outcome("unknown", "none") \in Answers
  BY DEF Outcome, Answers, Statuses, Certificates
<1>3. pc = "target" /\ HasTarget
  BY DEF SpawnChild, Solvable, AtTarget
<1>4. polls' \in 0..Budget
  BY BudgetIsNatural DEF SpawnChild
<1>5. child' \in [state : {"running", "blocked", "exited", "failed"}, answer : Answers]
  BY <1>1, <1>2
<1>6. child'.state # "exited"
  BY <1>1
<1> QED BY <1>3, <1>4, <1>5, <1>6, ChildStepInv DEF SpawnChild, args

LEMMA ChildAnswersInv == IInv /\ ChildAnswers => IInv'
<1> SUFFICES ASSUME IInv, ChildAnswers PROVE IInv'
  OBVIOUS
<1>1. pc = "poll" /\ HasTarget
  BY DEF ChildAnswers, IInv, TypeOK, ChildInv
<1>2. PICK answer \in SolveOutcomes(ChildModel, target, certify) :
        \/ child' = [state |-> "exited", answer |-> answer]
        \/ child' = [state |-> "blocked", answer |-> answer]
  BY DEF ChildAnswers
<1>3. answer \in Answers
  BY OutcomeType
<1>4. Justified(program[circuit], target, answer.status, answer.cert)
  BY <1>1, AnswerOfChild
<1>5. polls' \in 0..Budget
  BY DEF ChildAnswers, IInv, TypeOK
<1>6. child' \in [state : {"running", "blocked", "exited", "failed"}, answer : Answers]
  BY <1>2, <1>3
<1>7. Justified(program[circuit], target, child'.answer.status, child'.answer.cert)
  BY <1>2, <1>4
<1> QED BY <1>1, <1>5, <1>6, <1>7, ChildStepInv DEF ChildAnswers, args

LEMMA ChildFailsInv == IInv /\ ChildFails => IInv'
<1> SUFFICES ASSUME IInv, ChildFails PROVE IInv'
  OBVIOUS
<1>1. pc = "poll" /\ HasTarget
  BY DEF ChildFails, IInv, TypeOK, ChildInv
<1>2. child' \in [state : {"failed"}, answer : Answers]
  BY DEF ChildFails, IInv, ChildInv
<1>3. polls' \in 0..Budget
  BY DEF ChildFails, IInv, TypeOK
<1> QED BY <1>1, <1>2, <1>3, ChildStepInv DEF ChildFails, args

LEMMA PollInv == IInv /\ Poll => IInv'
<1> SUFFICES ASSUME IInv, Poll PROVE IInv'
  OBVIOUS
<1>1. pc = "poll" /\ HasTarget
  BY DEF Poll, Polling, IInv, ChildInv
<1>2. polls' \in 0..Budget
  BY BudgetIsNatural DEF Poll, IInv, TypeOK
<1>3. child' = child /\ child \in [state : {"running", "blocked"}, answer : Answers]
  BY DEF Poll, StillRuns, IInv, ChildInv
<1> QED BY <1>1, <1>2, <1>3, ChildStepInv DEF Poll, args

(* The reports given for a child: none of them is a verdict unless it exited. *)
LEMMA PollEndsInv ==
  ASSUME IInv, pc = "poll", NEW s \in {"unknown", "error"}, Record(Outcome(s, "none"))
  PROVE  IInv'
<1>1. HasTarget
  BY DEF IInv, ChildInv
<1> QED BY <1>1, RecordInv DEF Outcome, Statuses, Certificates, Justified

LEMMA ReadReportInv == IInv /\ ReadReport => IInv'
<1> SUFFICES ASSUME IInv, ReadReport PROVE IInv'
  OBVIOUS
<1>1. pc = "poll" /\ child.state = "exited" /\ Record(child.answer)
  BY DEF ReadReport, Polling
<1>2. /\ HasTarget /\ child.answer \in Answers
      /\ Justified(program[circuit], target, child.answer.status, child.answer.cert)
  BY <1>1 DEF IInv, ChildInv
<1>3. child.answer \in [status : Statuses, cert : Certificates] /\ child.answer.status # "unsupported"
  BY <1>2 DEF Answers
<1> QED BY <1>1, <1>2, <1>3, RecordInv

(* A circuit is finished: it becomes a deterministic callee when all its returns
   were verified, and no other circuit's standing changes.                      *)
LEMMA EndCircuitInv == IInv /\ EndCircuit => IInv'
<1> SUFFICES ASSUME IInv, EndCircuit PROVE IInv'
  OBVIOUS
<1>1. /\ pc = "target" /\ ~HasTarget
      /\ deterministic' = deterministic \cup IF ReturnsAllVerified THEN {circuit} ELSE {}
      /\ circuit' = IF circuit > 1 THEN circuit - 1 ELSE circuit
      /\ pc' = IF circuit > 1 THEN "build" ELSE "done"
      /\ UNCHANGED <<program, noSolve, noRefine, targetTimeout, certify, known, position, child, polls,
                     reports, summary>>
  BY DEF EndCircuit, args
<1>2. /\ program \in Programs /\ circuit \in DOMAIN program
      /\ Len(program) \in Nat /\ DOMAIN program = 1..Len(program)
  BY ProgramFacts DEF IInv, TypeOK
<1>3. circuit \in Nat /\ circuit >= 1 /\ circuit' \in DOMAIN program
  BY <1>1, <1>2
<1>4. TypeOK'
  BY <1>1, <1>2, <1>3 DEF IInv, TypeOK
<1>5. KnownInv' /\ ChildInv'
  BY <1>1 DEF IInv, KnownInv, Analysing, ChildInv
<1>6. ReturnsAllVerified <=> AllVerified(circuit)
  BY DEF ReturnsAllVerified, VerifiedWires, AllVerified
<1>7. DeterministicInv'
  <2>1. \A d : AllVerified(d)' <=> AllVerified(d)
    BY <1>1 DEF AllVerified
  <2>2. \A d \in deterministic : d > circuit
    BY <1>1 DEF IInv, DeterministicInv, Finished
  <2>3. \A d \in deterministic : d \in DOMAIN program
    BY DEF IInv, TypeOK
  <2>4. ASSUME NEW d \in deterministic'
        PROVE  Finished(d)'
    BY <1>1, <1>2, <1>3, <2>2, <2>3, <2>4 DEF Finished
  <2>5. ASSUME NEW d \in DOMAIN program, d > circuit'
        PROVE  d \in deterministic' <=> AllVerified(d)
    <3>1. CASE d = circuit
      BY <1>1, <1>6, <2>2, <1>3, <3>1
    <3>2. CASE d # circuit
      <4>1. d > circuit
        BY <1>1, <1>2, <1>3, <2>5, <3>2
      <4> QED BY <1>1, <3>2, <4>1 DEF IInv, DeterministicInv
    <3> QED BY <3>1, <3>2
  <2> QED BY <1>1, <2>1, <2>4, <2>5 DEF DeterministicInv
<1>8. ProgressInv'
  <2>1. Len(reports[circuit]) = Len(Targets(circuit))
    <3>1. /\ position = Len(reports[circuit]) + 1 /\ position <= Len(Targets(circuit)) + 1
          /\ position > Len(Targets(circuit)) /\ position \in Nat
      BY <1>1, <1>2, CallerFacts, LenProperties DEF IInv, ProgressInv, TypeOK, HasTarget, Targets
    <3>2. Len(Targets(circuit)) \in Nat
      BY <1>2, CallerFacts, LenProperties
    <3>3. Len(reports[circuit]) \in Nat
      BY <1>2, LenProperties DEF IInv, ReportTypes
    <3> QED BY <3>1, <3>2, <3>3
  <2>2. ASSUME NEW i \in DOMAIN program
        PROVE  Finished(i)' => i = circuit \/ Finished(i)
    <3> SUFFICES ASSUME Finished(i)', i # circuit
                 PROVE  i > circuit
      BY DEF Finished
    <3>1. CASE circuit > 1
      BY <1>1, <1>2, <1>3, <3>1 DEF Finished
    <3>2. CASE ~(circuit > 1)
      BY <1>2, <1>3, <3>2
    <3> QED BY <3>1, <3>2
  <2>3. \A i \in DOMAIN program : i < circuit' => i < circuit
    BY <1>1, <1>2, <1>3
  <2>4. pc' = "build" => circuit' \in DOMAIN program /\ circuit' < circuit
    BY <1>1, <1>3
  <2>5. pc' = "done" => circuit' = 1
    BY <1>1, <1>3
  <2> QED BY <1>1, <2>1, <2>2, <2>3, <2>4, <2>5 DEF IInv, ProgressInv, Targets
<1> QED BY <1>1, <1>4, <1>5, <1>7, <1>8, ReportsKept DEF IInv

LEMMA StutterInv == IInv /\ UNCHANGED vars => IInv'
<1> SUFFICES ASSUME IInv, UNCHANGED vars PROVE IInv'
  OBVIOUS
<1>1. UNCHANGED <<program, noSolve, noRefine, targetTimeout, certify, pc, circuit, known,
                  deterministic, position, child, polls, reports, summary>>
  BY DEF vars
<1>2. TypeOK' /\ KnownInv'
  BY <1>1 DEF IInv, TypeOK, KnownInv, Analysing
<1>3. DeterministicInv'
  <2>1. \A i : AllVerified(i)' <=> AllVerified(i)
    BY <1>1 DEF AllVerified
  <2> QED BY <1>1, <2>1 DEF IInv, DeterministicInv, Finished
<1>4. ChildInv' /\ ProgressInv'
  BY <1>1 DEF IInv, ChildInv, HasTarget, target, ProgressInv, Finished, Targets
<1> QED BY <1>1, <1>2, <1>3, <1>4, ReportsKept DEF IInv

LEMMA NextInv == IInv /\ [Next]_vars => IInv'
<1> SUFFICES ASSUME IInv, [Next]_vars PROVE IInv'
  OBVIOUS
<1>1. CASE BuildModel \/ RefineModel
  BY <1>1, BuildModelInv, RefineModelInv
<1>2. CASE NotSolved \/ Unsupported \/ SolveHere
  BY <1>2, NotSolvedInv, UnsupportedInv, SolveHereInv
<1>3. CASE SpawnChild \/ Child \/ Poll
  BY <1>3, SpawnChildInv, ChildAnswersInv, ChildFailsInv, PollInv DEF Child
<1>4. CASE KillOverrun \/ ChildError \/ TryWaitFails
  BY <1>4, PollEndsInv DEF KillOverrun, ChildError, TryWaitFails, Polling
<1>5. CASE ReadReport
  BY <1>5, ReadReportInv
<1>6. CASE EndCircuit
  BY <1>6, EndCircuitInv
<1>7. CASE Done \/ UNCHANGED vars
  BY <1>7, StutterInv DEF Done
<1> QED BY <1>1, <1>2, <1>3, <1>4, <1>5, <1>6, <1>7 DEF Next, Parent

-----------------------------------------------------------------------------
(* The theorems of the specification. *)

(* The inductive invariant. *)
THEOREM SpecInv == Spec => []IInv
BY InitInv, NextInv, PTL DEF Spec

(* Each query of a circuit is built from a sound model: the calls it abstracts
   are functions, and the wires it cuts at are unique.                        *)
THEOREM ModelsStaySound == Spec => []ModelIsSound
<1>1. IInv => ModelIsSound
  BY ModelFacts DEF IInv, ModelIsSound, Analysing
<1> QED BY <1>1, SpecInv, PTL

(* Every report of the scan means what its verdict says. *)
THEOREM ScanIsJustified == Spec => []ReportsJustified
<1>1. IInv => ReportsJustified
  BY DEF IInv
<1> QED BY <1>1, SpecInv, PTL

(* A call to a circuit whose returns were all verified never makes a target
   unsupported.                                                               *)
THEOREM CalleesAreUsed == Spec => []VerifiedCalleesAreUsed
<1>1. IInv => VerifiedCalleesAreUsed
  BY DEF IInv
<1> QED BY <1>1, SpecInv, PTL

(* At the end every target of every circuit has its report, the summary counts
   them and the exit code follows from it.                                    *)
THEOREM EveryTargetReported == Spec => []NothingLost
<1>1. ASSUME IInv, pc = "done", NEW s \in Statuses
      PROVE  summary[s] > 0 <=> \E i \in DOMAIN program : \E j \in DOMAIN reports[i] : reports[i][j].status = s
  <2>1. IsFiniteSet(Reported(s)) /\ summary[s] = Cardinality(Reported(s)) /\ summary[s] \in Nat
    BY <1>1 DEF IInv, CountInv, TypeOK
  <2>2. summary[s] > 0 <=> Reported(s) # {}
    BY <2>1, FS_EmptySet
  <2>3. Reported(s) # {} <=> \E i \in DOMAIN program : \E j \in DOMAIN reports[i] : reports[i][j].status = s
    <3>1. ASSUME NEW i \in DOMAIN program, NEW j \in DOMAIN reports[i], reports[i][j].status = s
          PROVE  <<i, j>> \in Reported(s)
      BY <3>1 DEF Reported
    <3>2. ASSUME NEW p \in Reported(s)
          PROVE  \E i \in DOMAIN program : \E j \in DOMAIN reports[i] : reports[i][j].status = s
      BY <3>2 DEF Reported
    <3> QED BY <3>1, <3>2
  <2> QED BY <2>2, <2>3
<1>2. ASSUME IInv, pc = "done"
      PROVE  \A i \in DOMAIN program :
               /\ Len(reports[i]) = Len(program[i].targets)
               /\ \A j \in DOMAIN reports[i] : reports[i][j].wire = program[i].targets[j]
  BY <1>2 DEF IInv, ProgressInv, Finished, Targets
<1>3. IInv => NothingLost
  BY <1>1, <1>2 DEF NothingLost, ExitCode, Statuses, IInv, CountInv
<1> QED BY <1>3, SpecInv, PTL
=============================================================================
