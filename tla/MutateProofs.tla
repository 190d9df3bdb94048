---------------------------- MODULE MutateProofs ----------------------------
(***************************************************************************)
(* Three results about the mutation search, for every circuit, every list  *)
(* of candidates and every bound on preferences, rounds and walks: its     *)
(* counters add up (EveryAttemptIsCounted), a finding is a second run with *)
(* the same inputs (FindingsReal), and every step takes the search forward *)
(* through its nested loops (SearchMovesForward).                          *)
(***************************************************************************)
EXTENDS Mutate, CircuitTheorems

Statuses == {"accepted", "refuted", "unjudged"}

(* An attempt is under way from Begin until its outcome is received. *)
UnderWay == IF pc = "idle" THEN 0 ELSE 1

Counted == report["accepted"] + report["acceptedInputs"] + report["refuted"] + report["unjudged"]

CountersInv == Counters \subseteq DOMAIN report /\ \A k \in Counters : report[k] \in Int

StatusInv == pc \in {"judged", "done"} => result \in [solved : BOOLEAN, status : Statuses]

(* The attempt under way is the only one that is counted as attempted and not
   yet as anything else.                                                      *)
FunnelInv == CountersInv /\ StatusInv /\ report["attempted"] = Counted + UnderWay

LEMMA InitFunnel == Init => FunnelInv
<1> SUFFICES ASSUME Init PROVE FunnelInv
  OBVIOUS
<1>1. \A k \in Counters : k \in DOMAIN report /\ report[k] = 0
  BY DEF Init, Counters
<1>2. pc = "idle"
  BY DEF Init
<1> QED BY <1>1, <1>2 DEF FunnelInv, CountersInv, StatusInv, Counted, UnderWay, Counters

-----------------------------------------------------------------------------
(* What a step of repair does to its answer. *)

LEMMA WalkSteps ==
  ASSUME SkipHint \/ CheckExpression \/ DeriveUnknown \/ DeferExpression \/ AbsorbViolation
           \/ InitBlock \/ DeferInit \/ DeferAccess \/ ReadCell \/ WriteCell \/ WriteHint
           \/ DeferWrite \/ DeriveBlackBox \/ DeferBlackBox
  PROVE  pc = "walk" /\ pc' = "walk"
<1> USE DEF InPass, Accessing, Advance, Pass, Learn, Defer
<1>1. CASE SkipHint \/ CheckExpression \/ DeriveUnknown \/ DeferExpression \/ AbsorbViolation
  BY <1>1 DEF SkipHint, CheckExpression, DeriveUnknown, DeferExpression, AbsorbViolation
<1>2. CASE InitBlock \/ DeferInit \/ DeferAccess \/ ReadCell \/ WriteCell \/ WriteHint \/ DeferWrite
  BY <1>2 DEF InitBlock, DeferInit, DeferAccess, ReadCell, WriteCell, WriteHint, DeferWrite
<1>3. CASE DeriveBlackBox \/ DeferBlackBox
  BY <1>3 DEF DeriveBlackBox, DeferBlackBox
<1> QED BY <1>1, <1>2, <1>3

LEMMA RejectingSteps ==
  ASSUME RejectExpression \/ RejectIndex \/ RejectRead \/ RejectBlackBox
  PROVE  pc = "walk" /\ pc' = "judged" /\ result' \in [solved : BOOLEAN, status : Statuses]
<1>1. pc = "walk" /\ pc' = "judged" /\ result' = Outcome(FALSE, "refuted")
  BY DEF RejectExpression, RejectIndex, RejectRead, RejectBlackBox, InPass, Accessing, Reject
<1>2. Outcome(FALSE, "refuted") \in [solved : BOOLEAN, status : Statuses]
  BY DEF Outcome, Statuses
<1> QED BY <1>1, <1>2

LEMMA LoopSteps ==
  ASSUME RestartRound \/ WalkAgain \/ WalksRunOut \/ Settle \/ FillHints \/ EndFilled \/ CheckOpcode
  PROVE  pc \in {"walk", "free", "certify"} /\ pc' \in {"walk", "free", "certify"}
BY DEF RestartRound, WalkAgain, WalksRunOut, Settle, FillHints, EndFilled, CheckOpcode, PassOver, Unfinished,
       Filled, Checking, NextRound, StartPass

LEMMA JudgingSteps ==
  ASSUME Incomplete \/ Refused \/ Certified
  PROVE  pc = "certify" /\ pc' = "judged" /\ result' \in [solved : BOOLEAN, status : Statuses]
<1>1. pc = "certify" /\ pc' = "judged" /\ \E s \in Statuses : result' = Outcome(TRUE, s)
  BY DEF Incomplete, Refused, Certified, Checking, Judge, Statuses
<1>2. \A s \in Statuses : Outcome(TRUE, s) \in [solved : BOOLEAN, status : Statuses]
  BY DEF Outcome
<1> QED BY <1>1, <1>2

(* A cut-off changes a refutation into no answer, never into an acceptance. *)
LEMMA PreferenceSteps ==
  ASSUME StatusInv, NextPreference \/ Conclude \/ OutOfChoices
  PROVE  /\ pc = "judged"
         /\ pc' = "walk" \/ (pc' = "done" /\ result' \in [solved : BOOLEAN, status : Statuses])
<1>1. CASE NextPreference
  BY <1>1 DEF NextPreference, StartAttempt, StartPass
<1>2. CASE Conclude
  BY <1>2 DEF Conclude, StatusInv
<1>3. CASE OutOfChoices
  <2>1. pc = "judged" /\ pc' = "done"
    BY <1>3 DEF OutOfChoices
  <2>2. result \in [solved : BOOLEAN, status : Statuses]
    BY <2>1 DEF StatusInv
  <2>3. result' = result \/ result' = [result EXCEPT !.status = "unjudged"]
    BY <1>3 DEF OutOfChoices
  <2> QED BY <2>1, <2>2, <2>3 DEF Statuses
<1> QED BY <1>1, <1>2, <1>3

LEMMA RepairKeepsStatus ==
  ASSUME StatusInv, RepairStep
  PROVE  StatusInv' /\ pc # "idle" /\ pc' # "idle"
<1> DEFINE Walks == SkipHint \/ CheckExpression \/ DeriveUnknown \/ DeferExpression \/ AbsorbViolation
                      \/ InitBlock \/ DeferInit \/ DeferAccess \/ ReadCell \/ WriteCell \/ WriteHint
                      \/ DeferWrite \/ DeriveBlackBox \/ DeferBlackBox
           Rejects == RejectExpression \/ RejectIndex \/ RejectRead \/ RejectBlackBox
           Loops == RestartRound \/ WalkAgain \/ WalksRunOut \/ Settle \/ FillHints \/ EndFilled \/ CheckOpcode
           Judges == Incomplete \/ Refused \/ Certified
           Preferences == NextPreference \/ Conclude \/ OutOfChoices
<1>1. Walks \/ Rejects \/ Loops \/ Judges \/ Preferences
  BY DEF RepairStep
<1>2. CASE Walks
  BY <1>2, WalkSteps DEF StatusInv
<1>3. CASE Rejects
  BY <1>3, RejectingSteps DEF StatusInv
<1>4. CASE Loops
  BY <1>4, LoopSteps DEF StatusInv
<1>5. CASE Judges
  BY <1>5, JudgingSteps DEF StatusInv
<1>6. CASE Preferences
  BY <1>6, PreferenceSteps DEF StatusInv
<1> QED BY <1>1, <1>2, <1>3, <1>4, <1>5, <1>6

-----------------------------------------------------------------------------
(* Every step of the search keeps the invariant. *)

LEMMA AttemptKeepsFunnel ==
  ASSUME FunnelInv, Attempt
  PROVE  FunnelInv'
<1>1. pc = "idle" /\ pc' = "walk" /\ report' = [report EXCEPT !["attempted"] = @ + 1]
  BY DEF Attempt, Begin, StartAttempt, StartPass
<1> QED BY <1>1 DEF FunnelInv, CountersInv, StatusInv, Counted, UnderWay, Counters

(* What is received is counted as one of accepted, accepted input, refuted and
   unjudged, and only as one.                                                 *)
LEMMA ReceiveKeepsFunnel ==
  ASSUME FunnelInv, NotAccepted \/ Finding \/ InternalOnly \/ AcceptedInput
  PROVE  FunnelInv'
<1> DEFINE R == Record(report)
<1>1. pc = "done" /\ pc' = "idle"
  BY DEF NotAccepted, Finding, InternalOnly, AcceptedInput, Receive
<1>2. result.status \in Statuses
  BY <1>1 DEF FunnelInv, StatusInv
<1>3. /\ DOMAIN R = DOMAIN report
      /\ \A k \in Counters \ {"repaired", "refuted", "unjudged"} : R[k] = report[k]
      /\ R["repaired"] = report["repaired"] + Bit(result.solved)
      /\ R["refuted"] = report["refuted"] + Bit(result.status = "refuted")
      /\ R["unjudged"] = report["unjudged"] + Bit(result.status = "unjudged")
  BY DEF FunnelInv, CountersInv, Record, Counters
<1>4. Bit(result.solved) \in Int
  BY DEF Bit
<1>5. Counters \subseteq DOMAIN R /\ \A k \in Counters : R[k] \in Int
  BY <1>3, <1>4 DEF FunnelInv, CountersInv, Counters, Bit
<1>6. CASE NotAccepted
  <2>1. report' = R /\ result.status \in {"refuted", "unjudged"}
    BY <1>2, <1>6 DEF NotAccepted, Receive, Accepted, Statuses
  <2> QED BY <1>1, <1>3, <1>5, <2>1 DEF FunnelInv, CountersInv, StatusInv, Counted, UnderWay, Counters, Bit
<1>7. ASSUME result.status = "accepted"
      PROVE  /\ R["refuted"] = report["refuted"] /\ R["unjudged"] = report["unjudged"]
             /\ R["accepted"] = report["accepted"] /\ R["acceptedInputs"] = report["acceptedInputs"]
             /\ R["attempted"] = report["attempted"]
  BY <1>3, <1>7 DEF FunnelInv, CountersInv, Counters, Bit
<1>8. CASE Finding
  <2>1. /\ result.status = "accepted"
        /\ DOMAIN report' = DOMAIN R
        /\ report'["accepted"] = R["accepted"] + 1
        /\ \A k \in Counters \ {"accepted"} : report'[k] = R[k]
    BY <1>5, <1>8 DEF Finding, Receive, Accepted, Counters
  <2> QED BY <1>1, <1>5, <1>7, <2>1 DEF FunnelInv, CountersInv, StatusInv, Counted, UnderWay, Counters
<1>9. CASE InternalOnly
  <2>1. /\ result.status = "accepted"
        /\ DOMAIN report' = DOMAIN R
        /\ report'["accepted"] = R["accepted"] + 1 /\ report'["internal"] = R["internal"] + 1
        /\ \A k \in Counters \ {"accepted", "internal"} : report'[k] = R[k]
    BY <1>5, <1>9 DEF InternalOnly, Receive, Accepted, Counters
  <2> QED BY <1>1, <1>5, <1>7, <2>1 DEF FunnelInv, CountersInv, StatusInv, Counted, UnderWay, Counters
<1>10. CASE AcceptedInput
  <2>1. /\ result.status = "accepted"
        /\ DOMAIN report' = DOMAIN R
        /\ report'["acceptedInputs"] = R["acceptedInputs"] + 1
        /\ \A k \in Counters \ {"acceptedInputs"} : report'[k] = R[k]
    BY <1>5, <1>10 DEF AcceptedInput, Receive, Accepted, Counters
  <2> QED BY <1>1, <1>5, <1>7, <2>1 DEF FunnelInv, CountersInv, StatusInv, Counted, UnderWay, Counters
<1> QED BY <1>6, <1>8, <1>9, <1>10

(* Between attempts only the number of hints changes. *)
LEMMA BetweenKeepsFunnel ==
  ASSUME FunnelInv, NextWitness \/ OutOfTime \/ NextPhase \/ GiveUpWitness
  PROVE  FunnelInv'
<1>1. pc = "idle" /\ pc' = pc /\ result' = result
  BY DEF NextWitness, OutOfTime, NextPhase, GiveUpWitness, Between, repairVars
<1>2. report' = report \/ report' = [report EXCEPT !["hints"] = @ + 1]
  BY DEF NextWitness, OutOfTime, NextPhase, GiveUpWitness
<1> QED BY <1>1, <1>2 DEF FunnelInv, CountersInv, StatusInv, Counted, UnderWay, Counters

LEMMA NextKeepsFunnel == FunnelInv /\ [Next]_vars => FunnelInv'
<1> SUFFICES ASSUME FunnelInv, [Next]_vars PROVE FunnelInv'
  OBVIOUS
<1>1. CASE NextWitness \/ OutOfTime \/ NextPhase \/ GiveUpWitness
  BY <1>1, BetweenKeepsFunnel
<1>2. CASE Attempt
  BY <1>2, AttemptKeepsFunnel
<1>3. CASE RepairStep /\ UNCHANGED <<searchVars, report>>
  <2>1. StatusInv' /\ UnderWay' = UnderWay
    BY <1>3, RepairKeepsStatus DEF FunnelInv, UnderWay
  <2>2. report' = report
    BY <1>3
  <2> QED BY <2>1, <2>2 DEF FunnelInv, CountersInv, Counted
<1>4. CASE NotAccepted \/ Finding \/ InternalOnly \/ AcceptedInput
  BY <1>4, ReceiveKeepsFunnel
<1>5. CASE UNCHANGED vars
  BY <1>5 DEF vars, repairVars, FunnelInv, CountersInv, StatusInv, Counted, UnderWay
<1> QED BY <1>1, <1>2, <1>3, <1>4, <1>5 DEF Next, Finished

(* Between two attempts, every attempt so far is counted exactly once as
   accepted, accepted input, refuted or unjudged (mutate.rs:74, 113).         *)
THEOREM EveryAttemptIsCounted == Spec => []FunnelAddsUp
<1>1. FunnelInv => FunnelAddsUp
  BY DEF FunnelInv, CountersInv, FunnelAddsUp, Counted, UnderWay, Counters
<1> QED BY <1>1, InitFunnel, NextKeepsFunnel, PTL DEF Spec

-----------------------------------------------------------------------------
(* Every finding is real.  The invariant follows one attempt: what it was
   given, what it has to keep, and what its certificate has checked so far.  *)

JobInv ==
  /\ circuit \in Circuits
  /\ honest \in [circuit.wires -> Field] /\ IsRun(circuit, honest)
  /\ pc # "idle" => mutated \in circuit.wires /\ value \in Field

(* The inputs and the moved witness have the values the attempt began with. *)
Keeps(f) == \A w \in circuit.inputs \cup {mutated} : w \in DOMAIN f /\ f[w] = Commitments(mutated, value)[w]

CommitInv == pc # "idle" => Keeps(pinned) /\ Keeps(assignment)

BlocksInv == \A b \in DOMAIN blocks : blocks[b] \in Seq(Field)

(* The certificate has the memory of a run, and what it let pass holds. *)
CertifyInv ==
  pc = "certify" => /\ Tracks(circuit, assignment, blocks, index)
                    /\ \A j \in 1..index-1 : Fulfilled(circuit, assignment, j)

AcceptInv == pc \in {"judged", "done"} /\ Accepted => IsRun(circuit, assignment)

RepairInv ==
  /\ RepairTypeOK /\ JobInv /\ CommitInv /\ BlocksInv /\ space \in Nat \ {0}
  /\ CertifyInv /\ AcceptInv

(* The witnesses of a phase. *)
Searched ==
  IF phase = "returns" THEN circuit.returns \ circuit.inputs
  ELSE IF phase = "inputs" THEN circuit.inputs
  ELSE circuit.wires \ circuit.inputs

SearchInv ==
  /\ phase \in {"returns", "inputs", "surface", "done"}
  /\ todo \in Seq(Searched)
  /\ searching = << >> \/ \E w \in Searched : searching = <<w>>
  /\ alternatives \in Seq(Field)
  /\ searching # << >> /\ phase = "returns" =>
       \A i \in DOMAIN alternatives : alternatives[i] # honest[searching[1]]
  /\ pc # "idle" => searching = <<mutated>> /\ (phase = "returns" => value # honest[mutated])

(* A second run of the circuit, with the same inputs and another return value. *)
Second(f) ==
  /\ IsRun(circuit, f.assignment)
  /\ \A w \in circuit.inputs : f.assignment[w] = honest[w]
  /\ \E w \in circuit.returns : f.assignment[w] # honest[w]

Partial == UNION {[D -> Field] : D \in SUBSET circuit.wires}

Found == {f \in [witness : circuit.wires, alternative : Field, assignment : Partial] : Second(f)}

ReportInv ==
  /\ \A k \in Counters : report[k] \in Nat
  /\ "findings" \in DOMAIN report
  /\ report["findings"] \in Seq(Found)

RealInv == RepairInv /\ SearchInv /\ ReportInv

-----------------------------------------------------------------------------
(* The steps of a walk. *)

LEMMA RepairTypes ==
  ASSUME RepairInv
  PROVE  /\ DOMAIN pinned \subseteq circuit.wires /\ pinned \in [DOMAIN pinned -> Field]
         /\ DOMAIN assignment \subseteq circuit.wires /\ assignment \in [DOMAIN assignment -> Field]
         /\ DOMAIN corrected \subseteq Soft /\ corrected \in [DOMAIN corrected -> Field]
         /\ hardened \subseteq DOMAIN corrected
         /\ circuit \in Circuits /\ honest \in [circuit.wires -> Field] /\ IsRun(circuit, honest)
         /\ WellFormedCircuit(circuit) /\ Len(circuit.opcodes) \in Nat
BY CircuitFacts, CircuitsWellFormed DEF RepairInv, RepairTypeOK, JobInv

LEMMA OpcodeFacts ==
  ASSUME RepairInv, index <= Len(circuit.opcodes)
  PROVE  /\ index \in 1..Len(circuit.opcodes)
         /\ opcode.wires \subseteq circuit.wires /\ WellFormedOpcode(opcode)
         /\ index + 1 \in 1..Len(circuit.opcodes) + 1
<1>1. Len(circuit.opcodes) \in Nat /\ index \in 1..Len(circuit.opcodes) + 1 /\ WellFormedCircuit(circuit)
  BY RepairTypes DEF RepairInv, RepairTypeOK
<1>2. index \in 1..Len(circuit.opcodes)
  BY <1>1
<1> QED BY <1>1, <1>2, CircuitFacts DEF opcode

(* What is learned adds to the assignment and changes nothing in it. *)
LEMMA AdvanceKeeps ==
  ASSUME RepairInv, pc = "walk", index <= Len(circuit.opcodes), NEW learned, Advance(learned),
         learned \in [DOMAIN learned -> Field], DOMAIN learned \subseteq circuit.wires,
         \A w \in DOMAIN learned \cap DOMAIN assignment : learned[w] = assignment[w],
         BlocksInv'
  PROVE  RepairInv'
<1>1. /\ index' = index + 1 /\ assignment' = Overlay(learned, assignment)
      /\ UNCHANGED <<circuit, honest, mutated, value, pc, preference, pinned, round, walk, space, result, corrected, hardened>>
  BY DEF Advance, job, attempt, loop, choice
<1>2. index + 1 \in 1..Len(circuit.opcodes) + 1
  BY OpcodeFacts
<1>3. /\ DOMAIN assignment' = DOMAIN learned \cup DOMAIN assignment
      /\ assignment' \in [DOMAIN assignment' -> Field]
      /\ \A w \in DOMAIN assignment : assignment'[w] = assignment[w]
  <2>1. Valued(assignment) /\ Valued(learned)
    BY RepairTypes DEF Valued
  <2>2. Valued(assignment')
    BY <1>1, <2>1, OverlayType
  <2>3. /\ DOMAIN assignment' = DOMAIN learned \cup DOMAIN assignment
        /\ \A w \in DOMAIN learned : assignment'[w] = learned[w]
        /\ \A w \in DOMAIN assignment : w \notin DOMAIN learned => assignment'[w] = assignment[w]
    <3>1. assignment' = Overlay(learned, assignment)
      BY <1>1
    <3> QED BY ONLY <3>1 DEF Overlay
  <2> QED BY <2>2, <2>3 DEF Valued
<1>4. RepairTypeOK'
  <2>1. DOMAIN assignment' \subseteq circuit'.wires
    BY <1>1, <1>3, RepairTypes
  <2>2. RepairTypeOK
    BY DEF RepairInv
  <2>3. Soft' = Soft
    BY <1>1 DEF Soft
  <2> QED BY <1>1, <1>2, <1>3, <2>1, <2>2, <2>3 DEF RepairTypeOK
<1>5. JobInv'
  BY <1>1 DEF RepairInv, JobInv
<1>6. CommitInv'
  <2>1. Keeps(pinned) /\ Keeps(assignment)
    BY DEF RepairInv, CommitInv
  <2>2. \A w \in circuit.inputs \cup {mutated} :
          /\ w \in DOMAIN assignment' /\ assignment'[w] = Commitments(mutated, value)[w]
          /\ w \in DOMAIN pinned' /\ pinned'[w] = Commitments(mutated, value)[w]
    BY <1>1, <1>3, <2>1 DEF Keeps
  <2>3. Commitments(mutated, value)' = Commitments(mutated, value)
    BY <1>1 DEF Commitments
  <2> QED BY <1>1, <2>2, <2>3 DEF CommitInv, Keeps
<1>7. CertifyInv' /\ AcceptInv' /\ (space \in Nat \ {0})'
  BY <1>1 DEF RepairInv, CertifyInv, AcceptInv
<1> QED BY <1>4, <1>5, <1>6, <1>7 DEF RepairInv

LEMMA PassKeeps ==
  ASSUME RepairInv, pc = "walk", index <= Len(circuit.opcodes), Advance(<< >>), BlocksInv'
  PROVE  RepairInv'
<1> DEFINE none == << >>
<1>1. DOMAIN none = {} /\ none \in [DOMAIN none -> Field] /\ Advance(none)
  OBVIOUS
<1> HIDE DEF none
<1> QED BY <1>1, AdvanceKeeps

LEMMA LearnKeeps ==
  ASSUME RepairInv, pc = "walk", index <= Len(circuit.opcodes),
         NEW w \in circuit.wires, NEW v \in Field, w \notin Assigned, Advance(Entry(w, v)), BlocksInv'
  PROVE  RepairInv'
<1>1. DOMAIN Entry(w, v) = {w} /\ Entry(w, v) \in [DOMAIN Entry(w, v) -> Field]
  BY EntryFacts
<1> QED BY <1>1, AdvanceKeeps DEF Assigned

LEMMA SameBlocks == ASSUME RepairInv, UNCHANGED blocks PROVE BlocksInv'
BY DEF RepairInv, BlocksInv

LEMMA ExpressionSteps ==
  ASSUME RepairInv, SkipHint \/ CheckExpression \/ DeriveUnknown \/ DeferExpression
  PROVE  RepairInv'
<1>1. pc = "walk" /\ index <= Len(circuit.opcodes)
  BY DEF SkipHint, CheckExpression, DeriveUnknown, DeferExpression, InPass
<1>2. UNCHANGED blocks
  BY DEF SkipHint, CheckExpression, DeriveUnknown, DeferExpression, Pass, Learn, Defer
<1>3. BlocksInv'
  BY <1>2, SameBlocks
<1>4. CASE SkipHint \/ CheckExpression \/ DeferExpression
  <2>1. Advance(<< >>)
    BY <1>4 DEF SkipHint, CheckExpression, DeferExpression, Pass, Defer
  <2> QED BY <1>1, <1>3, <2>1, PassKeeps
<1>5. CASE DeriveUnknown
  <2>1. PICK s \in Derivable(opcode) : Advance(Entry(s[1], s[2]))
    BY <1>5 DEF DeriveUnknown, Learn
  <2>2. \E w \in Unknown(opcode) : \E v \in SolveFor(opcode, w) : s = <<w, v>>
    BY DEF Derivable
  <2>0. PICK w \in Unknown(opcode) : \E v \in SolveFor(opcode, w) : s = <<w, v>>
    BY <2>2
  <2>3. PICK v \in SolveFor(opcode, w) : s = <<w, v>>
    BY <2>0
  <2>4. v \in Field
    BY <2>3 DEF SolveFor
  <2>5. w \in circuit.wires /\ w \notin Assigned
    BY <1>1, OpcodeFacts DEF Unknown
  <2>6. Advance(Entry(w, v))
    BY <2>1, <2>3
  <2> QED BY <1>1, <1>3, <2>4, <2>5, <2>6, LearnKeeps
<1> QED BY <1>4, <1>5

(* The digit of the preference picks one of the open hints. *)
LEMMA PickIsOpen ==
  ASSUME RepairInv, NEW open \in SUBSET circuit.wires, open # {}
  PROVE  Pick(open) \in open /\ Cardinality(open) \in Nat \ {0}
<1>1. open \in SUBSET Int /\ IsFiniteSet(open)
  <2>1. circuit.wires \subseteq Nat /\ IsFiniteSet(circuit.wires)
    BY RepairTypes, CircuitFacts
  <2> QED BY <2>1, FS_Subset
<1>2. Cardinality(open) \in Nat \ {0}
  BY <1>1, FS_CardinalityType, FS_EmptySet
<1> DEFINE digit == (preference \div space) % Cardinality(open)
<1>3. preference \div space \in Nat
  <2>1. preference \in Nat /\ space \in Nat \ {0}
    BY BoundsArePositive DEF RepairInv, RepairTypeOK
  <2> QED BY <2>1
<1>4. digit \in 0..Cardinality(open)-1
  BY <1>2, <1>3
<1> HIDE DEF digit
<1>5. \E w \in open : Cardinality({v \in open : v < w}) = digit
  BY <1>1, <1>4, RankExists
<1>6. Pick(open) = CHOOSE w \in open : Cardinality({v \in open : v < w}) = digit
  BY DEF Pick, digit
<1> QED BY <1>2, <1>5, <1>6

LEMMA ChooseKeeps ==
  ASSUME RepairInv, NEW open \in SUBSET circuit.wires, open # {}, Choose(open)
  PROVE  space' \in Nat \ {0}
<1>1. Cardinality(open) \in Nat \ {0}
  BY PickIsOpen
<1>2. space \in Nat \ {0}
  BY DEF RepairInv
<1>3. space' = space \/ space' = space * Cardinality(open)
  BY DEF Choose, choice
<1> QED BY <1>1, <1>2, <1>3

(* A hint absorbs the violation: it is none of what the attempt has to keep. *)
LEMMA AbsorbKeeps ==
  ASSUME RepairInv, AbsorbViolation
  PROVE  RepairInv'
<1> DEFINE open == Adjustable(opcode)
           w == Pick(open)
<1>1. /\ pc = "walk" /\ index <= Len(circuit.opcodes) /\ open # {} /\ Choose(open) /\ index' = index + 1
      /\ UNCHANGED <<circuit, honest, mutated, value, pc, preference, pinned, round, walk, blocks, result>>
  BY DEF AbsorbViolation, InPass, job, attempt, loop
<1>2. open \in SUBSET circuit.wires /\ open \subseteq Soft
  BY <1>1, OpcodeFacts DEF Adjustable
<1> HIDE DEF open
<1>3. w \in open /\ space' \in Nat \ {0}
  BY <1>1, <1>2, PickIsOpen, ChooseKeeps
<1>4. PICK v \in Field : /\ assignment' = Overlay(Entry(w, v), assignment)
                         /\ corrected' = Overlay(Entry(w, v), corrected)
                         /\ hardened' = hardened \cup {w}
  BY DEF AbsorbViolation, SolveFor, open
<1> HIDE DEF w
<1>5. DOMAIN Entry(w, v) = {w} /\ Entry(w, v) \in [DOMAIN Entry(w, v) -> Field]
  BY EntryFacts
<1>6. /\ DOMAIN assignment' = {w} \cup DOMAIN assignment /\ assignment' \in [DOMAIN assignment' -> Field]
      /\ \A x \in DOMAIN assignment \ {w} : assignment'[x] = assignment[x]
      /\ DOMAIN corrected' = {w} \cup DOMAIN corrected /\ corrected' \in [DOMAIN corrected' -> Field]
  <2>1. Valued(assignment) /\ Valued(corrected) /\ Valued(Entry(w, v))
    BY <1>5, RepairTypes DEF Valued
  <2>2. Valued(assignment') /\ Valued(corrected')
    BY <1>4, <2>1, OverlayType
  <2>3. /\ DOMAIN assignment' = {w} \cup DOMAIN assignment
        /\ \A x \in DOMAIN assignment \ {w} : assignment'[x] = assignment[x]
    <3>1. assignment' = Overlay(Entry(w, v), assignment)
      BY <1>4
    <3> QED BY ONLY <3>1 DEF Overlay, Entry
  <2>4. DOMAIN corrected' = {w} \cup DOMAIN corrected
    BY <1>4, <1>5, OverlayFacts
  <2> QED BY <2>2, <2>3, <2>4 DEF Valued
<1>7. index' \in 1..Len(circuit.opcodes) + 1
  BY <1>1, OpcodeFacts
<1>8. RepairTypeOK'
  <2>1. RepairTypeOK
    BY DEF RepairInv
  <2>2. Soft' = Soft
    BY <1>1 DEF Soft
  <2>3. DOMAIN assignment' \subseteq circuit.wires /\ DOMAIN corrected' \subseteq circuit.wires
    BY <1>2, <1>3, <1>6, <2>1 DEF RepairTypeOK
  <2>4. hardened' \subseteq DOMAIN corrected' /\ DOMAIN corrected' \subseteq Soft
    BY <1>2, <1>3, <1>4, <1>6, <2>1 DEF RepairTypeOK
  <2> QED BY <1>1, <1>6, <1>7, <2>1, <2>2, <2>3, <2>4 DEF RepairTypeOK
<1>9. CommitInv'
  <2>1. Keeps(pinned) /\ Keeps(assignment)
    BY <1>1 DEF RepairInv, CommitInv
  <2>2. w \notin circuit.inputs \cup {mutated}
    BY <1>2, <1>3, RepairTypes, CircuitFacts DEF Soft
  <2>3. \A x \in circuit.inputs \cup {mutated} :
          /\ x \in DOMAIN assignment' /\ assignment'[x] = Commitments(mutated, value)[x]
          /\ x \in DOMAIN pinned' /\ pinned'[x] = Commitments(mutated, value)[x]
    BY <1>1, <1>6, <2>1, <2>2 DEF Keeps
  <2>4. Commitments(mutated, value)' = Commitments(mutated, value)
    BY <1>1 DEF Commitments
  <2> QED BY <1>1, <2>3, <2>4 DEF CommitInv, Keeps
<1>10. JobInv' /\ BlocksInv' /\ CertifyInv' /\ AcceptInv'
  BY <1>1 DEF RepairInv, JobInv, BlocksInv, CertifyInv, AcceptInv
<1> QED BY <1>3, <1>8, <1>9, <1>10 DEF RepairInv

-----------------------------------------------------------------------------
(* Memory and black boxes. *)

LEMMA InitSteps ==
  ASSUME RepairInv, InitBlock \/ DeferInit
  PROVE  RepairInv'
<1>1. pc = "walk" /\ index <= Len(circuit.opcodes) /\ opcode.type = "MemoryInit" /\ Advance(<< >>)
  BY DEF InitBlock, DeferInit, InPass, opcode, Defer
<1>2. CASE DeferInit
  <2>1. BlocksInv'
    BY <1>2, SameBlocks DEF DeferInit, Defer
  <2> QED BY <1>1, <2>1, PassKeeps
<1>3. CASE InitBlock
  <2> DEFINE vals == [j \in DOMAIN opcode.init |-> assignment[opcode.init[j]]]
  <2>1. opcode.init \in Seq(opcode.wires) /\ Len(opcode.init) \in Nat
    BY <1>1, OpcodeFacts DEF WellFormedOpcode
  <2>2. opcode.wires \subseteq DOMAIN assignment
    BY <1>3 DEF InitBlock, Unknown, Assigned
  <2>3. assignment \in [DOMAIN assignment -> Field]
    BY RepairTypes
  <2>4. vals \in Seq(Field)
    <3>1. DOMAIN opcode.init = 1..Len(opcode.init)
      BY <2>1
    <3>2. \A j \in DOMAIN opcode.init : assignment[opcode.init[j]] \in Field
      BY <2>1, <2>2, <2>3
    <3> QED BY <2>1, <3>1, <3>2
  <2>5. blocks' = Overlay(Entry(opcode.block, vals), blocks)
    BY <1>1, <1>3 DEF InitBlock, BlocksAfter
  <2> HIDE DEF vals
  <2>6. \A b \in DOMAIN blocks : blocks[b] \in Seq(Field)
    BY DEF RepairInv, BlocksInv
  <2>7. BlocksInv'
    BY ONLY <2>4, <2>5, <2>6 DEF BlocksInv, Overlay, Entry
  <2> QED BY <1>1, <2>7, PassKeeps
<1> QED BY <1>2, <1>3

LEMMA AccessFacts ==
  ASSUME RepairInv, index <= Len(circuit.opcodes), IsAccess(opcode), Reachable(opcode),
         InBlock(opcode, assignment, blocks)
  PROVE  /\ blocks[opcode.block] \in Seq(Field)
         /\ assignment[opcode.index] + 1 \in DOMAIN blocks[opcode.block]
         /\ Cell(opcode) \in Field
         /\ opcode.value \in circuit.wires
<1> DEFINE s == blocks[opcode.block]
           at == assignment[opcode.index]
<1>1. s \in Seq(Field)
  BY DEF RepairInv, BlocksInv, Reachable
<1>2. at \in Nat
  <2>1. at \in Field
    BY RepairTypes DEF Reachable, Assigned
  <2> QED BY <2>1, ParametersAreNatural DEF Field
<1>3. at < Len(s)
  BY DEF InBlock
<1>4. opcode.value \in circuit.wires
  BY OpcodeFacts DEF WellFormedOpcode
<1>5. Cell(opcode) = s[at + 1]
  BY DEF Cell
<1> HIDE DEF s, at
<1>6. at + 1 \in DOMAIN s
  BY <1>1, <1>2, <1>3
<1>7. s[at + 1] \in Field
  BY <1>1, <1>6
<1> QED BY <1>1, <1>4, <1>5, <1>6, <1>7 DEF s, at

LEMMA StoreKeeps ==
  ASSUME RepairInv, index <= Len(circuit.opcodes), IsAccess(opcode), Reachable(opcode),
         InBlock(opcode, assignment, blocks), NEW v \in Field, Store(v)
  PROVE  BlocksInv'
<1> DEFINE b == opcode.block
           at == assignment[opcode.index] + 1
<1>1. blocks[b] \in Seq(Field) /\ at \in DOMAIN blocks[b] /\ b \in DOMAIN blocks
  BY AccessFacts DEF Reachable
<1>2. blocks' = [blocks EXCEPT ![b][at] = v]
  BY DEF Store
<1> HIDE DEF b, at
<1>3. [blocks[b] EXCEPT ![at] = v] \in Seq(Field)
  BY <1>1
<1>4. \A x \in DOMAIN blocks : blocks[x] \in Seq(Field)
  BY DEF RepairInv, BlocksInv
<1> QED BY ONLY <1>1, <1>2, <1>3, <1>4 DEF BlocksInv

LEMMA AccessSteps ==
  ASSUME RepairInv, DeferAccess \/ ReadCell \/ WriteCell \/ WriteHint \/ DeferWrite
  PROVE  RepairInv'
<1>1. pc = "walk" /\ index <= Len(circuit.opcodes) /\ IsAccess(opcode)
  BY DEF DeferAccess, ReadCell, WriteCell, WriteHint, DeferWrite, Accessing, InPass, opcode, IsAccess
<1>2. CASE DeferAccess \/ DeferWrite
  <2>1. Advance(<< >>) /\ UNCHANGED blocks
    BY <1>2 DEF DeferAccess, DeferWrite, Defer
  <2> QED BY <1>1, <2>1, SameBlocks, PassKeeps
<1>3. CASE ReadCell
  <2>1. Reachable(opcode) /\ InBlock(opcode, assignment, blocks) /\ UNCHANGED blocks
    BY <1>3 DEF ReadCell, Accessing, Pass, Learn
  <2>2. BlocksInv'
    BY <2>1, SameBlocks
  <2>3. CASE opcode.value \in Assigned
    <3>1. Advance(<< >>)
      BY <1>3, <2>3 DEF ReadCell, Pass
    <3> QED BY <1>1, <2>2, <3>1, PassKeeps
  <2>4. CASE opcode.value \notin Assigned
    <3>1. Advance(Entry(opcode.value, Cell(opcode)))
      BY <1>3, <2>4 DEF ReadCell, Learn
    <3>2. Cell(opcode) \in Field /\ opcode.value \in circuit.wires
      BY <1>1, <2>1, AccessFacts
    <3> QED BY <1>1, <2>2, <2>4, <3>1, <3>2, LearnKeeps
  <2> QED BY <2>3, <2>4
<1>4. CASE WriteCell
  <2>1. /\ Reachable(opcode) /\ InBlock(opcode, assignment, blocks)
        /\ opcode.value \in Assigned /\ Store(assignment[opcode.value]) /\ Advance(<< >>)
    BY <1>4 DEF WriteCell, Accessing
  <2>2. assignment[opcode.value] \in Field
    BY <2>1, RepairTypes DEF Assigned
  <2>3. BlocksInv'
    BY <1>1, <2>1, <2>2, StoreKeeps
  <2> QED BY <1>1, <2>1, <2>3, PassKeeps
<1>5. CASE WriteHint
  <2>1. /\ Reachable(opcode) /\ InBlock(opcode, assignment, blocks)
        /\ opcode.value \notin Assigned /\ Store(honest[opcode.value])
        /\ Advance(Entry(opcode.value, honest[opcode.value]))
    BY <1>5 DEF WriteHint, Accessing
  <2>2. opcode.value \in circuit.wires
    BY <1>1, <2>1, AccessFacts
  <2>3. honest[opcode.value] \in Field
    BY <2>2, RepairTypes
  <2>4. BlocksInv'
    BY <1>1, <2>1, <2>3, StoreKeeps
  <2> QED BY <1>1, <2>1, <2>2, <2>3, <2>4, LearnKeeps
<1> QED BY <1>2, <1>3, <1>4, <1>5

(* A function of pairs, applied to a pair. *)
LEMMA PairValue ==
  ASSUME NEW S, NEW T, NEW f \in [S \X S -> T], NEW a \in S, NEW b \in S
  PROVE  f[a, b] \in T
OBVIOUS

(* What a black box outputs are values of its outputs. *)
LEMMA OutputTypes ==
  ASSUME RepairInv, index <= Len(circuit.opcodes), Ready(opcode), Consistent(opcode)
  PROVE  /\ Outputs(opcode) \in [DOMAIN Outputs(opcode) -> Field]
         /\ DOMAIN Outputs(opcode) \subseteq circuit.wires
         /\ DOMAIN Outputs(opcode) = {} \/ DOMAIN Outputs(opcode) = opcode.outs
<1> DEFINE o == opcode
<1>1. WellFormedOpcode(o) /\ o.wires \subseteq circuit.wires
  BY OpcodeFacts
<1>2. honest \in [circuit.wires -> Field] /\ assignment \in [DOMAIN assignment -> Field]
  BY RepairTypes
<1>3. CASE o.type = "Bitwise"
  <2>1. o.ins = {o.lhs, o.rhs} /\ o.outs = {o.out} /\ o.combine \in [Field \X Field -> Field]
    BY <1>1, <1>3 DEF WellFormedOpcode
  <2>2. o.lhs \in DOMAIN assignment /\ o.rhs \in DOMAIN assignment
    BY <1>3, <2>1 DEF Ready, Operands, Assigned
  <2>3. assignment[o.lhs] \in Field /\ assignment[o.rhs] \in Field
    BY <1>2, <2>2
  <2> DEFINE v == o.combine[assignment[o.lhs], assignment[o.rhs]]
  <2>4. v \in Field
    BY <2>1, <2>3, PairValue
  <2>5. Outputs(o) = Entry(o.out, v)
    BY <1>3 DEF Outputs
  <2> HIDE DEF v
  <2>6. o.out \in circuit.wires
    BY <1>1, <2>1 DEF WellFormedOpcode
  <2> QED BY <2>1, <2>4, <2>5, <2>6 DEF Entry
<1>4. CASE o.type # "Bitwise" /\ IsEvaluated(o)
  <2>1. o.ins = {o.in} /\ o.outs = {o.out} /\ o.wires = {o.in, o.out} /\ o.F \in [DOMAIN o.F -> Field]
    BY <1>1, <1>4 DEF WellFormedOpcode
  <2> DEFINE v == IF Moved(o) THEN o.F[assignment[o.in]] ELSE honest[o.out]
  <2>2. v \in Field
    <3>1. Moved(o) => assignment[o.in] \in DOMAIN o.F
      BY <1>4 DEF Consistent, Fit
    <3>2. o.out \in circuit.wires
      BY <1>1, <2>1
    <3> QED BY <1>2, <2>1, <3>1, <3>2
  <2>3. Outputs(o) = Entry(o.out, v)
    BY <1>4 DEF Outputs
  <2> HIDE DEF v
  <2>4. o.out \in circuit.wires
    BY <1>1, <2>1
  <2> QED BY <2>1, <2>2, <2>3, <2>4 DEF Entry
<1>5. CASE o.type # "Bitwise" /\ ~IsEvaluated(o)
  <2>1. Outputs(o) = << >>
    BY <1>5 DEF Outputs
  <2> QED BY <2>1
<1> QED BY <1>3, <1>4, <1>5

LEMMA BlackBoxSteps ==
  ASSUME RepairInv, DeriveBlackBox \/ DeferBlackBox
  PROVE  RepairInv'
<1>1. pc = "walk" /\ index <= Len(circuit.opcodes) /\ UNCHANGED blocks
  BY DEF DeriveBlackBox, DeferBlackBox, InPass, Defer
<1>2. BlocksInv'
  BY <1>1, SameBlocks
<1>3. CASE DeferBlackBox
  <2>1. Advance(<< >>)
    BY <1>3 DEF DeferBlackBox, Defer
  <2> QED BY <1>1, <1>2, <2>1, PassKeeps
<1>4. CASE DeriveBlackBox
  <2>1. Ready(opcode) /\ Consistent(opcode) /\ Advance(Outputs(opcode))
    BY <1>4 DEF DeriveBlackBox
  <2>2. /\ Outputs(opcode) \in [DOMAIN Outputs(opcode) -> Field]
        /\ DOMAIN Outputs(opcode) \subseteq circuit.wires
        /\ DOMAIN Outputs(opcode) = {} \/ DOMAIN Outputs(opcode) = opcode.outs
    BY <1>1, <2>1, OutputTypes
  <2>3. \A w \in DOMAIN Outputs(opcode) \cap DOMAIN assignment : Outputs(opcode)[w] = assignment[w]
    BY <2>1, <2>2 DEF Consistent, Assigned
  <2> DEFINE learned == Outputs(opcode)
  <2> HIDE DEF learned
  <2>4. /\ Advance(learned) /\ learned \in [DOMAIN learned -> Field] /\ DOMAIN learned \subseteq circuit.wires
        /\ \A w \in DOMAIN learned \cap DOMAIN assignment : learned[w] = assignment[w]
    BY <2>1, <2>2, <2>3 DEF learned
  <2> QED BY <1>1, <1>2, <2>4, AdvanceKeeps
<1> QED BY <1>3, <1>4

LEMMA RejectSteps ==
  ASSUME RepairInv, RejectExpression \/ RejectIndex \/ RejectRead \/ RejectBlackBox
  PROVE  RepairInv'
<1>1. /\ pc = "walk" /\ pc' = "judged" /\ result' = Outcome(FALSE, "refuted") /\ index <= Len(circuit.opcodes)
      /\ UNCHANGED <<circuit, honest, mutated, value, preference, pinned, round, walk,
                     index, assignment, corrected, hardened, blocks>>
  BY DEF RejectExpression, RejectIndex, RejectRead, RejectBlackBox, Accessing, InPass, Reject, job, attempt, loop, pass
<1>2. space' \in Nat \ {0}
  <2>1. CASE RejectExpression
    <3>1. Adjustable(opcode) \subseteq circuit.wires
      BY <1>1, OpcodeFacts DEF Adjustable
    <3>2. CASE Adjustable(opcode) = {}
      BY <2>1, <3>2 DEF RejectExpression, choice, RepairInv
    <3>3. CASE Adjustable(opcode) # {}
      BY <2>1, <3>1, <3>3, ChooseKeeps DEF RejectExpression
    <3> QED BY <3>2, <3>3
  <2>2. CASE RejectIndex \/ RejectRead \/ RejectBlackBox
    BY <2>2 DEF RejectIndex, RejectRead, RejectBlackBox, choice, RepairInv
  <2> QED BY <2>1, <2>2
<1>3. RepairTypeOK'
  <2>1. result'.status = "refuted"
    BY <1>1 DEF Outcome
  <2>2. Soft' = Soft
    BY <1>1 DEF Soft
  <2> QED BY <1>1, <2>1, <2>2 DEF RepairInv, RepairTypeOK
<1>4. JobInv' /\ BlocksInv' /\ CertifyInv'
  BY <1>1 DEF RepairInv, JobInv, BlocksInv, CertifyInv
<1>5. CommitInv'
  BY <1>1 DEF RepairInv, CommitInv, Keeps, Commitments
<1>6. AcceptInv'
  BY <1>1 DEF AcceptInv, Accepted, Outcome
<1> QED BY <1>2, <1>3, <1>4, <1>5, <1>6 DEF RepairInv

-----------------------------------------------------------------------------
(* The loops around the walks. *)

LEMMA PassStarts ==
  ASSUME NEW a, StartPass(a), JobInv', CommitInv', (space \in Nat \ {0})',
         Valued(a), DOMAIN a \subseteq circuit'.wires,
         Valued(pinned'), DOMAIN pinned' \subseteq circuit'.wires,
         preference' \in 0..MaxPreferences-1, round' \in 1..MaxRounds, walk' \in 1..MaxWalks,
         result'.status \in {"none", "accepted", "refuted", "unjudged"}
  PROVE  RepairInv'
<1>1. /\ pc' = "walk" /\ index' = 1 /\ assignment' = a /\ corrected' = << >> /\ hardened' = {} /\ blocks' = << >>
  BY DEF StartPass
<1>2. 1 \in 1..Len(circuit'.opcodes) + 1
  <2>1. circuit' \in Circuits
    BY DEF JobInv
  <2>2. Len(circuit'.opcodes) \in Nat
    BY <2>1, CircuitFacts
  <2> QED BY <2>2
<1>3. RepairTypeOK'
  <2> DEFINE none == << >>
  <2>1. DOMAIN none = {} /\ none \in [DOMAIN none -> Field]
    OBVIOUS
  <2> HIDE DEF none
  <2>2. corrected' = none
    BY <1>1 DEF none
  <2> QED BY <1>1, <1>2, <2>1, <2>2 DEF RepairTypeOK, Valued
<1>4. BlocksInv' /\ CertifyInv' /\ AcceptInv'
  BY <1>1 DEF BlocksInv, CertifyInv, AcceptInv
<1> QED BY <1>3, <1>4 DEF RepairInv

(* The job and its preference stay, and a walk begins. *)
LEMMA StartAgain ==
  ASSUME RepairInv, pc # "idle", NEW p, StartPass(p), Valued(p), DOMAIN p \subseteq circuit.wires, Keeps(p),
         pinned' = pinned \/ pinned' = p, round' \in 1..MaxRounds, walk' \in 1..MaxWalks,
         UNCHANGED <<job, attempt, choice, result>>
  PROVE  RepairInv'
<1>1. UNCHANGED <<circuit, honest, mutated, value, preference, space, result>>
  BY DEF job, attempt, choice
<1>2. assignment' = p
  BY DEF StartPass
<1>3. Keeps(pinned) /\ Valued(pinned) /\ DOMAIN pinned \subseteq circuit.wires
  BY RepairTypes DEF RepairInv, CommitInv, Valued
<1>4. Keeps(pinned') /\ Valued(pinned') /\ DOMAIN pinned' \subseteq circuit.wires
  BY <1>3
<1>5. JobInv'
  BY <1>1 DEF RepairInv, JobInv
<1>6. CommitInv'
  <2>1. Commitments(mutated, value)' = Commitments(mutated, value)
    BY <1>1 DEF Commitments
  <2>2. \A w \in circuit.inputs \cup {mutated} :
          /\ w \in DOMAIN assignment' /\ assignment'[w] = Commitments(mutated, value)[w]
          /\ w \in DOMAIN pinned' /\ pinned'[w] = Commitments(mutated, value)[w]
    BY <1>2, <1>4 DEF Keeps
  <2> QED BY <1>1, <2>1, <2>2 DEF CommitInv, Keeps
<1>7. preference' \in 0..MaxPreferences-1 /\ (space \in Nat \ {0})'
      /\ result'.status \in {"none", "accepted", "refuted", "unjudged"}
  BY <1>1 DEF RepairInv, RepairTypeOK
<1>8. DOMAIN p \subseteq circuit'.wires /\ DOMAIN pinned' \subseteq circuit'.wires
  BY <1>1, <1>4
<1> QED BY <1>4, <1>5, <1>6, <1>7, <1>8, PassStarts

LEMMA RoundKeeps ==
  ASSUME RepairInv, pc = "walk", NEW p, Valued(p), DOMAIN p \subseteq circuit.wires, Keeps(p),
         NextRound(p), UNCHANGED <<job, attempt, filled, choice, result>>
  PROVE  RepairInv'
<1>1. CASE round < MaxRounds
  <2>1. pinned' = p /\ round' = round + 1 /\ walk' = 1 /\ StartPass(p)
    BY <1>1 DEF NextRound
  <2>2. round' \in 1..MaxRounds /\ walk' \in 1..MaxWalks
    BY <1>1, <2>1, BoundsArePositive DEF RepairInv, RepairTypeOK
  <2> QED BY <2>1, <2>2, StartAgain
<1>2. CASE ~(round < MaxRounds)
  <2>1. /\ pinned' = p /\ pc' = "free"
        /\ UNCHANGED <<circuit, honest, mutated, value, preference, round, walk, index, assignment,
                       corrected, hardened, blocks, space, result>>
    BY <1>2 DEF NextRound, pass, job, attempt, choice
  <2>2. RepairTypeOK'
    <3>1. Soft' = Soft
      BY <2>1 DEF Soft
    <3> QED BY <2>1, <3>1 DEF RepairInv, RepairTypeOK, Valued
  <2>3. JobInv' /\ BlocksInv' /\ CertifyInv' /\ AcceptInv' /\ (space \in Nat \ {0})'
    BY <2>1 DEF RepairInv, JobInv, BlocksInv, CertifyInv, AcceptInv
  <2>4. CommitInv'
    BY <2>1 DEF RepairInv, CommitInv, Keeps, Commitments
  <2> QED BY <2>2, <2>3, <2>4 DEF RepairInv
<1> QED BY <1>1, <1>2

(* Hints are corrected, and what is pinned is neither an input nor moved. *)
LEMMA CorrectionKeeps ==
  ASSUME RepairInv, pc # "idle"
  PROVE  /\ Valued(Overlay(corrected, pinned)) /\ DOMAIN Overlay(corrected, pinned) \subseteq circuit.wires
         /\ Keeps(Overlay(corrected, pinned))
<1> DEFINE p == Overlay(corrected, pinned)
<1>1. Valued(corrected) /\ Valued(pinned)
  BY RepairTypes DEF Valued
<1>2. Valued(p)
  BY <1>1, OverlayType
<1>3. DOMAIN p = DOMAIN corrected \cup DOMAIN pinned
  BY OverlayFacts
<1>4. DOMAIN p \subseteq circuit.wires
  BY <1>3, RepairTypes, CircuitFacts DEF Soft
<1>5. Keeps(pinned)
  BY DEF RepairInv, CommitInv
<1>6. ASSUME NEW w \in circuit.inputs \cup {mutated}
      PROVE  w \in DOMAIN p /\ p[w] = Commitments(mutated, value)[w]
  <2>1. w \notin DOMAIN corrected
    BY RepairTypes, CircuitFacts DEF Soft
  <2>2. w \in DOMAIN pinned /\ pinned[w] = Commitments(mutated, value)[w]
    BY <1>5 DEF Keeps
  <2>3. p[w] = pinned[w]
    BY <2>1, <2>2 DEF Overlay
  <2> QED BY <1>3, <2>2, <2>3
<1> QED BY <1>2, <1>4, <1>6 DEF Keeps

LEMMA FillKeeps ==
  ASSUME RepairInv, pc # "idle", NEW a, a = Overlay(assignment, [w \in Soft |-> honest[w]])
  PROVE  Valued(a) /\ DOMAIN a \subseteq circuit.wires /\ Keeps(a)
<1> DEFINE h == [w \in Soft |-> honest[w]]
<1>1. Soft \subseteq circuit.wires /\ honest \in [circuit.wires -> Field]
  BY RepairTypes, CircuitFacts DEF Soft
<1>2. Valued(h) /\ DOMAIN h = Soft
  BY <1>1 DEF Valued
<1> HIDE DEF h
<1>3. Valued(assignment) /\ DOMAIN assignment \subseteq circuit.wires
  BY RepairTypes DEF Valued
<1>4. a = Overlay(assignment, h)
  BY DEF h
<1>5. Valued(a)
  BY <1>2, <1>3, <1>4, OverlayType
<1>6. DOMAIN a = DOMAIN assignment \cup Soft /\ \A w \in DOMAIN assignment : a[w] = assignment[w]
  BY ONLY <1>2, <1>4 DEF Overlay
<1>7. Keeps(assignment)
  BY DEF RepairInv, CommitInv
<1>8. Keeps(a)
  BY <1>6, <1>7 DEF Keeps
<1> QED BY <1>1, <1>3, <1>5, <1>6, <1>8

LEMMA LoopKeeps ==
  ASSUME RepairInv, RestartRound \/ WalkAgain \/ WalksRunOut \/ FillHints
  PROVE  RepairInv'
<1>1. pc # "idle" /\ UNCHANGED <<job, attempt, choice, result>>
  BY DEF RestartRound, WalkAgain, WalksRunOut, FillHints, PassOver, Unfinished
<1>2. Keeps(pinned) /\ Keeps(assignment)
  BY <1>1 DEF RepairInv, CommitInv
<1>3. Valued(pinned) /\ Valued(assignment) /\ DOMAIN pinned \subseteq circuit.wires /\ DOMAIN assignment \subseteq circuit.wires
  BY RepairTypes DEF Valued
<1>4. round \in 1..MaxRounds /\ walk \in 1..MaxWalks
  BY DEF RepairInv, RepairTypeOK
<1>5. CASE RestartRound
  <2>1. pc = "walk" /\ NextRound(Overlay(corrected, pinned)) /\ UNCHANGED <<job, attempt, filled, choice, result>>
    BY <1>5 DEF RestartRound, PassOver
  <2> QED BY <1>1, <2>1, CorrectionKeeps, RoundKeeps
<1>6. CASE WalksRunOut
  <2>1. pc = "walk" /\ NextRound(pinned) /\ UNCHANGED <<job, attempt, filled, choice, result>>
    BY <1>6 DEF WalksRunOut, Unfinished, PassOver
  <2> QED BY <1>2, <1>3, <2>1, RoundKeeps
<1>7. CASE WalkAgain
  <2>1. StartPass(assignment) /\ pinned' = pinned /\ round' = round /\ walk' = walk + 1 /\ walk < MaxWalks
    BY <1>7 DEF WalkAgain
  <2>2. walk' \in 1..MaxWalks /\ round' \in 1..MaxRounds
    BY <1>4, <2>1, BoundsArePositive
  <2> QED BY <1>1, <1>2, <1>3, <2>1, <2>2, StartAgain
<1>8. CASE FillHints
  <2> DEFINE a == Overlay(assignment, [w \in Soft |-> honest[w]])
  <2>1. StartPass(a) /\ pinned' = pinned /\ round' = round /\ walk' = 1
    BY <1>8 DEF FillHints
  <2>2. Valued(a) /\ DOMAIN a \subseteq circuit.wires /\ Keeps(a)
    BY <1>1, FillKeeps
  <2> HIDE DEF a
  <2>3. walk' \in 1..MaxWalks /\ round' \in 1..MaxRounds
    BY <1>4, <2>1, BoundsArePositive
  <2> QED BY <1>1, <2>1, <2>2, <2>3, StartAgain
<1> QED BY <1>5, <1>6, <1>7, <1>8

(* Without blocks there is nothing to follow yet. *)
LEMMA LeaveKeeps ==
  ASSUME RepairInv, Settle \/ EndFilled
  PROVE  RepairInv'
<1>1. /\ pc = "walk" /\ pc' \in {"free", "certify"}
      /\ UNCHANGED <<circuit, honest, mutated, value, preference, pinned, round, walk, assignment,
                     corrected, hardened, space, result>>
      /\ (index' = index /\ blocks' = blocks /\ pc' = "free") \/ (index' = 1 /\ blocks' = << >>)
  BY DEF Settle, EndFilled, Filled, PassOver, job, attempt, loop, pass, choice
<1>2. RepairTypeOK'
  <2>1. Soft' = Soft
    BY <1>1 DEF Soft
  <2>2. index' \in 1..Len(circuit.opcodes) + 1
    BY <1>1, RepairTypes DEF RepairInv, RepairTypeOK
  <2> QED BY <1>1, <2>1, <2>2 DEF RepairInv, RepairTypeOK
<1>3. JobInv' /\ BlocksInv' /\ AcceptInv' /\ (space \in Nat \ {0})'
  BY <1>1 DEF RepairInv, JobInv, BlocksInv, AcceptInv
<1>4. CommitInv'
  BY <1>1 DEF RepairInv, CommitInv, Keeps, Commitments
<1>5. CertifyInv'
  BY <1>1 DEF CertifyInv, Tracks
<1> QED BY <1>2, <1>3, <1>4, <1>5 DEF RepairInv

-----------------------------------------------------------------------------
(* The certificate, and what becomes of an attempt. *)

LEMMA CheckKeeps ==
  ASSUME RepairInv, CheckOpcode
  PROVE  RepairInv'
<1> DEFINE i == index
           A == assignment
<1>1. /\ pc = "certify" /\ index <= Len(circuit.opcodes) /\ index' = index + 1
      /\ UNCHANGED <<circuit, honest, mutated, value, pc, preference, pinned, round, walk, assignment,
                     corrected, hardened, space, result>>
  BY DEF CheckOpcode, Checking, job, attempt, loop, choice
<1>2. /\ i \in 1..Len(circuit.opcodes) /\ i + 1 \in 1..Len(circuit.opcodes) + 1
      /\ WellFormedCircuit(circuit) /\ IsRun(circuit, honest) /\ A \in [DOMAIN A -> Field]
  BY <1>1, OpcodeFacts, RepairTypes
<1>3. \A b \in DOMAIN blocks : blocks[b] \in Seq(Field)
  BY DEF RepairInv, BlocksInv
<1>4. Tracks(circuit, A, blocks, i) /\ \A j \in 1..i-1 : Fulfilled(circuit, A, j)
  BY <1>1 DEF RepairInv, CertifyInv
<1>5. /\ Fulfilled(circuit, A, i) /\ Tracks(circuit, A, blocks', i + 1)
      /\ \A b \in DOMAIN blocks' : blocks'[b] \in Seq(Field)
  <2>1. CASE opcode.wires = {} /\ UNCHANGED blocks
    <3>1. circuit.opcodes[i].wires = {}
      BY <2>1 DEF opcode
    <3>2. Fulfilled(circuit, A, i) /\ Tracks(circuit, A, blocks, i + 1)
      BY ONLY <1>2, <1>4, <3>1, CheckSkipped
    <3> QED BY <1>3, <2>1, <3>2
  <2>2. CASE /\ Judgeable(opcode, assignment, blocks) /\ Accepts(opcode, assignment, blocks)
             /\ blocks' = BlocksAfter(opcode, assignment, blocks)
    <3>1. /\ Judgeable(circuit.opcodes[i], A, blocks) /\ Accepts(circuit.opcodes[i], A, blocks)
          /\ blocks' = BlocksAfter(circuit.opcodes[i], A, blocks)
      BY <2>2 DEF opcode
    <3>2. Fulfilled(circuit, A, i)
      BY ONLY <1>2, <1>4, <3>1, CheckFulfilled
    <3>3. /\ Tracks(circuit, A, BlocksAfter(circuit.opcodes[i], A, blocks), i + 1)
          /\ \A b \in DOMAIN BlocksAfter(circuit.opcodes[i], A, blocks) :
               BlocksAfter(circuit.opcodes[i], A, blocks)[b] \in Seq(Field)
      BY ONLY <1>2, <1>3, <1>4, <3>1, CheckTracks
    <3> QED BY <3>1, <3>2, <3>3
  <2> QED BY <2>1, <2>2 DEF CheckOpcode
<1>6. CertifyInv'
  <2>1. \A j \in 1..(i+1)-1 : Fulfilled(circuit, A, j)
    <3>1. \A j \in 1..(i+1)-1 : j = i \/ j \in 1..i-1
      BY <1>2
    <3> QED BY <1>4, <1>5, <3>1
  <2>2. Tracks(circuit', assignment', blocks', index') /\ \A j \in 1..index'-1 : Fulfilled(circuit', assignment', j)
    BY <1>1, <1>5, <2>1
  <2> QED BY <2>2 DEF CertifyInv
<1>7. RepairTypeOK'
  <2>1. Soft' = Soft
    BY <1>1 DEF Soft
  <2> QED BY <1>1, <1>2, <2>1 DEF RepairInv, RepairTypeOK
<1>8. BlocksInv'
  BY <1>5 DEF BlocksInv
<1>9. JobInv' /\ AcceptInv' /\ (space \in Nat \ {0})'
  BY <1>1 DEF RepairInv, JobInv, AcceptInv
<1>10. CommitInv'
  BY <1>1 DEF RepairInv, CommitInv, Keeps, Commitments
<1> QED BY <1>6, <1>7, <1>8, <1>9, <1>10 DEF RepairInv

(* Only a certificate that let every opcode pass accepts. *)
LEMMA JudgeKeeps ==
  ASSUME RepairInv, Incomplete \/ Refused \/ Certified
  PROVE  RepairInv'
<1>1. /\ pc = "certify" /\ pc' = "judged"
      /\ UNCHANGED <<circuit, honest, mutated, value, preference, pinned, round, walk, index, assignment,
                     corrected, hardened, blocks, space>>
      /\ result'.status \in Statuses
  BY DEF Incomplete, Refused, Certified, Checking, Judge, job, attempt, loop, pass, choice, Outcome, Statuses
<1>2. AcceptInv'
  <2>1. CASE Incomplete \/ Refused
    <3>1. result'.status # "accepted"
      BY <2>1 DEF Incomplete, Refused, Judge, Outcome
    <3> QED BY <3>1 DEF AcceptInv, Accepted
  <2>2. CASE Certified
    <3>1. index > Len(circuit.opcodes) /\ \A j \in 1..index-1 : Fulfilled(circuit, assignment, j)
      BY <1>1, <2>2 DEF Certified, RepairInv, CertifyInv
    <3>2. Len(circuit.opcodes) \in Nat /\ DOMAIN circuit.opcodes = 1..Len(circuit.opcodes)
      BY RepairTypes, CircuitFacts
    <3>3. index \in Nat
      BY <3>2 DEF RepairInv, RepairTypeOK
    <3>4. \A j \in DOMAIN circuit.opcodes : Fulfilled(circuit, assignment, j)
      BY <3>1, <3>2, <3>3
    <3>5. IsRun(circuit, assignment)
      BY <3>4, RunIsFulfilled
    <3>6. IsRun(circuit', assignment')
      BY <1>1, <3>5
    <3> QED BY <3>6 DEF AcceptInv
  <2> QED BY <2>1, <2>2
<1>3. RepairTypeOK'
  <2>1. Soft' = Soft
    BY <1>1 DEF Soft
  <2> QED BY <1>1, <2>1 DEF RepairInv, RepairTypeOK, Statuses
<1>4. JobInv' /\ BlocksInv' /\ CertifyInv' /\ (space \in Nat \ {0})'
  BY <1>1 DEF RepairInv, JobInv, BlocksInv, CertifyInv
<1>5. CommitInv'
  BY <1>1 DEF RepairInv, CommitInv, Keeps, Commitments
<1> QED BY <1>2, <1>3, <1>4, <1>5 DEF RepairInv

LEMMA CommitmentFacts ==
  ASSUME JobInv, NEW w \in circuit.wires, NEW v \in Field
  PROVE  /\ Valued(Commitments(w, v)) /\ DOMAIN Commitments(w, v) \subseteq circuit.wires
         /\ circuit.inputs \cup {w} \subseteq DOMAIN Commitments(w, v)
         /\ Commitments(w, v)[w] = v
         /\ \A x \in circuit.inputs \ {w} : Commitments(w, v)[x] = honest[x]
<1> DEFINE h == [i \in circuit.inputs |-> honest[i]]
           f == Commitments(w, v)
<1>1. circuit.inputs \subseteq circuit.wires /\ honest \in [circuit.wires -> Field]
  BY CircuitFacts, CircuitsWellFormed DEF JobInv
<1>2. Valued(h) /\ Valued(Entry(w, v))
  BY <1>1 DEF Valued, Entry
<1>3. f = Overlay(Entry(w, v), h)
  BY DEF Commitments
<1>4. Valued(f)
  BY <1>2, <1>3, OverlayType
<1> HIDE DEF f
<1>5. /\ DOMAIN f = {w} \cup circuit.inputs /\ f[w] = v
      /\ \A x \in circuit.inputs \ {w} : f[x] = honest[x]
  BY ONLY <1>3 DEF Overlay, Entry, h
<1> QED BY <1>1, <1>4, <1>5 DEF f

(* An attempt, or its next preference, begins with what it has to keep. *)
LEMMA AttemptStarts ==
  ASSUME JobInv', mutated' \in circuit'.wires, value' \in Field, NEW w, NEW v, StartAttempt(w, v),
         w = mutated', v = value', UNCHANGED <<circuit, honest>>,
         preference' \in 0..MaxPreferences-1, JobInv
  PROVE  RepairInv'
<1> DEFINE f == Commitments(w, v)
<1>1. /\ pinned' = f /\ round' = 1 /\ walk' = 1 /\ space' = 1 /\ result' = Outcome(FALSE, "none")
      /\ StartPass(f) /\ assignment' = f
  BY DEF StartAttempt, StartPass
<1>2. w \in circuit.wires /\ v \in Field
  OBVIOUS
<1>3. Valued(f) /\ DOMAIN f \subseteq circuit.wires /\ circuit.inputs \cup {w} \subseteq DOMAIN f
  BY <1>2, CommitmentFacts
<1>4. Commitments(mutated, value)' = f
  BY DEF Commitments
<1> HIDE DEF f
<1>5. CommitInv'
  BY <1>1, <1>3, <1>4 DEF CommitInv, Keeps
<1>6. round' \in 1..MaxRounds /\ walk' \in 1..MaxWalks
  BY <1>1, BoundsArePositive
<1>7. result'.status \in {"none", "accepted", "refuted", "unjudged"} /\ (space \in Nat \ {0})'
  BY <1>1 DEF Outcome
<1>8. Valued(pinned') /\ DOMAIN pinned' \subseteq circuit'.wires /\ DOMAIN f \subseteq circuit'.wires
  BY <1>1, <1>3
<1> QED BY <1>1, <1>3, <1>5, <1>6, <1>7, <1>8, PassStarts

LEMMA PreferenceKeeps ==
  ASSUME RepairInv, StatusInv, NextPreference \/ Conclude \/ OutOfChoices
  PROVE  RepairInv'
<1>1. /\ pc = "judged" /\ UNCHANGED <<circuit, honest, mutated, value>>
  BY DEF NextPreference, Conclude, OutOfChoices, job
<1>2. JobInv /\ mutated \in circuit.wires /\ value \in Field
  BY <1>1 DEF RepairInv, JobInv
<1>3. JobInv'
  BY <1>1, <1>2 DEF JobInv
<1>4. CASE NextPreference
  <2>1. preference' = preference + 1 /\ StartAttempt(mutated, value) /\ ~(preference + 1 >= MaxPreferences)
    BY <1>4 DEF NextPreference, Exhausted
  <2>2. preference' \in 0..MaxPreferences-1
    BY <2>1, BoundsArePositive DEF RepairInv, RepairTypeOK
  <2> QED BY <1>1, <1>2, <1>3, <2>1, <2>2, AttemptStarts
<1>5. CASE Conclude \/ OutOfChoices
  <2>1. /\ pc' = "done"
        /\ UNCHANGED <<preference, pinned, round, walk, index, assignment, corrected, hardened, blocks, space>>
    BY <1>5 DEF Conclude, OutOfChoices, loop, pass, choice
  <2>2. /\ result'.status \in Statuses
        /\ result'.status = "accepted" => Accepted
    <3>1. result \in [solved : BOOLEAN, status : Statuses]
      BY <1>1 DEF StatusInv
    <3>2. CASE Conclude
      BY <3>1, <3>2 DEF Conclude, Accepted
    <3>3. CASE OutOfChoices
      <4>1. result' = result \/ result' = [result EXCEPT !.status = "unjudged"]
        BY <3>3 DEF OutOfChoices
      <4> QED BY <3>1, <4>1 DEF Accepted, Statuses
    <3> QED BY <1>5, <3>2, <3>3
  <2>3. RepairTypeOK'
    <3>1. Soft' = Soft
      BY <1>1 DEF Soft
    <3> QED BY <1>1, <2>1, <2>2, <3>1 DEF RepairInv, RepairTypeOK, Statuses
  <2>4. BlocksInv' /\ CertifyInv' /\ (space \in Nat \ {0})'
    BY <2>1 DEF RepairInv, BlocksInv, CertifyInv
  <2>5. CommitInv'
    BY <1>1, <2>1 DEF RepairInv, CommitInv, Keeps, Commitments
  <2>6. AcceptInv'
    BY <1>1, <2>1, <2>2 DEF RepairInv, AcceptInv, Accepted
  <2> QED BY <1>3, <2>3, <2>4, <2>5, <2>6 DEF RepairInv
<1> QED BY <1>4, <1>5

LEMMA RepairKeeps ==
  ASSUME RepairInv, StatusInv, RepairStep
  PROVE  RepairInv'
<1>1. CASE SkipHint \/ CheckExpression \/ DeriveUnknown \/ DeferExpression
  BY <1>1, ExpressionSteps
<1>2. CASE AbsorbViolation
  BY <1>2, AbsorbKeeps
<1>3. CASE RejectExpression \/ RejectIndex \/ RejectRead \/ RejectBlackBox
  BY <1>3, RejectSteps
<1>4. CASE InitBlock \/ DeferInit
  BY <1>4, InitSteps
<1>5. CASE DeferAccess \/ ReadCell \/ WriteCell \/ WriteHint \/ DeferWrite
  BY <1>5, AccessSteps
<1>6. CASE DeriveBlackBox \/ DeferBlackBox
  BY <1>6, BlackBoxSteps
<1>7. CASE RestartRound \/ WalkAgain \/ WalksRunOut \/ FillHints
  BY <1>7, LoopKeeps
<1>8. CASE Settle \/ EndFilled
  BY <1>8, LeaveKeeps
<1>9. CASE CheckOpcode
  BY <1>9, CheckKeeps
<1>10. CASE Incomplete \/ Refused \/ Certified
  BY <1>10, JudgeKeeps
<1>11. CASE NextPreference \/ Conclude \/ OutOfChoices
  BY <1>11, PreferenceKeeps
<1> QED BY <1>1, <1>2, <1>3, <1>4, <1>5, <1>6, <1>7, <1>8, <1>9, <1>10, <1>11 DEF RepairStep

-----------------------------------------------------------------------------
(* The search. *)

LEMMA RepairKeepsJob ==
  ASSUME RepairStep
  PROVE  UNCHANGED job
<1>1. CASE \/ SkipHint \/ CheckExpression \/ DeriveUnknown \/ DeferExpression \/ AbsorbViolation
           \/ InitBlock \/ DeferInit \/ DeferAccess \/ ReadCell \/ WriteCell \/ WriteHint \/ DeferWrite
           \/ DeriveBlackBox \/ DeferBlackBox
  BY <1>1 DEF SkipHint, CheckExpression, DeriveUnknown, DeferExpression, AbsorbViolation, InitBlock, DeferInit,
              DeferAccess, ReadCell, WriteCell, WriteHint, DeferWrite, DeriveBlackBox, DeferBlackBox,
              Pass, Learn, Defer, Advance
<1>2. CASE RejectExpression \/ RejectIndex \/ RejectRead \/ RejectBlackBox
  BY <1>2 DEF RejectExpression, RejectIndex, RejectRead, RejectBlackBox, Reject
<1>3. CASE RestartRound \/ WalkAgain \/ WalksRunOut \/ Settle \/ FillHints \/ EndFilled \/ CheckOpcode
  BY <1>3 DEF RestartRound, WalkAgain, WalksRunOut, Settle, FillHints, EndFilled, CheckOpcode
<1>4. CASE Incomplete \/ Refused \/ Certified \/ NextPreference \/ Conclude \/ OutOfChoices
  BY <1>4 DEF Incomplete, Refused, Certified, Judge, NextPreference, Conclude, OutOfChoices
<1> QED BY <1>1, <1>2, <1>3, <1>4 DEF RepairStep

LEMMA SameReport ==
  ASSUME ReportInv, UNCHANGED <<circuit, honest>>, report' = report
  PROVE  ReportInv'
<1>1. Found' = Found
  BY DEF Found, Second, Partial
<1> QED BY <1>1 DEF ReportInv

LEMMA SearchedFacts ==
  ASSUME JobInv
  PROVE  /\ Searched \in SUBSET circuit.wires
         /\ \A S \in SUBSET circuit.wires : Ascending(S) \in Seq(S)
<1>1. circuit.wires \subseteq Nat /\ IsFiniteSet(circuit.wires)
  BY CircuitFacts, CircuitsWellFormed DEF JobInv
<1>2. Searched \in SUBSET circuit.wires
  BY CircuitFacts, CircuitsWellFormed DEF Searched, JobInv
<1>3. ASSUME NEW S \in SUBSET circuit.wires PROVE Ascending(S) \in Seq(S)
  <2>1. S \in SUBSET Int /\ IsFiniteSet(S)
    BY <1>1, FS_Subset
  <2> QED BY <2>1, AscendingType
<1> QED BY <1>2, <1>3

LEMMA InitReal == Init => RealInv
<1> SUFFICES ASSUME Init PROVE RealInv
  OBVIOUS
<1> DEFINE none == << >>
<1>1. DOMAIN none = {} /\ none \in [DOMAIN none -> Field] /\ \A T : none \in Seq(T)
  OBVIOUS
<1> HIDE DEF none
<1>2. /\ pc = "idle" /\ pinned = none /\ assignment = none /\ corrected = none /\ hardened = {} /\ blocks = none
      /\ preference = 0 /\ round = 1 /\ walk = 1 /\ index = 1 /\ space = 1 /\ result = Outcome(FALSE, "none")
  BY DEF Init, NotBegun, none
<1>3. circuit \in Circuits /\ honest \in [circuit.wires -> Field] /\ IsRun(circuit, honest)
  BY DEF Init, Runs
<1>4. JobInv
  BY <1>2, <1>3 DEF JobInv
<1>5. RepairTypeOK
  <2>1. 1 \in 1..Len(circuit.opcodes) + 1
    BY <1>3, CircuitFacts
  <2>2. preference \in 0..MaxPreferences-1 /\ round \in 1..MaxRounds /\ walk \in 1..MaxWalks
    BY <1>2, BoundsArePositive
  <2>3. result.status = "none"
    BY <1>2 DEF Outcome
  <2> QED BY <1>1, <1>2, <2>1, <2>2, <2>3 DEF RepairTypeOK
<1>6. RepairInv
  BY <1>1, <1>2, <1>4, <1>5 DEF RepairInv, CommitInv, BlocksInv, CertifyInv, AcceptInv
<1>7. SearchInv
  <2>1. phase = "returns" /\ searching = << >> /\ alternatives = none /\ todo = Ascending(circuit.returns \ circuit.inputs)
    BY DEF Init, none
  <2>2. Searched = circuit.returns \ circuit.inputs
    BY <2>1 DEF Searched
  <2>3. todo \in Seq(Searched)
    BY <1>4, <2>1, <2>2, SearchedFacts
  <2> QED BY <1>1, <1>2, <2>1, <2>3 DEF SearchInv
<1>8. ReportInv
  <2>1. report["findings"] = none /\ "findings" \in DOMAIN report /\ \A k \in Counters : report[k] = 0
    BY DEF Init, Counters, none
  <2> QED BY <1>1, <2>1 DEF ReportInv
<1> QED BY <1>6, <1>7, <1>8 DEF RealInv

(* Between attempts nothing of repair matters but the circuit and its run. *)
LEMMA RepairRests ==
  ASSUME RepairInv, UNCHANGED <<job, attempt, loop, pass, choice, result>>, pc' = pc \/ pc' = "idle"
  PROVE  RepairInv'
<1>1. UNCHANGED <<circuit, honest, mutated, value, preference, pinned, round, walk, index, assignment,
                  corrected, hardened, blocks, space, result>>
  BY DEF job, attempt, loop, pass, choice
<1>2. RepairTypeOK'
  <2>1. Soft' = Soft
    BY <1>1 DEF Soft
  <2> QED BY <1>1, <2>1 DEF RepairInv, RepairTypeOK
<1>3. JobInv' /\ BlocksInv' /\ CertifyInv' /\ AcceptInv' /\ (space \in Nat \ {0})'
  BY <1>1 DEF RepairInv, JobInv, BlocksInv, CertifyInv, AcceptInv, Accepted
<1>4. CommitInv'
  BY <1>1 DEF RepairInv, CommitInv, Keeps, Commitments
<1> QED BY <1>2, <1>3, <1>4 DEF RepairInv

LEMMA AlternativeTypes ==
  ASSUME JobInv, NEW w \in circuit.wires
  PROVE  /\ AlternativesOf(w) \in Seq(Field)
         /\ phase = "returns" => \A i \in DOMAIN AlternativesOf(w) : AlternativesOf(w)[i] # honest[w]
<1>1. honest[w] \in Field /\ WellFormedCircuit(circuit)
  BY CircuitsWellFormed DEF JobInv
<1>2. CASE phase = "returns"
  <2>1. AlternativesOf(w) = CandidateValues(honest[w])
    BY <1>2 DEF AlternativesOf
  <2> QED BY <1>1, <2>1, CandidateType
<1>3. CASE phase = "inputs"
  <2>1. AlternativesOf(w) = InputCandidates(circuit, w, honest[w])
    BY <1>3 DEF AlternativesOf
  <2> QED BY <1>1, <1>3, <2>1, InputType
<1>4. CASE phase \notin {"returns", "inputs"}
  <2>1. AlternativesOf(w) = SurfaceCandidates(circuit, w, honest[w])
    BY <1>4 DEF AlternativesOf
  <2> QED BY <1>1, <1>4, <2>1, SurfaceType
<1> QED BY <1>2, <1>3, <1>4

LEMMA BetweenKeeps ==
  ASSUME RealInv, CountersInv, NextWitness \/ OutOfTime \/ NextPhase \/ GiveUpWitness
  PROVE  RealInv'
<1>1. pc = "idle" /\ UNCHANGED <<pc, job, attempt, loop, pass, choice, result>>
  BY DEF NextWitness, OutOfTime, NextPhase, GiveUpWitness, Between, repairVars
<1>2. UNCHANGED <<pc, circuit, honest, mutated, value>> /\ pc' = "idle"
  BY <1>1 DEF job
<1>3. RepairInv' /\ JobInv
  BY <1>1, RepairRests DEF RealInv, RepairInv
<1>4. SearchInv /\ ReportInv
  BY DEF RealInv
<1>5. CASE NextWitness
  <2> DEFINE w == Head(todo)
  <2>1. /\ todo # << >> /\ searching' = <<w>> /\ todo' = Tail(todo) /\ alternatives' = AlternativesOf(w)
        /\ phase' = phase
        /\ report' = report \/ report' = [report EXCEPT !["hints"] = @ + 1]
    BY <1>5 DEF NextWitness
  <2>2. todo \in Seq(Searched)
    BY <1>4 DEF SearchInv
  <2>3. w \in Searched /\ Tail(todo) \in Seq(Searched)
    BY <2>1, <2>2
  <2>4. w \in circuit.wires
    BY <1>3, <2>3, SearchedFacts
  <2> HIDE DEF w
  <2>5. Searched' = Searched
    BY <1>2, <2>1 DEF Searched
  <2>6. SearchInv'
    <3>1. /\ AlternativesOf(w) \in Seq(Field)
          /\ phase = "returns" => \A i \in DOMAIN AlternativesOf(w) : AlternativesOf(w)[i] # honest[w]
      BY <1>3, <2>4, AlternativeTypes
    <3>2. searching'[1] = w
      BY <2>1
    <3>3. phase' = "returns" => \A i \in DOMAIN alternatives' : alternatives'[i] # honest'[searching'[1]]
      BY <1>2, <2>1, <3>1, <3>2
    <3>4. phase' \in {"returns", "inputs", "surface", "done"} /\ todo' \in Seq(Searched')
      BY <1>4, <2>1, <2>3, <2>5 DEF SearchInv
    <3>5. \E x \in Searched' : searching' = <<x>>
      BY <2>1, <2>3, <2>5
    <3>6. alternatives' \in Seq(Field)
      BY <2>1, <3>1
    <3> QED BY <1>2, <3>3, <3>4, <3>5, <3>6 DEF SearchInv
  <2>7. ReportInv'
    <3>1. Found' = Found
      BY <1>2 DEF Found, Second, Partial
    <3>2. CASE report' = report
      BY <1>2, <1>4, <3>2, SameReport
    <3>3. CASE report' = [report EXCEPT !["hints"] = @ + 1]
      <4>1. DOMAIN report' = DOMAIN report /\ \A k \in DOMAIN report \ {"hints"} : report'[k] = report[k]
        BY <3>3
      <4>2. report'["hints"] = report["hints"] + 1
        BY <3>3 DEF CountersInv, Counters
      <4>3. \A k \in Counters : report'[k] \in Nat
        BY <1>4, <4>1, <4>2 DEF ReportInv, CountersInv, Counters
      <4> QED BY <1>4, <3>1, <4>1, <4>3 DEF ReportInv
    <3> QED BY <2>1, <3>2, <3>3
  <2> QED BY <1>3, <2>6, <2>7 DEF RealInv
<1>6. CASE OutOfTime \/ NextPhase \/ GiveUpWitness
  <2>1. ReportInv'
    <3>1. report' = report
      BY <1>6 DEF OutOfTime, NextPhase, GiveUpWitness
    <3> QED BY <1>2, <1>4, <3>1, SameReport
  <2>2. CASE OutOfTime \/ GiveUpWitness
    <3>1. /\ phase' = phase /\ alternatives' = alternatives
          /\ todo' = todo \/ todo' = << >>
          /\ searching' = searching \/ searching' = << >>
      BY <2>2 DEF OutOfTime, GiveUpWitness
    <3>2. Searched' = Searched
      BY <1>2, <3>1 DEF Searched
    <3>3. todo' \in Seq(Searched')
      <4>1. todo \in Seq(Searched) /\ \A T : << >> \in Seq(T)
        BY <1>4 DEF SearchInv
      <4> QED BY ONLY <3>1, <3>2, <4>1
    <3>4. SearchInv'
      BY <1>2, <1>4, <3>1, <3>2, <3>3 DEF SearchInv
    <3> QED BY <1>3, <2>1, <3>4 DEF RealInv
  <2>3. CASE NextPhase
    <3>1. searching = << >> /\ UNCHANGED <<searching, alternatives>>
      BY <2>3 DEF NextPhase, Between
    <3>2. phase' \in {"inputs", "surface", "done"} /\ todo' \in Seq(Searched')
      <4>1. CASE phase' = "inputs" /\ todo' = IF options.skipInputs THEN << >> ELSE Ascending(circuit.inputs)
        <5>1. Searched' = circuit.inputs
          BY <1>2, <4>1 DEF Searched
        <5>2. Ascending(circuit.inputs) \in Seq(circuit.inputs)
          BY <1>3, SearchedFacts, CircuitFacts, CircuitsWellFormed DEF JobInv
        <5>3. \A T : << >> \in Seq(T)
          OBVIOUS
        <5> QED BY ONLY <4>1, <5>1, <5>2, <5>3
      <4>2. CASE phase' = "surface" /\ todo' = Surface
        <5>1. Searched' = circuit.wires \ circuit.inputs
          BY <1>2, <4>2 DEF Searched
        <5> DEFINE rest == circuit.wires \ (circuit.inputs \cup circuit.hints)
        <5>2. circuit.hints \subseteq circuit.wires \ circuit.inputs /\ rest \subseteq circuit.wires \ circuit.inputs
          BY <1>3, CircuitFacts, CircuitsWellFormed DEF JobInv
        <5>3. Ascending(circuit.hints) \in Seq(circuit.hints) /\ Ascending(rest) \in Seq(rest)
          BY <1>3, <5>2, SearchedFacts
        <5>4. Surface = Ascending(circuit.hints) \o (IF options.hintsOnly THEN << >> ELSE Ascending(rest))
          BY DEF Surface
        <5> HIDE DEF rest
        <5>5. Ascending(circuit.hints) \in Seq(circuit.wires \ circuit.inputs)
          BY <5>2, <5>3, SeqOfMore
        <5>6. Ascending(rest) \in Seq(circuit.wires \ circuit.inputs)
          BY <5>2, <5>3, SeqOfMore
        <5>7. Surface \in Seq(circuit.wires \ circuit.inputs)
          BY <5>4, <5>5, <5>6
        <5> QED BY <4>2, <5>1, <5>7
      <4>3. CASE phase' = "done" /\ todo' = << >>
        BY <4>3
      <4> QED BY <2>3, <4>1, <4>2, <4>3 DEF NextPhase
    <3>3. SearchInv'
      BY <1>2, <1>4, <3>1, <3>2 DEF SearchInv
    <3> QED BY <1>3, <2>1, <3>3 DEF RealInv
  <2> QED BY <1>6, <2>2, <2>3
<1> QED BY <1>5, <1>6

(* A witness is moved to its next alternative. *)
LEMMA AttemptKeeps ==
  ASSUME RealInv, CountersInv, Attempt
  PROVE  RealInv'
<1>1. /\ searching # << >> /\ alternatives # << >> /\ pc = "idle"
      /\ alternatives' = Tail(alternatives) /\ report' = [report EXCEPT !["attempted"] = @ + 1]
      /\ UNCHANGED <<circuit, honest, phase, todo, searching>>
      /\ mutated' = searching[1] /\ value' = Head(alternatives) /\ preference' = 0
      /\ StartAttempt(searching[1], Head(alternatives))
  BY DEF Attempt, Begin
<1>2. SearchInv /\ ReportInv /\ JobInv
  BY DEF RealInv, RepairInv
<1>3. PICK w \in Searched : searching = <<w>>
  BY <1>1, <1>2 DEF SearchInv
<1>4. searching[1] = w /\ w \in circuit.wires
  BY <1>2, <1>3, SearchedFacts
<1>5. alternatives \in Seq(Field)
  BY <1>2 DEF SearchInv
<1>6. /\ Head(alternatives) \in Field /\ Tail(alternatives) \in Seq(Field)
      /\ Head(alternatives) = alternatives[1] /\ 1 \in DOMAIN alternatives
      /\ \A i \in DOMAIN Tail(alternatives) : i + 1 \in DOMAIN alternatives /\ Tail(alternatives)[i] = alternatives[i + 1]
  BY <1>1, <1>5
<1>7. JobInv'
  BY <1>1, <1>2, <1>4, <1>6 DEF JobInv
<1>8. RepairInv'
  <2>1. mutated' \in circuit'.wires /\ value' \in Field
    BY <1>1, <1>4, <1>6
  <2>2. preference' \in 0..MaxPreferences-1
    BY <1>1, BoundsArePositive
  <2> QED BY <1>1, <1>2, <1>7, <2>1, <2>2, AttemptStarts
<1>9. SearchInv'
  <2>1. Searched' = Searched
    BY <1>1 DEF Searched
  <2>2. phase = "returns" => \A i \in DOMAIN alternatives : alternatives[i] # honest[w]
    BY <1>1, <1>2, <1>4 DEF SearchInv
  <2>3. phase' = "returns" => \A i \in DOMAIN alternatives' : alternatives'[i] # honest'[searching'[1]]
    BY <1>1, <1>4, <1>6, <2>2
  <2>4. searching' = <<mutated'>> /\ (phase' = "returns" => value' # honest'[mutated'])
    BY <1>1, <1>3, <1>4, <1>6, <2>2
  <2>5. phase' \in {"returns", "inputs", "surface", "done"} /\ todo' \in Seq(Searched') /\ alternatives' \in Seq(Field)
    BY <1>1, <1>2, <1>6, <2>1 DEF SearchInv
  <2>6. \E x \in Searched' : searching' = <<x>>
    BY <1>1, <1>3, <2>1
  <2> QED BY <2>3, <2>4, <2>5, <2>6 DEF SearchInv
<1>10. ReportInv'
  <2>1. Found' = Found
    BY <1>1 DEF Found, Second, Partial
  <2>2. DOMAIN report' = DOMAIN report /\ \A k \in DOMAIN report \ {"attempted"} : report'[k] = report[k]
    BY <1>1
  <2>3. report'["attempted"] = report["attempted"] + 1
    BY <1>1 DEF CountersInv, Counters
  <2>4. \A k \in Counters : report'[k] \in Nat
    BY <1>2, <2>2, <2>3 DEF ReportInv, CountersInv, Counters
  <2> QED BY <1>2, <2>1, <2>2, <2>4 DEF ReportInv, Counters
<1> QED BY <1>8, <1>9, <1>10 DEF RealInv

LEMMA RecordFacts ==
  ASSUME ReportInv, CountersInv
  PROVE  /\ DOMAIN Record(report) = DOMAIN report
         /\ \A k \in Counters : Record(report)[k] \in Nat
         /\ Record(report)["findings"] = report["findings"]
<1> DEFINE R == Record(report)
<1>1. Bit(result.solved) \in Nat /\ Bit(result.status = "refuted") \in Nat /\ Bit(result.status = "unjudged") \in Nat
  BY DEF Bit
<1>2. /\ DOMAIN R = DOMAIN report
      /\ \A k \in DOMAIN report \ {"repaired", "refuted", "unjudged"} : R[k] = report[k]
      /\ R["repaired"] = report["repaired"] + Bit(result.solved)
      /\ R["refuted"] = report["refuted"] + Bit(result.status = "refuted")
      /\ R["unjudged"] = report["unjudged"] + Bit(result.status = "unjudged")
  BY DEF CountersInv, Record, Counters
<1> HIDE DEF R
<1>3. \A k \in Counters : report[k] \in Nat /\ k \in DOMAIN report
  BY DEF ReportInv, CountersInv
<1>4. \A k \in Counters : R[k] \in Nat
  BY <1>1, <1>2, <1>3 DEF Counters
<1>5. R["findings"] = report["findings"]
  BY <1>2 DEF ReportInv
<1> QED BY <1>2, <1>4, <1>5 DEF R

(* What an accepted attempt moved is another run; it has the inputs of the
   honest one, as no input was moved.                                        *)
LEMMA FindingIsSecond ==
  ASSUME RealInv, pc = "done", Accepted, phase = "returns" \/ (phase = "surface" /\ Diverges)
  PROVE  Moving(mutated, value, assignment) \in Found
<1> DEFINE f == Moving(mutated, value, assignment)
<1>1. RepairInv /\ SearchInv /\ JobInv /\ mutated \in circuit.wires /\ value \in Field
  BY DEF RealInv, RepairInv, JobInv
<1>2. searching = <<mutated>> /\ (phase = "returns" => value # honest[mutated])
  BY <1>1 DEF SearchInv
<1>3. mutated \in Searched
  BY <1>1, <1>2 DEF SearchInv
<1>4. mutated \notin circuit.inputs /\ (phase = "returns" => mutated \in circuit.returns)
  BY <1>3 DEF Searched
<1>5. IsRun(circuit, assignment)
  BY <1>1 DEF RepairInv, AcceptInv
<1>6. Keeps(assignment)
  BY <1>1 DEF RepairInv, CommitInv
<1>7. /\ Commitments(mutated, value)[mutated] = value
      /\ \A w \in circuit.inputs : Commitments(mutated, value)[w] = honest[w]
  BY <1>1, <1>4, CommitmentFacts
<1>8. assignment[mutated] = value /\ \A w \in circuit.inputs : assignment[w] = honest[w]
  BY <1>6, <1>7 DEF Keeps
<1>9. \E w \in circuit.returns : assignment[w] # honest[w]
  <2>1. CASE phase = "returns"
    BY <1>2, <1>4, <1>8, <2>1
  <2>2. CASE Diverges
    BY <2>2 DEF Diverges
  <2> QED BY <2>1, <2>2
<1>10. assignment \in Partial
  BY <1>1, RepairTypes DEF Partial
<1>11. f \in [witness : circuit.wires, alternative : Field, assignment : Partial] /\ f.assignment = assignment
  BY <1>1, <1>10 DEF Moving
<1> HIDE DEF f
<1>12. Second(f)
  BY <1>5, <1>8, <1>9, <1>11 DEF Second
<1> QED BY <1>11, <1>12 DEF Found, f

LEMMA ReceiveKeeps ==
  ASSUME RealInv, CountersInv, NotAccepted \/ Finding \/ InternalOnly \/ AcceptedInput
  PROVE  RealInv'
<1> DEFINE R == Record(report)
<1>1. /\ pc = "done" /\ pc' = "idle" /\ UNCHANGED <<job, attempt, loop, pass, choice, result, phase, todo>>
      /\ \/ searching' = searching /\ alternatives' = alternatives
         \/ searching' = << >> /\ alternatives' = << >>
  BY DEF NotAccepted, Finding, InternalOnly, AcceptedInput, Receive, KeepRepair
<1>2. UNCHANGED <<circuit, honest>>
  BY <1>1 DEF job
<1>3. RepairInv'
  BY <1>1, RepairRests DEF RealInv
<1>4. SearchInv'
  <2>1. Searched' = Searched
    BY <1>1, <1>2 DEF Searched
  <2>2. SearchInv
    BY DEF RealInv
  <2>3. CASE searching' = searching /\ alternatives' = alternatives
    BY <1>1, <1>2, <2>1, <2>2, <2>3 DEF SearchInv
  <2>4. CASE searching' = << >> /\ alternatives' = << >>
    <3>1. alternatives' \in Seq(Field)
      BY <2>4
    <3> QED BY <1>1, <1>2, <2>1, <2>2, <2>4, <3>1 DEF SearchInv
  <2> QED BY <1>1, <2>3, <2>4
<1>5. Found' = Found
  BY <1>2 DEF Found, Second, Partial
<1>6. /\ \A k \in Counters : R[k] \in Nat /\ k \in DOMAIN R
      /\ "findings" \in DOMAIN R /\ R["findings"] \in Seq(Found)
  <2>1. ReportInv
    BY DEF RealInv
  <2> QED BY <2>1, RecordFacts DEF ReportInv, CountersInv
<1>7. ReportInv'
  <2>1. CASE NotAccepted
    <3>1. report' = R
      BY <2>1 DEF NotAccepted, Receive
    <3> QED BY <1>5, <1>6, <3>1 DEF ReportInv
  <2>2. CASE Finding
    <3> DEFINE f == Moving(mutated, value, assignment)
    <3>1. f \in Found
      BY <1>1, <2>2, FindingIsSecond DEF Finding
    <3>2. report' = [R EXCEPT !["accepted"] = @ + 1, !["findings"] = Append(@, f)]
      BY <2>2 DEF Finding, Receive
    <3> HIDE DEF R, f
    <3>3. /\ DOMAIN report' = DOMAIN R /\ report'["findings"] = Append(R["findings"], f)
          /\ report'["accepted"] = R["accepted"] + 1
          /\ \A k \in Counters \ {"accepted"} : report'[k] = R[k]
      BY <1>6, <3>2 DEF Counters
    <3>4. \A k \in Counters : report'[k] \in Nat
      BY <1>6, <3>3 DEF Counters
    <3>5. report'["findings"] \in Seq(Found)
      BY <1>6, <3>1, <3>3
    <3> QED BY <1>5, <1>6, <3>3, <3>4, <3>5 DEF ReportInv
  <2>3. CASE InternalOnly
    <3>1. report' = [R EXCEPT !["accepted"] = @ + 1, !["internal"] = @ + 1]
      BY <2>3 DEF InternalOnly, Receive
    <3> HIDE DEF R
    <3>2. /\ DOMAIN report' = DOMAIN R /\ report'["findings"] = R["findings"]
          /\ report'["accepted"] = R["accepted"] + 1 /\ report'["internal"] = R["internal"] + 1
          /\ \A k \in Counters \ {"accepted", "internal"} : report'[k] = R[k]
      BY <1>6, <3>1 DEF Counters
    <3>3. \A k \in Counters : report'[k] \in Nat
      BY <1>6, <3>2 DEF Counters
    <3> QED BY <1>5, <1>6, <3>2, <3>3 DEF ReportInv
  <2>4. CASE AcceptedInput
    <3> DEFINE f == Moving(mutated, value, assignment)
    <3>1. report' = [R EXCEPT !["acceptedInputs"] = @ + 1, !["inputs"] = Append(@, f)]
      BY <2>4 DEF AcceptedInput, Receive
    <3> HIDE DEF R, f
    <3>2. /\ DOMAIN report' = DOMAIN R /\ report'["findings"] = R["findings"]
          /\ report'["acceptedInputs"] = R["acceptedInputs"] + 1
          /\ \A k \in Counters \ {"acceptedInputs"} : report'[k] = R[k]
      BY <1>6, <3>1 DEF Counters
    <3>3. \A k \in Counters : report'[k] \in Nat
      BY <1>6, <3>2 DEF Counters
    <3> QED BY <1>5, <1>6, <3>2, <3>3 DEF ReportInv
  <2> QED BY <2>1, <2>2, <2>3, <2>4
<1> QED BY <1>3, <1>4, <1>7 DEF RealInv

LEMMA NextKeepsReal == RealInv /\ FunnelInv /\ [Next]_vars => RealInv'
<1> SUFFICES ASSUME RealInv, FunnelInv, [Next]_vars PROVE RealInv'
  OBVIOUS
<1>1. CountersInv /\ StatusInv
  BY DEF FunnelInv
<1>2. CASE NextWitness \/ OutOfTime \/ NextPhase \/ GiveUpWitness
  BY <1>1, <1>2, BetweenKeeps
<1>3. CASE Attempt
  BY <1>1, <1>3, AttemptKeeps
<1>4. CASE NotAccepted \/ Finding \/ InternalOnly \/ AcceptedInput
  BY <1>1, <1>4, ReceiveKeeps
<1>5. CASE RepairStep /\ UNCHANGED <<searchVars, report>>
  <2>1. RepairInv'
    BY <1>1, <1>5, RepairKeeps DEF RealInv
  <2>2. UNCHANGED <<circuit, honest, mutated, value, phase, todo, searching, alternatives, report>>
    BY <1>5, RepairKeepsJob DEF job, searchVars
  <2>3. pc # "idle"
    BY <1>1, <1>5, RepairKeepsStatus
  <2>4. Searched' = Searched
    BY <2>2 DEF Searched
  <2>5. SearchInv'
    BY <2>2, <2>3, <2>4 DEF RealInv, SearchInv
  <2>6. ReportInv'
    BY <2>2, SameReport DEF RealInv
  <2> QED BY <2>1, <2>5, <2>6 DEF RealInv
<1>6. CASE UNCHANGED vars
  <2>1. /\ UNCHANGED <<job, attempt, loop, pass, choice, result, pc>>
        /\ UNCHANGED <<circuit, honest, mutated, value, phase, todo, searching, alternatives, report>>
    BY <1>6 DEF vars, repairVars, searchVars, job
  <2>2. RepairInv'
    BY <2>1, RepairRests DEF RealInv
  <2>3. Searched' = Searched
    BY <2>1 DEF Searched
  <2>4. SearchInv'
    BY <2>1, <2>3 DEF RealInv, SearchInv
  <2>5. ReportInv'
    BY <2>1, SameReport DEF RealInv
  <2> QED BY <2>2, <2>4, <2>5 DEF RealInv
<1> QED BY <1>2, <1>3, <1>4, <1>5, <1>6 DEF Next, Finished

(* Every finding is a second run of the circuit: the inputs are those of the
   honest run and some return value is not, whatever was guessed, corrected,
   restarted or filled in on the way (mutate.rs:182, 274; repair.rs:86).       *)
THEOREM FindingsReal == Spec => []FindingsAreReal
<1>1. RealInv => FindingsAreReal
  <2> SUFFICES ASSUME RealInv PROVE FindingsAreReal
    OBVIOUS
  <2>1. RepairInv /\ SearchInv /\ ReportInv /\ JobInv
    BY DEF RealInv, RepairInv
  <2>2. Searched \subseteq circuit.wires
    BY <2>1, SearchedFacts
  <2>3. ToSet(todo) \subseteq circuit.wires
    <3>1. todo \in Seq(Searched)
      BY <2>1 DEF SearchInv
    <3>2. \A i \in DOMAIN todo : todo[i] \in Searched
      BY <3>1
    <3> QED BY <2>2, <3>2 DEF ToSet
  <2>4. ToSet(searching) \subseteq circuit.wires
    <3>1. searching = << >> \/ \E w \in Searched : searching = <<w>>
      BY <2>1 DEF SearchInv
    <3>2. \A i \in DOMAIN searching : searching[i] \in Searched
      BY <3>1
    <3> QED BY <2>2, <3>2 DEF ToSet
  <2>5. ToSet(alternatives) \subseteq Field
    <3>1. alternatives \in Seq(Field)
      BY <2>1 DEF SearchInv
    <3>2. \A i \in DOMAIN alternatives : alternatives[i] \in Field
      BY <3>1
    <3> QED BY <3>2 DEF ToSet
  <2>6. TypeOK
    BY <2>1, <2>3, <2>4, <2>5 DEF TypeOK, RepairInv, SearchInv, ReportInv
  <2>7. \A f \in ToSet(report.findings) : Second(f)
    <3> DEFINE s == report["findings"]
    <3>1. s \in Seq(Found)
      BY <2>1 DEF ReportInv
    <3> HIDE DEF s
    <3>2. \A i \in DOMAIN s : s[i] \in Found
      BY <3>1
    <3>3. ToSet(report.findings) = {s[i] : i \in DOMAIN s}
      BY DEF ToSet, s
    <3> QED BY <3>2, <3>3 DEF Found
  <2> QED BY <2>6, <2>7 DEF FindingsAreReal, Second
<1> QED BY <1>1, InitReal, InitFunnel, NextKeepsReal, NextKeepsFunnel, PTL DEF Spec

-----------------------------------------------------------------------------
(* Every step is a step forward. *)

(* The first component in which two positions differ decides. *)
LEMMA FirstDecides ==
  ASSUME NEW p, NEW q, DOMAIN p = 1..9,
         \/ p[1] > q[1]
         \/ p[1] = q[1] /\ p[2] > q[2]
         \/ p[1] = q[1] /\ p[2] = q[2] /\ p[3] > q[3]
         \/ p[1] = q[1] /\ p[2] = q[2] /\ p[3] = q[3] /\ p[4] > q[4]
         \/ /\ p[1] = q[1] /\ p[2] = q[2] /\ p[3] = q[3] /\ p[4] = q[4]
            /\ \/ p[5] > q[5]
               \/ p[5] = q[5] /\ p[6] > q[6]
               \/ p[5] = q[5] /\ p[6] = q[6] /\ p[7] > q[7]
               \/ p[5] = q[5] /\ p[6] = q[6] /\ p[7] = q[7] /\ p[8] > q[8]
               \/ p[5] = q[5] /\ p[6] = q[6] /\ p[7] = q[7] /\ p[8] = q[8] /\ p[9] > q[9]
  PROVE  Beyond(p, q)
<1>1. ASSUME NEW i \in 1..9, p[i] > q[i], \A j \in 1..i-1 : p[j] = q[j] PROVE Beyond(p, q)
  BY <1>1 DEF Beyond
<1>2. /\ \A j \in 1..1-1 : FALSE
      /\ \A j \in 1..2-1 : j = 1
      /\ \A j \in 1..3-1 : j \in {1, 2}
      /\ \A j \in 1..4-1 : j \in {1, 2, 3}
  OBVIOUS
<1>3. /\ \A j \in 1..5-1 : j \in {1, 2, 3, 4}
      /\ \A j \in 1..6-1 : j \in {1, 2, 3, 4, 5}
      /\ \A j \in 1..7-1 : j \in {1, 2, 3, 4, 5, 6}
      /\ \A j \in 1..8-1 : j \in {1, 2, 3, 4, 5, 6, 7}
      /\ \A j \in 1..9-1 : j \in {1, 2, 3, 4, 5, 6, 7, 8}
  OBVIOUS
<1> QED BY <1>1, <1>2, <1>3

LEMMA Ranks ==
  /\ Rank(<<"returns", "inputs", "surface", "done">>, "returns") = 1
  /\ Rank(<<"returns", "inputs", "surface", "done">>, "inputs") = 2
  /\ Rank(<<"returns", "inputs", "surface", "done">>, "surface") = 3
  /\ Rank(<<"returns", "inputs", "surface", "done">>, "done") = 4
  /\ Rank(<<"certify", "judged", "done", "idle">>, "certify") = 1
  /\ Rank(<<"certify", "judged", "done", "idle">>, "judged") = 2
  /\ Rank(<<"certify", "judged", "done", "idle">>, "done") = 3
  /\ Rank(<<"certify", "judged", "done", "idle">>, "idle") = 4
<1> DEFINE p == <<"returns", "inputs", "surface", "done">>
           q == <<"certify", "judged", "done", "idle">>
<1>1. /\ DOMAIN p = 1..4 /\ DOMAIN q = 1..4
      /\ p[1] = "returns" /\ p[2] = "inputs" /\ p[3] = "surface" /\ p[4] = "done"
      /\ q[1] = "certify" /\ q[2] = "judged" /\ q[3] = "done" /\ q[4] = "idle"
  OBVIOUS
<1>2. \A i \in 1..4 : i = 1 \/ i = 2 \/ i = 3 \/ i = 4
  OBVIOUS
<1> HIDE DEF p, q
<1>3. ASSUME NEW names, NEW i \in DOMAIN names, \A j \in DOMAIN names : names[j] = names[i] => j = i
      PROVE  Rank(names, names[i]) = i
  BY <1>3 DEF Rank
<1>4. \A i \in DOMAIN p : \A j \in DOMAIN p : p[j] = p[i] => j = i
  BY <1>1, <1>2
<1>5. \A i \in DOMAIN q : \A j \in DOMAIN q : q[j] = q[i] => j = i
  BY <1>1, <1>2
<1>6. (\A i \in DOMAIN p : Rank(p, p[i]) = i) /\ (\A i \in DOMAIN q : Rank(q, q[i]) = i)
  BY <1>3, <1>4, <1>5
<1>7. /\ Rank(p, "returns") = 1 /\ Rank(p, "inputs") = 2 /\ Rank(p, "surface") = 3 /\ Rank(p, "done") = 4
      /\ Rank(q, "certify") = 1 /\ Rank(q, "judged") = 2 /\ Rank(q, "done") = 3 /\ Rank(q, "idle") = 4
  BY <1>1, <1>6
<1> QED BY <1>7 DEF p, q

Phase == Rank(<<"returns", "inputs", "surface", "done">>, phase)
Held == Len(searching) + Len(alternatives)
Resting == IF pc = "idle" THEN 1 ELSE 0

PositionOK ==
  /\ Phase \in 1..4 /\ Len(todo) \in Nat /\ Len(searching) \in Nat /\ Len(alternatives) \in Nat /\ Held \in Nat
  /\ Resting \in {0, 1} /\ Stage \in 1..7
  /\ preference \in Int /\ round \in Int /\ walk \in Int /\ index \in Int

LEMMA PositionTypes == RealInv => PositionOK
<1> SUFFICES ASSUME RealInv PROVE PositionOK
  OBVIOUS
<1>1. SearchInv /\ RepairInv /\ RepairTypeOK
  BY DEF RealInv, RepairInv
<1>2. Phase \in 1..4
  BY <1>1, Ranks DEF Phase, SearchInv
<1>3. Len(todo) \in Nat /\ Len(alternatives) \in Nat
  BY <1>1 DEF SearchInv
<1>4. Len(searching) \in Nat
  BY <1>1 DEF SearchInv
<1>5. Stage \in 1..7
  <2>1. CASE pc \in {"walk", "free"}
    BY <2>1 DEF Stage
  <2>2. CASE pc \in {"certify", "judged", "done", "idle"}
    BY <2>2, Ranks DEF Stage
  <2> QED BY <1>1, <2>1, <2>2 DEF RepairTypeOK
<1>6. preference \in Int /\ round \in Int /\ walk \in Int /\ index \in Int
  BY <1>1, RepairTypes, BoundsArePositive DEF RepairTypeOK
<1> QED BY <1>2, <1>3, <1>4, <1>5, <1>6 DEF Held, Resting, PositionOK

LEMMA NextPositionTypes == RealInv' => PositionOK'
  BY PositionTypes, PTL

(* Further within an attempt. *)
Deeper ==
  \/ preference' > preference
  \/ preference' = preference /\ Stage' > Stage
  \/ preference' = preference /\ Stage' = Stage /\ round' > round
  \/ preference' = preference /\ Stage' = Stage /\ round' = round /\ walk' > walk
  \/ preference' = preference /\ Stage' = Stage /\ round' = round /\ walk' = walk /\ index' > index

LEMMA Forward ==
  ASSUME RealInv, RealInv',
         \/ Phase' > Phase
         \/ Phase' = Phase /\ Len(todo') < Len(todo)
         \/ Phase' = Phase /\ todo' = todo /\ Held' < Held
         \/ Phase' = Phase /\ todo' = todo /\ Held' = Held /\ Resting' > Resting
         \/ Phase' = Phase /\ todo' = todo /\ Held' = Held /\ Resting' = Resting /\ Deeper
  PROVE  Beyond(Position', Position)
<1> DEFINE p == Position'
           q == Position
<1>1. PositionOK /\ PositionOK'
  BY PositionTypes, NextPositionTypes
<1>2. /\ DOMAIN p = 1..9
      /\ p[1] = Phase' /\ p[2] = -Len(todo') /\ p[3] = -Len(searching') - Len(alternatives') /\ p[4] = Resting'
      /\ p[5] = preference' /\ p[6] = Stage' /\ p[7] = round' /\ p[8] = walk' /\ p[9] = index'
  BY DEF Position, Phase, Resting
<1>3. /\ q[1] = Phase /\ q[2] = -Len(todo) /\ q[3] = -Len(searching) - Len(alternatives) /\ q[4] = Resting
      /\ q[5] = preference /\ q[6] = Stage /\ q[7] = round /\ q[8] = walk /\ q[9] = index
  BY DEF Position, Phase, Resting
<1> HIDE DEF p, q
<1>4. /\ Len(todo') < Len(todo) => p[2] > q[2]
      /\ todo' = todo => p[2] = q[2]
      /\ Held' < Held => p[3] > q[3]
      /\ Held' = Held => p[3] = q[3]
  <2>1. Len(todo) \in Nat /\ Len(searching) \in Nat /\ Len(alternatives) \in Nat
    BY <1>1 DEF PositionOK
  <2>2. Len(todo') \in Nat /\ Len(searching') \in Nat /\ Len(alternatives') \in Nat
    BY <1>1 DEF PositionOK
  <2>3. Held = Len(searching) + Len(alternatives) /\ Held' = Len(searching') + Len(alternatives')
    BY DEF Held
  <2>4. Len(todo') < Len(todo) => p[2] > q[2]
    BY ONLY <1>2, <1>3, <2>1, <2>2
  <2>5. todo' = todo => p[2] = q[2]
    BY ONLY <1>2, <1>3
  <2>6. (Held' < Held => p[3] > q[3]) /\ (Held' = Held => p[3] = q[3])
    <3>1. \A a, b, c, d \in Nat : /\ c + d < a + b => -c - d > -a - b
                                  /\ c + d = a + b => -c - d = -a - b
      OBVIOUS
    <3>2. /\ Held' < Held => -Len(searching') - Len(alternatives') > -Len(searching) - Len(alternatives)
          /\ Held' = Held => -Len(searching') - Len(alternatives') = -Len(searching) - Len(alternatives)
      BY <2>1, <2>2, <2>3, <3>1
    <3>3. p[3] = -Len(searching') - Len(alternatives') /\ q[3] = -Len(searching) - Len(alternatives)
      BY <1>2, <1>3
    <3> QED BY ONLY <3>2, <3>3
  <2> QED BY <2>4, <2>5, <2>6
<1>5. \/ p[1] > q[1]
      \/ p[1] = q[1] /\ p[2] > q[2]
      \/ p[1] = q[1] /\ p[2] = q[2] /\ p[3] > q[3]
      \/ p[1] = q[1] /\ p[2] = q[2] /\ p[3] = q[3] /\ p[4] > q[4]
      \/ p[1] = q[1] /\ p[2] = q[2] /\ p[3] = q[3] /\ p[4] = q[4] /\ Deeper
  BY <1>2, <1>3, <1>4
<1>6. Beyond(p, q)
  BY ONLY <1>2, <1>3, <1>5, FirstDecides DEF Deeper
<1> QED BY <1>6 DEF p, q

(* An attempt goes on to the next opcode, walk, round, stage or preference. *)
LEMMA StageRanks ==
  /\ pc = "walk" => Stage = IF filled THEN 3 ELSE 1
  /\ pc = "free" => Stage = 2
  /\ pc = "certify" => Stage = 4
  /\ pc = "judged" => Stage = 5
  /\ pc = "done" => Stage = 6
BY Ranks DEF Stage

LEMMA NextStageRanks ==
  /\ pc' = "walk" => Stage' = IF filled' THEN 3 ELSE 1
  /\ pc' = "free" => Stage' = 2
  /\ pc' = "certify" => Stage' = 4
  /\ pc' = "judged" => Stage' = 5
  /\ pc' = "done" => Stage' = 6
BY Ranks DEF Stage

LEMMA WalksGoDeeper ==
  ASSUME PositionOK, \/ SkipHint \/ CheckExpression \/ DeriveUnknown \/ DeferExpression \/ AbsorbViolation
                     \/ InitBlock \/ DeferInit \/ DeferAccess \/ ReadCell \/ WriteCell \/ WriteHint \/ DeferWrite
                     \/ DeriveBlackBox \/ DeferBlackBox
  PROVE  Deeper
<1>1. pc = "walk" /\ index' = index + 1 /\ UNCHANGED <<pc, preference, filled, round, walk>>
  <2> USE DEF Advance, Pass, Learn, Defer, InPass, Accessing, attempt, loop
  <2>1. CASE SkipHint \/ CheckExpression \/ DeriveUnknown \/ DeferExpression \/ AbsorbViolation
    BY <2>1 DEF SkipHint, CheckExpression, DeriveUnknown, DeferExpression, AbsorbViolation
  <2>2. CASE InitBlock \/ DeferInit \/ DeferAccess \/ ReadCell \/ WriteCell \/ WriteHint \/ DeferWrite
    BY <2>2 DEF InitBlock, DeferInit, DeferAccess, ReadCell, WriteCell, WriteHint, DeferWrite
  <2>3. CASE DeriveBlackBox \/ DeferBlackBox
    BY <2>3 DEF DeriveBlackBox, DeferBlackBox
  <2> QED BY <2>1, <2>2, <2>3
<1>2. Stage' = Stage
  BY <1>1 DEF Stage
<1>3. index' > index
  BY <1>1 DEF PositionOK
<1> QED BY <1>1, <1>2, <1>3 DEF Deeper

LEMMA NextRoundGoesDeeper ==
  ASSUME PositionOK, pc = "walk", ~filled, NEW p, NextRound(p), UNCHANGED <<attempt, filled>>
  PROVE  Deeper
<1>1. Stage = 1 /\ UNCHANGED preference
  BY StageRanks DEF attempt
<1>2. CASE pc' = "free"
  <2>1. Stage' = 2
    BY <1>2, NextStageRanks
  <2> QED BY <1>1, <2>1 DEF Deeper
<1>3. CASE round' = round + 1 /\ pc' = "walk"
  <2>1. Stage' = 1
    BY <1>3, NextStageRanks
  <2>2. round' > round
    BY <1>3 DEF PositionOK
  <2> QED BY <1>1, <2>1, <2>2 DEF Deeper
<1> QED BY <1>2, <1>3 DEF NextRound, StartPass

LEMMA LoopsGoDeeper ==
  ASSUME PositionOK, RestartRound \/ WalkAgain \/ WalksRunOut \/ Settle \/ FillHints \/ EndFilled \/ CheckOpcode
  PROVE  Deeper
<1>1. UNCHANGED attempt /\ UNCHANGED preference
  BY DEF RestartRound, WalkAgain, WalksRunOut, Settle, FillHints, EndFilled, CheckOpcode, attempt
<1>2. CASE RestartRound
  <2>1. pc = "walk" /\ ~filled /\ NextRound(Overlay(corrected, pinned)) /\ UNCHANGED filled
    BY <1>2 DEF RestartRound, PassOver
  <2> QED BY <1>1, <2>1, NextRoundGoesDeeper
<1>3. CASE WalksRunOut
  <2>1. pc = "walk" /\ ~filled /\ NextRound(pinned) /\ UNCHANGED filled
    BY <1>3 DEF WalksRunOut, Unfinished, PassOver
  <2> QED BY <1>1, <2>1, NextRoundGoesDeeper
<1>4. CASE WalkAgain
  <2>1. pc = "walk" /\ pc' = "walk" /\ walk' = walk + 1 /\ UNCHANGED <<round, filled>>
    BY <1>4 DEF WalkAgain, Unfinished, PassOver, StartPass
  <2>2. Stage' = Stage
    BY <2>1 DEF Stage
  <2>3. walk' > walk
    BY <2>1 DEF PositionOK
  <2> QED BY <1>1, <2>1, <2>2, <2>3 DEF Deeper
<1>5. CASE Settle
  <2>1. pc = "walk" /\ ~filled /\ pc' = "free"
    BY <1>5 DEF Settle, PassOver
  <2>2. Stage = 1 /\ Stage' = 2
    BY <2>1, StageRanks, NextStageRanks
  <2> QED BY <1>1, <2>2 DEF Deeper
<1>6. CASE FillHints
  <2>1. pc = "free" /\ filled' /\ pc' = "walk"
    BY <1>6 DEF FillHints, StartPass
  <2>2. Stage = 2 /\ Stage' = 3
    BY <2>1, StageRanks, NextStageRanks
  <2> QED BY <1>1, <2>2 DEF Deeper
<1>7. CASE EndFilled
  <2>1. pc = "walk" /\ filled /\ pc' = "certify"
    BY <1>7 DEF EndFilled, Filled, PassOver
  <2>2. Stage = 3 /\ Stage' = 4
    BY <2>1, StageRanks, NextStageRanks
  <2> QED BY <1>1, <2>2 DEF Deeper
<1>8. CASE CheckOpcode
  <2>1. index' = index + 1 /\ UNCHANGED <<pc, round, walk, filled>>
    BY <1>8 DEF CheckOpcode, loop
  <2>2. Stage' = Stage
    BY <2>1 DEF Stage
  <2>3. index' > index
    BY <2>1 DEF PositionOK
  <2> QED BY <1>1, <2>1, <2>2, <2>3 DEF Deeper
<1> QED BY <1>2, <1>3, <1>4, <1>5, <1>6, <1>7, <1>8

LEMMA RepairGoesDeeper ==
  ASSUME PositionOK, RepairStep
  PROVE  Deeper
<1>1. CASE \/ SkipHint \/ CheckExpression \/ DeriveUnknown \/ DeferExpression \/ AbsorbViolation
           \/ InitBlock \/ DeferInit \/ DeferAccess \/ ReadCell \/ WriteCell \/ WriteHint \/ DeferWrite
           \/ DeriveBlackBox \/ DeferBlackBox
  BY <1>1, WalksGoDeeper
<1>2. CASE RejectExpression \/ RejectIndex \/ RejectRead \/ RejectBlackBox
  <2>1. pc = "walk" /\ pc' = "judged" /\ UNCHANGED preference
    BY <1>2 DEF RejectExpression, RejectIndex, RejectRead, RejectBlackBox, Accessing, InPass, Reject, attempt
  <2>2. Stage \in {1, 3} /\ Stage' = 5
    BY <2>1, StageRanks, NextStageRanks
  <2> QED BY <2>1, <2>2 DEF Deeper
<1>3. CASE RestartRound \/ WalkAgain \/ WalksRunOut \/ Settle \/ FillHints \/ EndFilled \/ CheckOpcode
  BY <1>3, LoopsGoDeeper
<1>4. CASE Incomplete \/ Refused \/ Certified
  <2>1. pc = "certify" /\ pc' = "judged" /\ UNCHANGED preference
    BY <1>4 DEF Incomplete, Refused, Certified, Checking, Judge, attempt
  <2>2. Stage = 4 /\ Stage' = 5
    BY <2>1, StageRanks, NextStageRanks
  <2> QED BY <2>1, <2>2 DEF Deeper
<1>5. CASE NextPreference
  <2>1. preference' = preference + 1 /\ preference \in Int
    BY <1>5 DEF NextPreference, PositionOK
  <2> QED BY <2>1 DEF Deeper
<1>6. CASE Conclude \/ OutOfChoices
  <2>1. pc = "judged" /\ pc' = "done" /\ UNCHANGED preference
    BY <1>6 DEF Conclude, OutOfChoices
  <2>2. Stage = 5 /\ Stage' = 6
    BY <2>1, StageRanks, NextStageRanks
  <2> QED BY <2>1, <2>2 DEF Deeper
<1> QED BY <1>1, <1>2, <1>3, <1>4, <1>5, <1>6 DEF RepairStep

LEMMA StepForward ==
  RealInv /\ FunnelInv /\ RealInv' /\ [Next]_vars => [Beyond(Position', Position)]_vars
<1> SUFFICES ASSUME RealInv, FunnelInv, RealInv', Next, ~Finished PROVE Beyond(Position', Position)
  BY DEF Finished
<1>1. SearchInv /\ PositionOK
  BY PositionTypes DEF RealInv
<1>2. CASE NextWitness \/ OutOfTime
  <2>1. todo # << >> /\ phase' = phase /\ (todo' = Tail(todo) \/ todo' = << >>)
    BY <1>2 DEF NextWitness, OutOfTime
  <2>2. todo \in Seq(Searched)
    BY <1>1 DEF SearchInv
  <2>3. Len(todo') < Len(todo)
    BY <2>1, <2>2
  <2>4. Phase' = Phase
    BY <2>1 DEF Phase
  <2> QED BY <2>3, <2>4, Forward
<1>3. CASE NextPhase
  <2>1. \/ phase = "returns" /\ phase' = "inputs"
        \/ phase = "inputs" /\ phase' = "surface"
        \/ phase = "surface" /\ phase' = "done"
    BY <1>3 DEF NextPhase
  <2>2. Phase' > Phase
    BY <2>1, Ranks DEF Phase
  <2> QED BY <2>2, Forward
<1>4. CASE Attempt
  <2>1. alternatives # << >> /\ alternatives' = Tail(alternatives) /\ UNCHANGED <<phase, todo, searching>>
    BY <1>4 DEF Attempt
  <2>2. alternatives \in Seq(Field)
    BY <1>1 DEF SearchInv
  <2>3. Len(alternatives') < Len(alternatives) /\ Len(alternatives') \in Nat
    BY <2>1, <2>2
  <2>4. Held' < Held
    BY <1>1, <2>1, <2>3 DEF Held, PositionOK
  <2>5. Phase' = Phase
    BY <2>1 DEF Phase
  <2> QED BY <2>1, <2>4, <2>5, Forward
<1>5. CASE GiveUpWitness
  <2>1. searching # << >> /\ searching' = << >> /\ UNCHANGED <<phase, todo, alternatives>>
    BY <1>5 DEF GiveUpWitness
  <2>2. Len(searching) = 1 /\ Len(searching') = 0
    BY <1>1, <2>1 DEF SearchInv
  <2>3. Held' < Held
    BY <1>1, <2>1, <2>2 DEF Held, PositionOK
  <2>4. Phase' = Phase
    BY <2>1 DEF Phase
  <2> QED BY <2>1, <2>3, <2>4, Forward
<1>6. CASE RepairStep /\ UNCHANGED <<searchVars, report>>
  <2>1. Deeper
    BY <1>1, <1>6, RepairGoesDeeper
  <2>2. UNCHANGED <<phase, todo, searching, alternatives>>
    BY <1>6 DEF searchVars
  <2>3. pc # "idle" /\ pc' # "idle"
    BY <1>6, RepairKeepsStatus DEF FunnelInv
  <2>4. Phase' = Phase /\ Held' = Held /\ Resting' = Resting
    BY <2>2, <2>3 DEF Phase, Held, Resting
  <2> QED BY <2>1, <2>2, <2>4, Forward
<1>7. CASE NotAccepted \/ InternalOnly
  <2>1. pc = "done" /\ pc' = "idle" /\ UNCHANGED <<phase, todo, searching, alternatives>>
    BY <1>7 DEF NotAccepted, InternalOnly, Receive, KeepRepair
  <2>2. Phase' = Phase /\ Held' = Held /\ Resting' = 1 /\ Resting = 0
    BY <2>1 DEF Phase, Held, Resting
  <2> QED BY <2>1, <2>2, Forward
<1>8. CASE Finding \/ AcceptedInput
  <2>1. pc = "done" /\ searching' = << >> /\ alternatives' = << >> /\ UNCHANGED <<phase, todo>>
    BY <1>8 DEF Finding, AcceptedInput, Receive, KeepRepair
  <2>2. Len(searching) = 1 /\ Len(searching') = 0 /\ Len(alternatives') = 0
    BY <1>1, <2>1 DEF SearchInv
  <2>3. Held' < Held
    BY <1>1, <2>2 DEF Held, PositionOK
  <2>4. Phase' = Phase
    BY <2>1 DEF Phase
  <2> QED BY <2>1, <2>3, <2>4, Forward
<1> QED BY <1>2, <1>3, <1>4, <1>5, <1>6, <1>7, <1>8 DEF Next

(* Every step takes the search further through its loops, phases outermost and
   opcodes innermost; each component is bounded, so no search runs forever
   (mutate.rs:249; repair.rs:104, 228, 273).                                   *)
THEOREM SearchMovesForward == Spec => AlwaysForward
<1>1. Init => RealInv /\ FunnelInv
  BY InitReal, InitFunnel
<1>2. RealInv /\ FunnelInv /\ [Next]_vars => RealInv' /\ FunnelInv'
  BY NextKeepsReal, NextKeepsFunnel
<1>3. RealInv /\ FunnelInv /\ [Next]_vars => [Beyond(Position', Position)]_vars
  BY <1>2, StepForward
<1> QED BY <1>1, <1>2, <1>3, PTL DEF Spec, AlwaysForward
=============================================================================
