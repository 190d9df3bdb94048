------------------------------- MODULE Repair -------------------------------
(***************************************************************************)
(* repair of src/src/dynamic/repair.rs: one witness of an honest run is    *)
(* moved, and the others are derived again, opcode by opcode, the hints    *)
(* being the prover's to choose.                                           *)
(*                                                                         *)
(* Three loops are nested around the walk over the opcodes (solve_pass):   *)
(* walks, while one of them learns something; rounds, begun again from the *)
(* pinned values whenever a hint had to be corrected; and preferences,     *)
(* which decide between several hints that could absorb a violation.  A    *)
(* step is one opcode, or the end of a walk.                               *)
(***************************************************************************)
EXTENDS AcirCheck

CONSTANTS
  MaxPreferences,   \* max_preferences()
  MaxRounds,        \* MAX_ROUNDS
  MaxWalks          \* MAX_WALKS

ASSUME BoundsArePositive ==
  MaxPreferences \in Nat \ {0} /\ MaxRounds \in Nat \ {0} /\ MaxWalks \in Nat \ {0}

VARIABLES
  circuit, honest,      \* the circuit and one of its runs; they never change
  mutated, value,       \* the witness that was moved, and where to
  pc,                   \* "idle", "walk", "free", "certify", "judged", "done"
  preference, widest,   \* widest_space
  tried,                \* history: the choices of every preference so far
  pinned, round,        \* values a round starts from
  walk, before,         \* the walk of the round, and what was assigned when it began
  filled,               \* open hints have been given their honest values
  index,                \* the opcode the walk looks at
  assignment,
  corrected, hardened,  \* hints this walk has corrected
  deferred,             \* some opcode could not be handled yet
  blocks,               \* contents of the memory blocks
  choices, space,       \* choices among hints so far (choice_points), their combinations
  result                \* RepairOutcome

job == <<circuit, honest, mutated, value>>
attempt == <<preference, widest, tried>>
loop == <<pinned, round, walk, before, filled>>
pass == <<index, assignment, corrected, hardened, deferred, blocks>>
choice == <<choices, space>>
repairVars == <<pc, pass, loop, choice, result, attempt, job>>

Outcome(solved, status) == [solved |-> solved, status |-> status]

Assigned == DOMAIN assignment
Soft == circuit.hints \ {mutated}

(* Mutant: the inputs are left open as well. *)
CommitmentsOpen(w, v) == Entry(w, v)

(* Mutant: the other hints are copied from the honest run. *)
CommitmentsCopied(w, v) == Overlay(Entry(w, v), [i \in circuit.inputs \cup circuit.hints |-> honest[i]])

(* What the prover has to keep: the inputs, and the value that was moved. *)
Commitments(w, v) == Overlay(Entry(w, v), [i \in circuit.inputs |-> honest[i]])

StartPass(a) ==
  /\ pc' = "walk"
  /\ index' = 1
  /\ assignment' = a
  /\ before' = Cardinality(DOMAIN a)
  /\ corrected' = << >>
  /\ hardened' = {}
  /\ deferred' = FALSE
  /\ blocks' = << >>

(* repair_with, up to its first walk. *)
StartAttempt(w, v) ==
  /\ pinned' = Commitments(w, v)
  /\ round' = 1
  /\ walk' = 1
  /\ filled' = FALSE
  /\ choices' = << >>
  /\ space' = 1
  /\ result' = Outcome(FALSE, "none")
  /\ StartPass(Commitments(w, v))

Begin(w, v) ==
  /\ pc = "idle"
  /\ mutated' = w
  /\ value' = v
  /\ preference' = 0
  /\ widest' = 1
  /\ tried' = {}
  /\ StartAttempt(w, v)
  /\ UNCHANGED <<circuit, honest>>

-----------------------------------------------------------------------------
(* solve_pass: one opcode.  AssertZero first. *)

InPass(types) == pc = "walk" /\ index <= Len(circuit.opcodes) /\ circuit.opcodes[index].type \in types
opcode == circuit.opcodes[index]

Advance(learned) ==
  /\ index' = index + 1
  /\ assignment' = Overlay(learned, assignment)
  /\ UNCHANGED <<job, pc, attempt, loop, choice, result, corrected, hardened>>

Pass == Advance(<< >>) /\ UNCHANGED <<deferred, blocks>>
Learn(w, v) == Advance(Entry(w, v)) /\ UNCHANGED <<deferred, blocks>>
Defer == Advance(<< >>) /\ deferred' = TRUE /\ UNCHANGED blocks

(* PassOutcome::Rejected: repair_with returns. *)
Reject ==
  /\ pc' = "judged"
  /\ result' = Outcome(FALSE, "refuted")
  /\ UNCHANGED <<job, attempt, loop, pass>>

Unknown(o) == o.wires \ Assigned

(* solve_for: the value of w, if it occurs linearly with a coefficient that is
   not zero once the other wires are known.                                   *)
SolveFor(o, w) ==
  LET solutions == {v \in Field : Evaluate(o.mul, o.lin, o.q, Overlay(Entry(w, v), assignment)) = 0}
  IN  IF (\E i \in DOMAIN o.mul : o.mul[i][2] = w /\ o.mul[i][3] = w) \/ solutions = Field
      THEN {} ELSE solutions

Satisfied(o) == Unknown(o) = {} /\ AcirHolds(o, assignment)
Violated(o) == Unknown(o) = {} /\ ~AcirHolds(o, assignment)

SkipHint == InPass({"BrilligCall"}) /\ Pass

CheckExpression == InPass({"AssertZero"}) /\ Satisfied(opcode) /\ Pass

(* Two unknowns, or one whose coefficient vanished, are left to a later walk. *)
Derivable(o) ==
  IF Cardinality(Unknown(o)) # 1 THEN {}
  ELSE UNION {{<<w, v>> : v \in SolveFor(o, w)} : w \in Unknown(o)}

DeriveUnknown == InPass({"AssertZero"}) /\ \E s \in Derivable(opcode) : Learn(s[1], s[2])
DeferExpression == InPass({"AssertZero"}) /\ Unknown(opcode) # {} /\ Derivable(opcode) = {} /\ Defer

(* The open hints of a violated expression, and which of them absorbs the
   violation: the digit of the preference that belongs to this choice, in the
   mixed radix of the choices so far.                                         *)
Adjustable(o) == (o.wires \cap Soft) \ hardened

(* Mutant: the same digit for every choice, a diagonal of the product. *)
PickDiagonal(open) == CHOOSE w \in open : Cardinality({v \in open : v < w}) = preference % Cardinality(open)

Pick(open) ==
  CHOOSE w \in open : Cardinality({v \in open : v < w}) = (preference \div space) % Cardinality(open)

Choose(open) ==
  IF Cardinality(open) = 1 THEN UNCHANGED choice
  ELSE /\ choices' = Append(choices, [open |-> open, pick |-> Pick(open)])
       /\ space' = space * Cardinality(open)

AbsorbViolation ==
  /\ InPass({"AssertZero"})
  /\ Violated(opcode)
  /\ Adjustable(opcode) # {}
  /\ LET w == Pick(Adjustable(opcode))
     IN  \E v \in SolveFor(opcode, w) :
           /\ assignment' = Overlay(Entry(w, v), assignment)
           /\ corrected' = Overlay(Entry(w, v), corrected)
           /\ hardened' = hardened \cup {w}
  /\ Choose(Adjustable(opcode))
  /\ index' = index + 1
  /\ UNCHANGED <<job, pc, attempt, loop, deferred, blocks, result>>

RejectExpression ==
  /\ InPass({"AssertZero"})
  /\ Violated(opcode)
  /\ IF Adjustable(opcode) = {} THEN UNCHANGED choice
     ELSE SolveFor(opcode, Pick(Adjustable(opcode))) = {} /\ Choose(Adjustable(opcode))
  /\ Reject

-----------------------------------------------------------------------------
(* Memory.  The blocks are rebuilt by every walk. *)

InitBlock ==
  /\ InPass({"MemoryInit"})
  /\ Unknown(opcode) = {}
  /\ blocks' = BlocksAfter(opcode, assignment, blocks)
  /\ Advance(<< >>) /\ UNCHANGED deferred

DeferInit == InPass({"MemoryInit"}) /\ Unknown(opcode) # {} /\ Defer

(* An access can be handled once its block and its index are known. *)
Reachable(o) == o.block \in DOMAIN blocks /\ o.index \in Assigned
Accessing(type) == InPass({type}) /\ Reachable(opcode) /\ InBlock(opcode, assignment, blocks)
Cell(o) == blocks[o.block][assignment[o.index] + 1]

DeferAccess == InPass({"Read", "Write"}) /\ ~Reachable(opcode) /\ Defer

RejectIndex ==
  /\ InPass({"Read", "Write"})
  /\ Reachable(opcode) /\ ~InBlock(opcode, assignment, blocks)
  /\ Reject /\ UNCHANGED choice

ReadCell ==
  /\ Accessing("Read")
  /\ IF opcode.value \in Assigned
     THEN assignment[opcode.value] = Cell(opcode) /\ Pass
     ELSE Learn(opcode.value, Cell(opcode))

RejectRead ==
  /\ Accessing("Read")
  /\ opcode.value \in Assigned /\ assignment[opcode.value] # Cell(opcode)
  /\ Reject /\ UNCHANGED choice

Store(v) == blocks' = [blocks EXCEPT ![opcode.block][assignment[opcode.index] + 1] = v]

WriteCell ==
  /\ Accessing("Write")
  /\ opcode.value \in Assigned
  /\ Store(assignment[opcode.value])
  /\ Advance(<< >>) /\ UNCHANGED deferred

(* An open hint that is written gets its honest value at once. *)
WriteHint ==
  /\ Accessing("Write")
  /\ opcode.value \in Soft \ Assigned
  /\ Store(honest[opcode.value])
  /\ Advance(Entry(opcode.value, honest[opcode.value])) /\ UNCHANGED deferred

DeferWrite == Accessing("Write") /\ opcode.value \notin Assigned \cup Soft /\ Defer

-----------------------------------------------------------------------------
(* derive_black_box *)

BlackBoxes == {"RANGE", "Bitwise", "BlackBox", "Curve", "Recursion"}
Operands(o) == IF o.type = "RANGE" THEN o.wires ELSE o.ins
Ready(o) == Operands(o) \subseteq Assigned
Moved(o) == \E w \in Operands(o) : assignment[w] # honest[w]

(* The operands are fit for the black box; one that cannot be evaluated here is
   taken from the honest run as long as its inputs did not move.              *)
Fit(o) ==
  /\ o.type = "RANGE" => AcirHolds(o, assignment)
  /\ o.type = "Bitwise" => assignment[o.lhs] < 2^o.bits /\ assignment[o.rhs] < 2^o.bits
  /\ o.type = "Recursion" => ~Moved(o)
  /\ IsEvaluated(o) /\ Moved(o) => assignment[o.in] \in DOMAIN o.F

Outputs(o) ==
  IF o.type = "Bitwise" THEN Entry(o.out, o.combine[assignment[o.lhs], assignment[o.rhs]])
  ELSE IF IsEvaluated(o) THEN Entry(o.out, IF Moved(o) THEN o.F[assignment[o.in]] ELSE honest[o.out])
  ELSE << >>

Consistent(o) == Fit(o) /\ \A w \in o.outs \cap Assigned : assignment[w] = Outputs(o)[w]

DeriveBlackBox ==
  /\ InPass(BlackBoxes)
  /\ Ready(opcode) /\ Consistent(opcode)
  /\ Advance(Outputs(opcode)) /\ UNCHANGED <<deferred, blocks>>

DeferBlackBox == InPass(BlackBoxes) /\ ~Ready(opcode) /\ Defer

RejectBlackBox ==
  /\ InPass(BlackBoxes)
  /\ Ready(opcode) /\ ~Consistent(opcode)
  /\ Reject /\ UNCHANGED choice

-----------------------------------------------------------------------------
(* The end of a walk. *)

PassOver == pc = "walk" /\ index > Len(circuit.opcodes)
Grew == Cardinality(Assigned) # before

(* Mutant: rounds are not counted. *)
NextRoundForever(p) ==
  /\ pinned' = p /\ walk' = 1 /\ StartPass(p)
  /\ UNCHANGED round

NextRound(p) ==
  /\ pinned' = p
  /\ IF round < MaxRounds
     THEN round' = round + 1 /\ walk' = 1 /\ StartPass(p)
     ELSE pc' = "free" /\ UNCHANGED <<round, walk, before, pass>>

(* A hint was corrected: what was derived before is derived again. *)
RestartRound ==
  /\ PassOver /\ ~filled
  /\ corrected # << >>
  /\ NextRound(Overlay(corrected, pinned))
  /\ UNCHANGED <<job, attempt, filled, choice, result>>

Unfinished == PassOver /\ (filled \/ corrected = << >>) /\ deferred /\ Grew

WalkAgain ==
  /\ Unfinished
  /\ walk < MaxWalks
  /\ walk' = walk + 1
  /\ StartPass(assignment)
  /\ UNCHANGED <<job, attempt, pinned, round, filled, choice, result>>

(* The loop over walks ran out, not the one over rounds. *)
WalksRunOut ==
  /\ Unfinished /\ ~filled
  /\ walk >= MaxWalks
  /\ NextRound(pinned)
  /\ UNCHANGED <<job, attempt, filled, choice, result>>

Settle ==
  /\ PassOver /\ ~filled
  /\ corrected = << >>
  /\ ~(deferred /\ Grew)
  /\ pc' = "free"
  /\ UNCHANGED <<job, attempt, loop, pass, choice, result>>

(* Open hints that nothing pinned get their honest values. *)
FillHints ==
  /\ pc = "free"
  /\ filled' = TRUE
  /\ walk' = 1
  /\ StartPass(Overlay(assignment, [w \in Soft |-> honest[w]]))
  /\ UNCHANGED <<job, attempt, pinned, round, choice, result>>

Filled == PassOver /\ filled /\ (~(deferred /\ Grew) \/ walk >= MaxWalks)

EndFilled ==
  /\ Filled
  /\ pc' = "certify"
  /\ index' = 1
  /\ blocks' = << >>
  /\ UNCHANGED <<job, attempt, loop, assignment, corrected, hardened, deferred, choice, result>>

-----------------------------------------------------------------------------
(* certify, with two copies of the assignment, no target, and every wire in the
   component.  It walks the opcodes once more and repairs nothing.            *)

Judge(status) ==
  /\ pc' = "judged"
  /\ result' = Outcome(TRUE, status)
  /\ UNCHANGED <<job, attempt, loop, pass, choice>>

Checking == pc = "certify" /\ index <= Len(circuit.opcodes)

CheckOpcode ==
  /\ Checking
  /\ \/ opcode.wires = {} /\ UNCHANGED blocks
     \/ /\ opcode.wires # {} /\ Judgeable(opcode, assignment, blocks)
        /\ Accepts(opcode, assignment, blocks)
        /\ blocks' = BlocksAfter(opcode, assignment, blocks)
  /\ index' = index + 1
  /\ UNCHANGED <<job, pc, attempt, loop, assignment, corrected, hardened, deferred, choice, result>>

Incomplete == Checking /\ opcode.wires # {} /\ ~Judgeable(opcode, assignment, blocks) /\ Judge("unjudged")

Refused ==
  /\ Checking
  /\ opcode.wires # {} /\ Judgeable(opcode, assignment, blocks)
  /\ ~Accepts(opcode, assignment, blocks)
  /\ Judge("refuted")

(* Nothing that was checked is nothing that was proved. *)
Certified ==
  /\ pc = "certify" /\ index > Len(circuit.opcodes)
  /\ Judge(IF \E i \in DOMAIN circuit.opcodes : circuit.opcodes[i].wires # {} THEN "accepted" ELSE "unjudged")

-----------------------------------------------------------------------------
(* repair: the loop over preferences. *)

Accepted == result.status = "accepted"
Exhausted == preference + 1 >= MaxPreferences \/ preference + 1 >= Max({widest, space})

NextPreference ==
  /\ pc = "judged"
  /\ ~Accepted /\ choices # << >> /\ ~Exhausted
  /\ preference' = preference + 1
  /\ widest' = Max({widest, space})
  /\ tried' = tried \cup {choices}
  /\ StartAttempt(mutated, value)
  /\ UNCHANGED job

(* Accepted, or nothing to choose: the outcome is final. *)
Conclude ==
  /\ pc = "judged"
  /\ Accepted \/ choices = << >>
  /\ pc' = "done"
  /\ tried' = tried \cup {choices}
  /\ UNCHANGED <<job, preference, widest, loop, pass, choice, result>>

(* Mutant: a refutation of the choices tried is none of the others. *)
OutOfChoicesNeither ==
  /\ pc = "judged"
  /\ ~Accepted /\ choices # << >> /\ Exhausted
  /\ widest' = Max({widest, space})
  /\ result' = IF widest' > MaxPreferences THEN [result EXCEPT !.status = "none"] ELSE result
  /\ pc' = "done"
  /\ tried' = tried \cup {choices}
  /\ UNCHANGED <<job, preference, loop, pass, choice>>

(* When the choices were cut short, that the last one was refuted proves
   nothing.                                                                   *)
OutOfChoices ==
  /\ pc = "judged"
  /\ ~Accepted /\ choices # << >> /\ Exhausted
  /\ widest' = Max({widest, space})
  /\ result' = IF widest' > MaxPreferences /\ result.status = "refuted"
               THEN [result EXCEPT !.status = "unjudged"] ELSE result
  /\ pc' = "done"
  /\ tried' = tried \cup {choices}
  /\ UNCHANGED <<job, preference, loop, pass, choice>>

RepairStep ==
  \/ SkipHint \/ CheckExpression \/ DeriveUnknown \/ DeferExpression
  \/ AbsorbViolation \/ RejectExpression
  \/ InitBlock \/ DeferInit \/ DeferAccess \/ RejectIndex \/ ReadCell \/ RejectRead
  \/ WriteCell \/ WriteHint \/ DeferWrite
  \/ DeriveBlackBox \/ DeferBlackBox \/ RejectBlackBox
  \/ RestartRound \/ WalkAgain \/ WalksRunOut \/ Settle \/ FillHints \/ EndFilled
  \/ CheckOpcode \/ Incomplete \/ Refused \/ Certified
  \/ NextPreference \/ Conclude \/ OutOfChoices

-----------------------------------------------------------------------------
(* Properties *)

RepairTypeOK ==
  /\ pc \in {"idle", "walk", "free", "certify", "judged", "done"}
  /\ preference \in 0..MaxPreferences-1
  /\ round \in 1..MaxRounds /\ walk \in 1..MaxWalks
  /\ index \in 1..Len(circuit.opcodes) + 1
  /\ \A f \in {pinned, assignment, corrected} : DOMAIN f \subseteq circuit.wires /\ f \in [DOMAIN f -> Field]
  /\ hardened \subseteq DOMAIN corrected /\ DOMAIN corrected \subseteq Soft
  /\ result.status \in {"none", "accepted", "refuted", "unjudged"}

(* A refutation that rests on choices rests on all of them: wherever some
   preference chose between several hints, each of the others was tried after
   the same choices before, although which choices arise depends on those made
   (repair.rs:126, 394).                                                      *)
ChoicesCovered ==
  pc = "done" /\ result.status = "refuted" =>
    \A c \in tried : \A i \in DOMAIN c : \A w \in c[i].open :
      \E d \in tried :
        /\ Len(d) >= i
        /\ SubSeq(d, 1, i - 1) = SubSeq(c, 1, i - 1)
        /\ d[i] = [c[i] EXCEPT !.pick = w]
=============================================================================
