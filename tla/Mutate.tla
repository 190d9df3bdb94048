------------------------------- MODULE Mutate -------------------------------
(***************************************************************************)
(* search_with of src/src/dynamic/mutate.rs: is there a second witness of  *)
(* an honest run, for the same inputs?  Return values, inputs and then     *)
(* every other witness are moved, one at a time, and each move is handed   *)
(* to module Repair.                                                       *)
(***************************************************************************)
EXTENDS Repair, Candidates

CONSTANTS
  Circuits,   \* circuits without calls
  Options     \* SearchOptions: [hintsOnly, skipInputs, deadline]

ASSUME CircuitsWellFormed == \A c \in Circuits : WellFormedCircuit(c)

VARIABLES
  options,
  phase,         \* "returns", "inputs", "surface", "done"
  todo,          \* witnesses of the phase still to be searched
  searching,     \* << >>, or the witness being searched
  alternatives,  \* its candidates still to be tried
  report         \* MutationReport

searchVars == <<phase, todo, searching, alternatives, options>>
vars == <<searchVars, report, repairVars>>

Counters == {"attempted", "hints", "repaired", "accepted", "internal", "acceptedInputs", "refuted", "unjudged"}

Moving(w, v, a) == [witness |-> w, alternative |-> v, assignment |-> a]

NotBegun ==
  /\ mutated = 0 /\ value = 0
  /\ preference = 0 /\ widest = 1 /\ tried = {}
  /\ pinned = << >> /\ round = 1 /\ walk = 1 /\ before = 0 /\ filled = FALSE
  /\ index = 1 /\ assignment = << >> /\ corrected = << >> /\ hardened = {}
  /\ deferred = FALSE /\ blocks = << >>
  /\ choices = << >> /\ space = 1
  /\ result = Outcome(FALSE, "none")

Init ==
  /\ circuit \in Circuits
  /\ honest \in Runs(circuit)
  /\ options \in Options
  /\ pc = "idle" /\ NotBegun
  /\ phase = "returns"
  /\ todo = Ascending(circuit.returns \ circuit.inputs)
  /\ searching = << >>
  /\ alternatives = << >>
  /\ report = [attempted |-> 0, hints |-> 0, repaired |-> 0, accepted |-> 0, internal |-> 0,
               acceptedInputs |-> 0, refuted |-> 0, unjudged |-> 0, findings |-> << >>, inputs |-> << >>]

(* attack_surface: the hints first. *)
Surface ==
  Ascending(circuit.hints)
    \o (IF options.hintsOnly THEN << >> ELSE Ascending(circuit.wires \ (circuit.inputs \cup circuit.hints)))

AlternativesOf(w) ==
  IF phase = "returns" THEN CandidateValues(honest[w])
  ELSE IF phase = "inputs" THEN InputCandidates(circuit, w, honest[w])
  ELSE SurfaceCandidates(circuit, w, honest[w])

Between == pc = "idle" /\ searching = << >>

NextWitness ==
  /\ Between /\ todo # << >>
  /\ searching' = <<Head(todo)>>
  /\ todo' = Tail(todo)
  /\ alternatives' = AlternativesOf(Head(todo))
  /\ report' = IF phase = "surface" THEN [report EXCEPT !["hints"] = @ + 1] ELSE report
  /\ UNCHANGED <<repairVars, options, phase>>

(* The deadline is looked at before a witness, never before an alternative, and
   not while the returns are searched.                                        *)
OutOfTime ==
  /\ Between /\ todo # << >>
  /\ options.deadline /\ phase \in {"inputs", "surface"}
  /\ todo' = << >>
  /\ UNCHANGED <<repairVars, options, phase, searching, alternatives, report>>

NextPhase ==
  /\ Between /\ todo = << >>
  /\ \/ /\ phase = "returns" /\ phase' = "inputs"
        /\ todo' = IF options.skipInputs THEN << >> ELSE Ascending(circuit.inputs)
     \/ phase = "inputs" /\ phase' = "surface" /\ todo' = Surface
     \/ phase = "surface" /\ phase' = "done" /\ todo' = << >>
  /\ UNCHANGED <<repairVars, options, searching, alternatives, report>>

Attempt ==
  /\ searching # << >> /\ alternatives # << >>
  /\ Begin(searching[1], Head(alternatives))
  /\ alternatives' = Tail(alternatives)
  /\ report' = [report EXCEPT !["attempted"] = @ + 1]
  /\ UNCHANGED <<options, phase, todo, searching>>

GiveUpWitness ==
  /\ pc = "idle" /\ searching # << >> /\ alternatives = << >>
  /\ searching' = << >>
  /\ UNCHANGED <<repairVars, options, phase, todo, alternatives, report>>

-----------------------------------------------------------------------------
(* What an outcome is to the search. *)

Bit(b) == IF b THEN 1 ELSE 0

(* MutationFunnel::record *)
Record(r) ==
  [r EXCEPT !["repaired"] = @ + Bit(result.solved),
            !["refuted"] = @ + Bit(result.status = "refuted"),
            !["unjudged"] = @ + Bit(result.status = "unjudged")]

Diverges == \E w \in circuit.returns : assignment[w] # honest[w]

Receive(r) == pc = "done" /\ pc' = "idle" /\ report' = r
KeepRepair == UNCHANGED <<job, attempt, loop, pass, choice, result, options, phase, todo>>

NotAccepted ==
  /\ ~Accepted
  /\ Receive(Record(report))
  /\ KeepRepair /\ UNCHANGED <<searching, alternatives>>

(* A return value itself was moved, or moved with another witness. *)
Finding ==
  /\ Accepted
  /\ phase = "returns" \/ (phase = "surface" /\ Diverges)
  /\ Receive([Record(report) EXCEPT !["accepted"] = @ + 1,
                                    !["findings"] = Append(@, Moving(mutated, value, assignment))])
  /\ searching' = << >> /\ alternatives' = << >>
  /\ KeepRepair

InternalOnly ==
  /\ Accepted /\ phase = "surface" /\ ~Diverges
  /\ Receive([Record(report) EXCEPT !["accepted"] = @ + 1, !["internal"] = @ + 1])
  /\ KeepRepair /\ UNCHANGED <<searching, alternatives>>

AcceptedInput ==
  /\ Accepted /\ phase = "inputs"
  /\ Receive([Record(report) EXCEPT !["acceptedInputs"] = @ + 1,
                                    !["inputs"] = Append(@, Moving(mutated, value, assignment))])
  /\ searching' = << >> /\ alternatives' = << >>
  /\ KeepRepair

(* The report is returned. *)
Finished == phase = "done" /\ UNCHANGED vars

Next ==
  \/ NextWitness \/ OutOfTime \/ NextPhase \/ Attempt \/ GiveUpWitness
  \/ RepairStep /\ UNCHANGED <<searchVars, report>>
  \/ NotAccepted \/ Finding \/ InternalOnly \/ AcceptedInput
  \/ Finished

Spec == Init /\ [][Next]_vars

-----------------------------------------------------------------------------
(* Properties *)

TypeOK ==
  /\ RepairTypeOK
  /\ phase \in {"returns", "inputs", "surface", "done"}
  /\ ToSet(todo) \cup ToSet(searching) \subseteq circuit.wires
  /\ ToSet(alternatives) \subseteq Field
  /\ \A k \in Counters : report[k] \in Nat

(* Every finding is a second run of the circuit with the inputs of the honest
   one and another return value, whatever was guessed, corrected, restarted or
   filled in on the way (mutate.rs:182, 274; repair.rs:86); types included.     *)
FindingsAreReal ==
  /\ TypeOK
  /\ \A f \in ToSet(report.findings) :
       /\ IsRun(circuit, f.assignment)
       /\ \A w \in circuit.inputs : f.assignment[w] = honest[w]
       /\ \E w \in circuit.returns : f.assignment[w] # honest[w]

(* Another run has the inputs of the honest one and other return values. *)
Forgeable ==
  \E a \in Runs(circuit) :
    (\A w \in circuit.inputs : a[w] = honest[w]) /\ (\E w \in circuit.returns : a[w] # honest[w])

(* Each attempt is counted once as what it came to: nothing is lost between
   repair and the report, so a search that found nothing can be read for what
   it covered (mutate.rs:74, 113).                                             *)
FunnelAddsUp ==
  pc = "idle" =>
    report["attempted"] = report["accepted"] + report["acceptedInputs"] + report["refuted"] + report["unjudged"]

(* The search cannot run forever, whatever the hints do to each other: every
   step takes it further through its loops, phases outermost, opcodes innermost,
   each of which is bounded (mutate.rs:249; repair.rs:104, 228, 273).          *)
Rank(names, name) == CHOOSE i \in DOMAIN names : names[i] = name

Stage ==
  IF pc = "walk" THEN IF filled THEN 3 ELSE 1
  ELSE IF pc = "free" THEN 2
  ELSE 3 + Rank(<<"certify", "judged", "done", "idle">>, pc)

Position ==
  <<Rank(<<"returns", "inputs", "surface", "done">>, phase),
    -Len(todo), -Len(searching) - Len(alternatives), IF pc = "idle" THEN 1 ELSE 0,
    preference, Stage, round, walk, index>>

Beyond(p, q) == \E i \in DOMAIN p : p[i] > q[i] /\ \A j \in 1..i-1 : p[j] = q[j]

AlwaysForward == [][Beyond(Position', Position)]_vars
=====
