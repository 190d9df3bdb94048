-------------------------------- MODULE Scan --------------------------------
(***************************************************************************)
(* The scan of one program (src/src/commands/scan.rs): circuits from the   *)
(* callees to the callers, for each one the model, refinement, then its    *)
(* targets in order, each decided in this process or, with                 *)
(* --target-timeout, in a scan-target child that is polled and killed at a *)
(* deadline.  Two things flow between circuits and targets: the verdicts   *)
(* on a circuit's returns decide whether calls to it are abstracted in the *)
(* circuits that follow, and an error must not cost another target its     *)
(* verdict.                                                                *)
(*                                                                         *)
(* A circuit is a model of module Circuit with two more fields, the wires  *)
(* it returns and the sequence of its targets; its known and consts are    *)
(* what propagation computes (module Propagation).                         *)
(***************************************************************************)
EXTENDS Outcomes, FiniteSets

CONSTANTS
  Programs,   \* sequences of circuits
  Budget      \* --target-timeout, in polls of the child

ASSUME BudgetIsNatural == Budget \in Nat

ASSUME ProgramsWellFormed ==
  \A p \in Programs :
    /\ p \in Seq(Models) /\ p # << >>
    /\ \A i \in DOMAIN p :
         /\ p[i].proved = {}
         /\ {"returns", "targets"} \subseteq DOMAIN p[i]
         /\ p[i].returns \subseteq p[i].wires
         /\ p[i].targets \in Seq(p[i].wires)

(* A call whose callee has one value per return for given parameters is a
   function of its inputs.                                                *)
ASSUME CallsMeanTheirCallee ==
  \A p \in Programs : \A i \in DOMAIN p : \A o \in Ops(p[i]) :
    o.kind = "call" =>
      /\ o.callee \in DOMAIN p
      /\ (\A w \in p[o.callee].returns : Unique(p[o.callee], w)) => IsFunction(p[i], o)

VARIABLES
  program,
  noSolve, noRefine, targetTimeout, certify,   \* ScanArgs; they never change
  pc,             \* "build", "refine", "target", "poll", "done"
  circuit,        \* index of the circuit under analysis
  known,          \* fixed_known_signals of its model
  deterministic,  \* deterministic_calls
  position,       \* the next target
  child,          \* the scan-target process
  polls,          \* times the running child was found running
  reports,        \* for each circuit, its target reports
  summary         \* ScanSummary

vars == <<program, noSolve, noRefine, targetTimeout, certify, pc, circuit, known,
          deterministic, position, child, polls, reports, summary>>
args == <<program, noSolve, noRefine, targetTimeout, certify>>

Statuses == {"verified", "unsafe", "unknown", "unsupported", "error"}

NoChild == [state |-> "none", answer |-> Outcome("unknown", "none")]

-----------------------------------------------------------------------------
(* build_model_with_calls, then mark_determined for each refined wire. *)
Model == [program[circuit] EXCEPT !.proved = deterministic, !.known = known]

(* scan-target builds its model with build_model: no callee is known to be
   deterministic, and nothing was refined.                                 *)
ChildModel == [program[circuit] EXCEPT !.proved = {}]

target == program[circuit].targets[position]
HasTarget == position <= Len(program[circuit].targets)

OpenTargets == \E i \in DOMAIN program[circuit].targets :
                 program[circuit].targets[i] \notin known \cup program[circuit].inputs

-----------------------------------------------------------------------------
Init ==
  /\ program \in Programs
  /\ noSolve \in BOOLEAN /\ noRefine \in BOOLEAN
  /\ targetTimeout \in BOOLEAN /\ certify \in BOOLEAN
  /\ pc = "build"
  /\ circuit = Len(program)
  /\ known = {}
  /\ deterministic = {}
  /\ position = 1
  /\ child = NoChild
  /\ polls = 0
  /\ reports = [i \in DOMAIN program |-> << >>]
  /\ summary = [s \in Statuses |-> 0]

BuildModel ==
  /\ pc = "build"
  /\ known' = program[circuit].known
  /\ position' = 1
  /\ pc' = "refine"
  /\ UNCHANGED <<args, circuit, deterministic, child, polls, reports, summary>>

(* Refinement hands back wires it proved unique on refine-circuit's own model
   (module Refine, KnownSound); it is skipped when it cannot change a verdict. *)
Refinable == {w \in program[circuit].wires \ known : Unique(ChildModel, w)}

RefineModel ==
  /\ pc = "refine"
  /\ \E proved \in IF ~noSolve /\ ~noRefine /\ OpenTargets THEN SUBSET Refinable ELSE {{}} :
       known' = known \cup proved
  /\ pc' = "target"
  /\ UNCHANGED <<args, circuit, deterministic, position, child, polls, reports, summary>>

-----------------------------------------------------------------------------
(* One target: its report, with the notes of the parent's model. *)

(* Mutant: a failed target is left out of the reports. *)
RecordUnlessError(answer) ==
  /\ reports' = IF answer.status = "error" THEN reports
                ELSE [reports EXCEPT ![circuit] = Append(@,
                   [wire |-> target, status |-> answer.status, cert |-> answer.cert,
                    noted |-> AbstractionReasonsForTarget(Model, target) # {}])]
  /\ summary' = [summary EXCEPT ![answer.status] = @ + 1]
  /\ position' = position + 1
  /\ pc' = "target"
  /\ child' = NoChild
  /\ polls' = 0
  /\ UNCHANGED <<args, circuit, known, deterministic>>

Record(answer) ==
  /\ reports' = [reports EXCEPT ![circuit] = Append(@,
                   [wire |-> target, status |-> answer.status, cert |-> answer.cert,
                    noted |-> AbstractionReasonsForTarget(Model, target) # {}])]
  /\ summary' = [summary EXCEPT ![answer.status] = @ + 1]
  /\ position' = position + 1
  /\ pc' = "target"
  /\ child' = NoChild
  /\ polls' = 0
  /\ UNCHANGED <<args, circuit, known, deterministic>>

Trivial == IsTriviallyDetermined(Model, target)
AtTarget == pc = "target" /\ HasTarget

NotSolved == AtTarget /\ noSolve /\ ~Trivial /\ Record(Outcome("unknown", "none"))

Unsupported ==
  /\ AtTarget /\ ~noSolve
  /\ ~Admitted(Model, target)
  /\ Record(Outcome("unsupported", "none"))

Solvable == AtTarget /\ (noSolve => Trivial) /\ Admitted(Model, target)

(* In this process, also when a child was wanted but could not be spawned. *)
SolveHere ==
  /\ Solvable
  /\ \E answer \in SolveOutcomes(Model, target, certify) : Record(answer)

SpawnChild ==
  /\ Solvable /\ targetTimeout /\ ~Trivial
  /\ child' = [NoChild EXCEPT !.state = "running"]
  /\ polls' = 0
  /\ pc' = "poll"
  /\ UNCHANGED <<args, circuit, known, deterministic, position, reports, summary>>

(* The child.  Its report goes to a pipe that is read only after it exited: a
   report of a counterexample may be larger than the pipe.                   *)
ChildAnswers ==
  /\ child.state = "running"
  /\ \E answer \in SolveOutcomes(ChildModel, target, certify) :
       \/ /\ answer.status # "error"
          /\ child' = [state |-> "exited", answer |-> answer]
       \/ /\ answer.status = "unsafe"
          /\ child' = [state |-> "blocked", answer |-> answer]
  /\ UNCHANGED <<args, pc, circuit, known, deterministic, position, polls, reports, summary>>

ChildFails ==
  /\ child.state = "running"
  /\ child' = [child EXCEPT !.state = "failed"]
  /\ UNCHANGED <<args, pc, circuit, known, deterministic, position, polls, reports, summary>>

Polling == pc = "poll"
StillRuns == child.state \in {"running", "blocked"}

Poll ==
  /\ Polling /\ StillRuns /\ polls < Budget
  /\ polls' = polls + 1
  /\ UNCHANGED <<args, pc, circuit, known, deterministic, position, child, reports, summary>>

(* Mutant: no deadline. *)
KillOverrunNever == FALSE /\ UNCHANGED vars

KillOverrun ==
  /\ Polling /\ StillRuns /\ polls >= Budget
  /\ Record(Outcome("unknown", "none"))

ReadReport ==
  /\ Polling /\ child.state = "exited"
  /\ Record(child.answer)

(* A failed child, or a report that does not parse. *)
ChildError ==
  /\ Polling /\ child.state \in {"exited", "failed"}
  /\ Record(Outcome("error", "none"))

TryWaitFails ==
  /\ Polling
  /\ Record(Outcome("error", "none"))

-----------------------------------------------------------------------------
VerifiedWires == {reports[circuit][i].wire : i \in
                    {j \in DOMAIN reports[circuit] : reports[circuit][j].status = "verified"}}

(* Mutant: one verified return is enough. *)
SomeReturnVerified == program[circuit].returns \cap VerifiedWires # {}

ReturnsAllVerified ==
  /\ program[circuit].returns # {}
  /\ program[circuit].returns \subseteq VerifiedWires

(* Mutant: the verdict on the callee is not carried over. *)
EndCircuitForgetting ==
  /\ pc = "target" /\ ~HasTarget
  /\ circuit' = IF circuit > 1 THEN circuit - 1 ELSE circuit
  /\ pc' = IF circuit > 1 THEN "build" ELSE "done"
  /\ UNCHANGED <<args, known, deterministic, position, child, polls, reports, summary>>

EndCircuit ==
  /\ pc = "target" /\ ~HasTarget
  /\ deterministic' = deterministic \cup IF ReturnsAllVerified THEN {circuit} ELSE {}
  /\ circuit' = IF circuit > 1 THEN circuit - 1 ELSE circuit
  /\ pc' = IF circuit > 1 THEN "build" ELSE "done"
  /\ UNCHANGED <<args, known, position, child, polls, reports, summary>>

Done == pc = "done" /\ UNCHANGED vars

Parent ==
  \/ BuildModel \/ RefineModel
  \/ NotSolved \/ Unsupported \/ SolveHere \/ SpawnChild
  \/ Poll \/ KillOverrun \/ ReadReport \/ ChildError
  \/ EndCircuit

Child == ChildAnswers \/ ChildFails

Next == Parent \/ Child \/ TryWaitFails \/ Done

Spec == Init /\ [][Next]_vars

(* The parent always runs on; nothing is assumed of the child, nor that a system
   call ever fails.                                                           *)
FairSpec == Spec /\ WF_vars(Parent)

(* ScanReport::exit_code *)
ExitCode ==
  IF summary["error"] > 0 THEN 2 ELSE IF summary["unsafe"] > 0 THEN 1 ELSE 0

-----------------------------------------------------------------------------
(* Properties *)

(* Types. *)
TypeOK ==
  /\ program \in Programs
  /\ noSolve \in BOOLEAN /\ noRefine \in BOOLEAN /\ targetTimeout \in BOOLEAN /\ certify \in BOOLEAN
  /\ pc \in {"build", "refine", "target", "poll", "done"}
  /\ circuit \in DOMAIN program
  /\ known \subseteq UNION {program[i].wires : i \in DOMAIN program}
  /\ deterministic \subseteq DOMAIN program
  /\ position \in Nat \ {0}
  /\ child.state \in {"none", "running", "blocked", "exited", "failed"}
  /\ (child.state # "none") = (pc = "poll")
  /\ polls \in 0..Budget
  /\ DOMAIN reports = DOMAIN program
  /\ summary \in [Statuses -> Nat]

(* The model each query of a circuit is built from is sound: every call it
   abstracts is a function, because all returns of the callee were verified on
   the callee's own model, which abstracts calls for the same reason; and every
   wire it cuts at, refined ones included, is unique (scan.rs:62, 158); types
   included.                                                                   *)
ModelIsSound == TypeOK /\ (pc \in {"refine", "target", "poll"} => SoundModel(Model))

(* Every report means what its verdict says, whichever process it came from and
   whatever was abstracted, refined or failed before it (scan.rs:113-157).      *)
ReportsJustified ==
  \A i \in DOMAIN program : \A j \in DOMAIN reports[i] :
    Justified(program[i], reports[i][j].wire, reports[i][j].status, reports[i][j].cert)

(* Where the reports with verdict s are. *)
Reported(s) ==
  UNION {{i} \X {j \in DOMAIN reports[i] : reports[i][j].status = s} : i \in DOMAIN program}

(* Nothing is lost: when the scan ends, every target of every circuit has its
   report, in order, whatever failed before it; the summary counts them; and
   the exit code says whether any of them is an error or a finding.           *)
NothingLost ==
  pc = "done" =>
    /\ \A i \in DOMAIN program :
         /\ Len(reports[i]) = Len(program[i].targets)
         /\ \A j \in DOMAIN reports[i] : reports[i][j].wire = program[i].targets[j]
    /\ \A s \in Statuses : summary[s] = Cardinality(Reported(s))
    /\ LET has(s) == \E i \in DOMAIN program : \E j \in DOMAIN reports[i] : reports[i][j].status = s
       IN  ExitCode = IF has("error") THEN 2 ELSE IF has("unsafe") THEN 1 ELSE 0

AllVerified(i) ==
  /\ program[i].returns # {}
  /\ \A w \in program[i].returns :
       \E j \in DOMAIN reports[i] : reports[i][j].wire = w /\ reports[i][j].status = "verified"

(* The reverse order is what lets calls be abstracted: a target is not called
   unsupported on account of a call to a later circuit whose returns have all
   been verified (scan.rs:51-56, 158-181).                                    *)
VerifiedCalleesAreUsed ==
  \A i \in DOMAIN program : \A j \in DOMAIN reports[i] :
    reports[i][j].status = "unsupported" =>
      \E o \in Ops(program[i]) :
        /\ o.wires = {} \/ Touches(o, DependencyComponent(program[i], reports[i][j].wire))
        /\ \/ o.kind = "unsupported"
           \/ o.kind = "call" /\ ~(o.callee > i /\ o.outs # {} /\ AllVerified(o.callee))

(* The scan ends, also when children hang (scan.rs:454-466). *)
Terminates == <>(pc = "done")

(* "the verdict was computed under the abstraction" (report.rs:114): an unsafe
   report with notes is about a pair of runs that the abstraction admits.      *)
UnsafeUnderAbstraction ==
  \A j \in DOMAIN reports[circuit] :
    LET r == reports[circuit][j]
    IN  pc = "target" /\ r.status = "unsafe" /\ r.noted =>
          QueryPairs(Model, ExactComponent(Model, r.wire), known, r.wire) # {}
=============================================================================
