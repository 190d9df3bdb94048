------------------------------ MODULE Commands ------------------------------
(***************************************************************************)
(* The two commands that answer a hint differently and run the rest: fuzz  *)
(* (src/src/commands/fuzz.rs), and label-mutant with the mutants it labels *)
(* (src/src/commands/mutants.rs).                                          *)
(***************************************************************************)
EXTENDS Fuzz, Label

VARIABLE command   \* "fuzz" or "label-mutant"

vars == <<overrideVars, fuzzOwn, labelOwn, command>>

FuzzIdle ==
  /\ options = [seeded |-> FALSE, stopAtFirst |-> FALSE]
  /\ round = 0 /\ runsLeft = 0 /\ links = NoLinks
  /\ seen = {} /\ findings = {} /\ failures = 0 /\ overrun = 0

LabelIdle ==
  /\ original = program /\ opcodeIndex = 1
  /\ variants = << >> /\ kind = "honest" /\ report = NoReport

Init ==
  \/ command = "fuzz" /\ FuzzInit /\ LabelIdle
  \/ command = "label-mutant" /\ LabelInit /\ FuzzIdle

Finished == Ended /\ UNCHANGED vars

Next ==
  \/ DeadlinePasses /\ UNCHANGED <<fuzzOwn, labelOwn, command>>
  \/ command = "fuzz" /\ FuzzNext /\ UNCHANGED <<labelOwn, command>>
  \/ command = "label-mutant" /\ LabelNext /\ UNCHANGED <<fuzzOwn, command>>
  \/ Finished

Spec == Init /\ [][Next]_vars

-----------------------------------------------------------------------------
(* Properties of fuzz *)

(* A finding of the fuzzer is no false positive: both assignments are runs of
   the circuit, on the same parameters, with different returns and another
   answer to the hint, although the inputs were repaired on the way and one of
   the runs was overwritten in its middle (fuzz.rs:18, 585, 789).             *)
FuzzFindingsAreReal ==
  \A f \in findings :
    LET first == Completions(program, f.honest)
        second == Completions(program, f.alternative)
    IN  /\ \A a \in first \cup second : IsRun(program, a)
        /\ \E a \in first, b \in second :
             /\ Agree(program.inputs, a, b)
             /\ Differ(program.returns, a, b) # {}
             /\ a[f.hint] # b[f.hint]

(* What is no longer looked at was reported, once: a finding survives the
   deadline that interrupts its search, and a hint that gave nothing on these
   inputs is tried again on the next (fuzz.rs:622, 780, 806).  A fuzzer that
   panics on a return that the honest run left open has marked the hint and
   reports nothing (fuzz.rs:808, 822, 834).                                   *)
SeenIsReported ==
  phase # "panicked" =>
    /\ seen = {f.hint : f \in findings}
    /\ \A f, g \in findings : f.hint = g.hint => f = g

(* The deadline is looked at before a round and before an override; a round
   that began in time may still execute as often as it may repair, and once
   for each array (fuzz.rs:515, 517, 782; concrete.rs:234).                   *)
OverrunIsBounded == command = "fuzz" => overrun <= MaxRepairs + 1 + LearningRuns(program)

-----------------------------------------------------------------------------
(* Properties of label-mutant *)

Rejects(c, a) == Execute(c, [w \in c.inputs |-> a[w]]).failed

Honest(a) == Agree(original.inputs, a, original.seed)

(* Every label but no-weakening has an example: runs of the mutant that break
   the check; for internal, next to a run of the original on the same inputs
   with the same outputs; for nondet, next to one with the outputs that were
   reported, at inputs of the kind that was reported.  A baseline is an
   ambiguity of the original at its own inputs (label.rs:3, 18, 24).          *)
LabelIsJustified ==
  LET broken == {a \in Runs(program) : Violates(Check, a)}
      runs == Runs(original)
  IN  command = "label-mutant" =>
        /\ report.label = "internal" =>
             \E a \in broken, b \in runs : Agree(original.inputs, a, b) /\ Differ(original.returns, a, b) = {}
        /\ report.label = "over-accept" => \E a \in broken : Rejects(original, a)
        /\ report.label = "nondet" =>
             \E b \in broken : \E a \in Runs(program) :
               /\ Agree(program.inputs, a, b)
               /\ report.moved # {} /\ report.moved = {<<w, a[w], b[w]>> : w \in Differ(program.returns, a, b)}
               /\ report.nondetInputs = "honest" => Honest(a) /\ IsRun(original, a)
               /\ report.nondetInputs = "rejected" <=> Rejects(original, a)
        /\ report.baseline =>
             \E a, b \in {r \in runs : Honest(r)} : Differ(original.returns, a, b) # {}

(* A mutant starts from where the original does: wherever the original runs, the
   mutant runs to the same assignment (mutants.rs:13).                        *)
MutantStillRuns ==
  command = "label-mutant" /\ phase = "honest" =>
    \A ins \in [original.inputs -> Field] :
      LET s == Execute(original, ins)
      IN  ~s.failed => Execute(program, ins) = [s EXCEPT !.blocks = Execute(program, ins).blocks]
=============================================================================
