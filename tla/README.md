# TLA+ models of noir-picus-adapter

noir-picus-adapter takes compiled Noir circuits (ACIR), and asks of each target
wire whether the circuit's inputs determine it. It translates the circuit into
constraints over two copies that share their inputs, slices them around the
target, and lets an SMT solver look for two runs that differ there. A verdict
is `verified`, `unsafe`, `unknown`, `unsupported` or `error`; an `unsafe` may
carry a certificate. What the verdicts have to mean is written in
`src/docs/SOUNDNESS.md`; these modules state it formally, model the code that
has to keep it, check the models with TLC on small circuits over small fields,
and prove the most important part for every circuit with TLAPS.

Paths below are relative to the repository; `translate.rs` alone means
`src/src/translate.rs`, and so on.

## 1. Inventory

### The verdict path

| Component | State it keeps | Operations | What makes it correct |
|---|---|---|---|
| Target solver, `solver.rs` | slice depth, statistics, report | `solve_target`, `run_query` | `verified` only if the wire is unique; a counterexample is reported only from the exact slice; the escalation ends |
| Slicing and query building, `translate.rs` | constraint groups, dependency edges, `constant_signals`, `fixed_known_signals`, abstraction and unsupported notes | `build_model_with_calls`, `layered_component`, `exact_component`, `local_window`, `build_query`, notes of a target | every slice admits every genuine divergence; the exact slice is the whole cone of the target; constants cut at are pinned |
| Determinism abstraction, `translate/determinism.rs` | none | functional black boxes and proved calls as "equal inputs give equal outputs" | only functions are abstracted |
| Uniqueness propagation, `translate/uniqueness.rs` | `determined`, `nonzero`, `bounds` | four lemmas, non-zero facts, bounds, two fixpoint loops | a determined wire is unique; bounds and non-zero facts hold; the loops end at a fixpoint |
| Constant propagation, `translate/known.rs` | `known` values | `infer_constant_signals`, the seeded form, coverage and first violated constraint | a constant wire has its value in every run |
| Opcodes, wires and expressions, `translate/wires.rs`, `expr.rs`, `ir.rs`, `field.rs` | none | `opcode_wires`, linear forms, conversion | wires of an opcode are complete |
| RANGE, bitwise and memory encodings, `translate/range.rs`, `bitwise.rs`, `memory.rs` | `next_aux_wire`, the cell wires of each block | bit decomposition, the forms of AND and XOR, one-hot selectors, new cells for each write | the constraints have the circuit's runs, each of them once |
| Certificate, `dynamic/certify.rs` | witness map, memory blocks | `certify`, `check_opcode` | `certified` means that the target is not unique; `refuted` means that a copy is no run |
| Refinement, `refine.rs`, `refine/window.rs` | determined set, sweep position, budget, child process | `refine`, `is_unique_isolated` | whatever is killed or late, what it marks is unique |
| Scan driver, `commands/scan.rs` | proved callees, reports, summary, child process | the circuit loop, target loop, `refine_out_of_process`, `solve_out_of_process` | calls are abstracted only when their callee is proved; nothing is lost; the exit code is right |
| Report, `report.rs` | `ScanReport`, `ScanSummary` | `record`, `exit_code` | counts what was reported |

### The dynamic path

| Component | State it keeps | Operations | What makes it correct |
|---|---|---|---|
| Assignment repair, `dynamic/repair.rs` | partial assignment, corrected and hardened hints, pinned values, memory blocks, choice points, preference | `repair`, `repair_with`, `solve_pass`, `derive_black_box` | accepted means a run of the circuit; refuted means that every choice was tried; the nested loops end |
| Mutation search, `dynamic/mutate.rs`, `candidates.rs` | phase, witnesses and values left, `MutationReport` | `search_with`, `attack_surface`, the candidate lists | a finding is a second run with the same inputs; every attempt is counted once; what is in reach is found |

| Concrete execution, `dynamic/concrete.rs` | values, blocks, and the failing opcode of a run; learned input links | `execute`, `execute_with_override`, `execute_with_repairs`, `linear_repair` | inputs that one parameter keeps from running are repaired; what is reported as a run is one |
| Dynamic fuzzing, `dynamic/fuzz.rs`, `commands/fuzz.rs` | round, inputs, links, seen hints, findings, deadline | `fuzz`, `generate`, `learn_links`, `override_search` | a finding is two runs on the same inputs; none is lost or doubled; the deadline holds up to a known number of runs |
| Circuit mutants and labels, `mutants.rs`, `commands/mutants.rs`, `dynamic/label.rs` | the mutant, the base run, variants left, the report | `mutants`, `label`, `overrides`, `first_accepted` | a mutant runs where its original does; a label has the runs it claims |

### Explanation

| Component | State it keeps | Operations | What makes it correct |
|---|---|---|---|
| Unpinned explanation, `dynamic/explain.rs`, `commands/unpinned.rs` | bounds, non-zero wires, determined wires, reached wires | `value_bounds`, `derived_bounds`, `provably_nonzero`, `is_zero_gadgets`, `refine_determined`, `reachable_from_outputs`, `explain_with_bounds` | bounds hold; no free hint is taken for determined; a hint called never pinned is free |

### The rest

| Component | What it does |
|---|---|
| Targets and artifacts, `targets.rs`, `artifact.rs` | read JSON, list each circuit's targets |
| Debug information, `debug_info.rs` | names and source positions for the report |
| Command line, `cli.rs`, `main.rs`, `lib.rs`, `commands/mod.rs` | options and dispatch |
| Mutation command, `commands/mutate.rs` | runs the search over the circuits of a program and prints its report |
| Witness commands, `commands/witness.rs` | execute, replay and compare witnesses with seeded constants |
| Campaign scripts, `tools/*.py` | generate programs and run the tool over them |
| Solver backends | picus-smt, cvc5: external |
| ACVM and Brillig machine | execute an opcode, or the code of a hint: external |

### How they interact

`scan` walks the circuits from the last to the first, so that callees come
before callers. For each it builds a model (which runs uniqueness and constant
propagation), spawns `refine-circuit`, which spawns a `solve-window` per query
and writes the wires it proved to a file that `scan` reads, marks those wires
determined in its own model, and then decides the targets in order, either in
its own process or in a `scan-target` child that builds the model again. A
circuit whose returns are all `verified` joins `deterministic_calls`, and the
models of the circuits before it abstract calls to it. `solve_target` uses the
model's slices, hands a query to the backend, and certifies a counterexample.

`mutate` and `fuzz` need no solver. `mutate` starts from an honest run, moves a
witness, and lets `repair` derive the rest again. Repair ends in the same
`certify` that judges a counterexample, with the assignment in both copies.
`fuzz` makes the honest run itself, from generated inputs that it repairs until
they execute; it answers one hint differently, executes the rest honestly and
compares the returns, and then hands the run to the mutation search.
`label-mutant` does the same with the original of a mutant beside it.
`unpinned` needs neither solver nor run: it extends what `build_model`
propagated by rules of its own.

### What is hard here

- Soundness flows through six passes that know little of each other: a wire
  wrongly determined by one lemma, one window, one callee or one stale file
  spoils every later verdict, and no test that runs one pass would show it.
- The component that notes are looked up in is cut at inputs, the component
  that is queried and certified is not, and the component of a relaxed slice
  is cut at determined wires too.
- Four kinds of process, three deadlines that only look at some points of a
  loop, and files and pipes that are read after a process is gone.
- Field arithmetic: lemmas about integers applied to congruences, in two places
  that share no code (`uniqueness.rs`, `explain.rs`).
- The blocks of memory are tracked three times: as wires by the translation, as
  values by the certificate, and as initial cells by the explanation.
- The clock: the fuzzer and the labeller look at their deadline at some points
  only, and carry on what they found across it.
- Repair restarts, corrects and guesses: three loops around a walk over the
  opcodes, each with a bound and a reason to begin again. What it guessed must
  not survive into an answer, and which choices there are depends on those
  made before.

There is no shared memory and there are no threads of the program's own;
concurrency is that of processes.

## 2. Plan

Order of work, most important first. Done in this state of the project:

1. `Circuit`, `Outcomes`, `SolveTarget`, `Verdict`: what a verdict means, and
   the decision of one target.
2. `Refine`: three processes, two deadlines.
3. `Propagation`: lemmas, bounds and constants.
4. `Scan`: whole programs, child processes, calls.
5. `AcirCheck`, `Repair`, `Candidates`, `Mutate`: the mutation search, against
   "a finding is a second run".
6. `Encodings`, `Pipeline`: what each opcode becomes, and a circuit on its way
   from the translation through the exact query to the certificate of both
   copies, memory included.
7. `Unpinned`: the second propagation and its verdicts.
8. `Concrete`, `Override`, `Fuzz`, `Label`, `Commands`: execution, the fuzzer,
   mutants and their labels, under a deadline.
9. `CircuitTheorems`, `SolveTargetProofs`, `RefineProofs`: the decision of one
   target, refinement.
10. `ScanProofs`: the verdicts of whole programs.
11. `MutateProofs`: an accepted assignment is a run, the search ends, its
    counters add up.
12. `PropagationProofs`: what the lemmas learn holds in every run, what they
    determine is unique, and the propagation ends at a fixpoint.
13. `CommandsProofs`: the fuzzer's bookkeeping, that its findings are runs, that
    a mutant runs, and that its label is justified.
14. `UnpinnedProofs`: the bounds and non-zero wires that the second propagation
    rests on hold in every run, and a hint it calls free is free.

To come:

15. `CertifiedIsReal` of `Pipeline`. A read may be checked against a block that
    lacks a write of constants, and is then true only because the query says so as
    well: the argument needs the meaning of the selectors that the translation
    makes, in a module that is free of the bitwise operators.
16. `RefinedUnique` of `Unpinned`: reads of a block, divisions, positional splits.
17. The seeded form of constant propagation, coverage and the first violated
    constraint, for the witness commands.

Composition: `Refine`, `Scan` and `SolveTarget` all build on `Circuit`. `Scan`
takes what `SolveTarget` does from `Outcomes` (the run `solve_target` checks
that `SolveTarget` answers only what `Outcomes` lists) and what `Refine` hands
back as any set of unique wires (which is `KnownSound` of `Refine`).
`Propagation` produces the `known` and `consts` of a model; that they are as
`Circuit` assumes (`ModelsSound`) is its `ResultIsSound`. `Pipeline` opens up
what `Circuit` takes for granted, that the group of an exact opcode has the
opcode's own meaning: that is its `EncodingFaithful`. `Mutate` extends
`Repair`, whose steps are its own while an attempt is under way, and
`Candidates`, which are functions. `Unpinned` starts from the fixpoint of
`Propagation` (`Known`, built from the same lemmas by INSTANCE). `Commands` is
either the fuzzer or the labeller, over the execution and the deadline they
share in `Override`; the mutation search inside the fuzzer is what `Mutate`
shows of it (`FindingsAreReal`, at most one finding for a witness).

## 3. Modules and code

`Circuit` is the vocabulary. A model is a record of wires, inputs, opcodes,
constant wires, determined wires and proved callees: the parts of
`PicusModel` that a verdict depends on. `Holds(o, a)` is a parameter: what
ACIR accepts at opcode `o`. `Solutions` and `Unique` are the meaning of the
circuit and refer to nothing else; everything a pass does is an operator named
for the function it models (`DependencyComponentCut`, `LocalWindow`,
`Selected`, `QueryPairs`...). A constraint group stands for the opcode it
translates: "exact" has the opcode's own meaning, "functional" relates the two
copies only, "dropped" and "unsupported" have none.

`Acir` gives `Holds` for the model checker: AssertZero, RANGE, a black box, a
curve opcode, a call and a hint over the field of `P` elements. `Gadgets` and
`CallGadgets` hold the circuits under study.

`Verdict` is the abstract specification: a verdict is given once, and it is
justified. `SolveTarget` implements it: `FixedInput`, `LinearPropagation`,
`Begin`, one `SliceRound` per round of `layered_component`, and the answers of
the backend. The solver is the environment and is bound to be right, not to
answer: `unsat` only for a query without solution, `sat` with one of them.
`Outcomes` lists the answers in one operator, for `Scan`.

`Refine` has a variable block per process: the scan (`ScanSpawn`,
`ScanSpawnFails`, `ScanReap`, `ScanKill`, `ScanRead`), refine-circuit (`Load`,
`NextWitness`, `EndSweep`, `SkipWindow`, `SpawnWindow`, `TakeUnsat`,
`PrintWire`...), solve-window (`WindowUnsat`, `WindowOther`), and the clock
(`Tick`). `missed` is a history variable: the pass was cut short or a query
that would have been unsatisfiable was not answered so.

`Propagation` has one action per loop body of `propagate_bounds`, the lemma
loop, the conditional-zero pass and `infer_constant_signals`. A bound is a
natural number, as `u128`/`BigUint` is in the code, never reduced.

`Scan` has the program's circuits, the arguments, the loop position, the child
process and the reports. `ChildModel` is the model that the `scan-target`
child builds; it differs from the parent's, and the difference is a finding.

`AcirCheck` is `check_opcode` over one assignment, memory blocks included.
Beside it stands `IsRun`, what a run of a circuit is, stated without the state
of any block: a read has the value of the last write at its index. `Accepts`
walks and carries blocks, `IsRun` looks back.

`Repair` has one step per opcode of a walk and one per end of a walk; `pc`
names the part of `repair_with` that is running. A walk fills `assignment`; its
end either begins a round again from `pinned` with the `corrected` hints
(`RestartRound`), walks again (`WalkAgain`), or goes on to the honest values of
hints nothing pinned (`FillHints`) and to the certificate (`CheckOpcode`,
`Refused`, `Incomplete`, `Certified`). `NextPreference` is the loop of `repair`
around all that. `tried` is a history variable: the choices each preference led
through, from which `ChoicesCovered` reads whether the product of the choices
was really walked.

`Candidates` has the lists of values, with their order and their cut-offs,
because the first accepted value ends the search of a witness. `Mutate` has the
three phases of `search_with`, returns, inputs, surface; between attempts it
chooses, during one its steps are those of `Repair`, and the outcome is
received by `NotAccepted`, `Finding`, `InternalOnly` or `AcceptedInput`.

`Encodings` has an opcode's constraints as the code emits them: sums of products
and linear terms over the opcode's wires and fresh ones. `Pipeline` is one
circuit from its first opcode to a certificate. `Translate...` and `DropRange`
are the arms of `build_model_with_calls`; `nextWire` allocates, `cells` is the
state of the blocks. `Answer` is a solver that returns any two solutions of the
exact slice (`Selected`, `Pinned`), completed with any value where the query
says nothing. `CheckClaim`, `SkipOpcode`, `OpcodeUnsupported`,
`OpcodeViolated`, `OpcodeSatisfied` and `WalkEnds` are `certify`, one opcode of
one copy a step. The two halves share nothing but the circuit, in the model as
in the code, which is why one can be held against the other.

`Unpinned` has a phase per loop: `bounds`, `derive`, `narrow` make the bounds,
`gadgets` and `refine` are the loop of `refine_determined`, `reach` is
`reachable_from_outputs`, `hints` the report. `unpinned` and
`refine_determined` compute bounds separately, from the same function; one
variable stands for both, and the verdicts use it, as `explain_with_bounds`
derives them again.

`Concrete` has the run of a circuit as a record that one opcode after the other
extends or fails, and the two repairs a failed run suggests. `Override` holds
the state that `fuzz` and `label-mutant` share and the clock,
`DeadlinePasses`, which may strike between any two steps. `Fuzz` follows a
round: `StartRound`, then `RunSolves`, `RepairInputs` or `GiveUp`, `LearnLinks`
in the seed's round, `StartOverrides`, a `TryOverride` per hint and value,
`EndOverrides`, `MutationSearch`. `Panic` is an override that assigns a return
the honest run left open: the hint is marked, the finding cannot be built, and
the process ends with what it had found. What the random generator draws is any
member of `Generated`, wherever earlier rounds found positions; which of two overlapping links wins is left open.
`overrun` is a history variable: executions begun after the deadline. `Label`
starts with any mutant of any original, runs the original, tries the answers of
each hint on the mutant, and goes on to the variants of the inputs
(`TryVariant`, `SkipVariant`). An execution there may end in an assertion of the
ACVM, which the code catches; nothing it assigned is kept (`Panicked`). `Commands` chooses the command.

`MCSolveTarget`, `MCRefine`, `MCPropagation`, `MCScan`, `MCMutate`,
`MCPipeline`, `MCUnpinned` and `MCCommands` give the constants their values.
Definitions whose comment begins with "Mutant:" are plausible bugs of the code:
each property is known to fail under one of them.

| Module | Code |
|---|---|
| Circuit | `translate.rs` |
| Outcomes | `solver.rs`, `translate.rs`, `dynamic/certify.rs` |
| SolveTarget, Verdict | `solver.rs`, the loop of `layered_component` |
| Acir | `translate/wires.rs`, `translate/range.rs`, `translate/determinism.rs`, `dynamic/certify.rs` |
| Propagation | `translate/uniqueness.rs`, `translate/known.rs` |
| Refine | `refine.rs`, `refine/window.rs`, `commands/scan.rs` |
| Scan | `commands/scan.rs`, `report.rs` |
| AcirCheck | `dynamic/certify.rs` |
| Repair | `dynamic/repair.rs`, the loop of `certify` |
| Candidates | `dynamic/candidates.rs` |
| Mutate | `dynamic/mutate.rs` |
| Encodings | `translate/range.rs`, `translate/bitwise.rs`, `translate/memory.rs`, `translate/expr.rs`, `translate/ir.rs` |
| Pipeline | `translate.rs`, `solver.rs`, `dynamic/certify.rs` |
| Unpinned | `dynamic/explain.rs`, `commands/unpinned.rs` |
| Concrete | `dynamic/concrete.rs` (the ACVM is external) |
| Override, Fuzz | `dynamic/fuzz.rs`, the loop of `execute_with_repairs` |
| Label | `mutants.rs`, `dynamic/label.rs` |
| Commands | `commands/fuzz.rs`, `commands/mutants.rs` |

## 4. Runs

| Run | Instance | What it checks |
|---|---|---|
| `solve_target` | 13 circuits of up to five wires over P = 3, every wire as target, certificates on and off | `TypeOK`, `VerifiedUnique`, `UnsafeReal`, `ExactIsCone`, `AnswersAsListed`, refinement of `Verdict` (`ImplementsVerdict`), `Terminates` |
| `refine` | 5 circuits, one radius, clock to 6 | `TypeOK`, `KnownSound`, `KeepsProved`, `SweepsToFixpoint`, `Terminates` with a grace too short for a witness, so that kills happen |
| `refine_grace` | 5 circuits, two radii, clock to 7 | `NeverKilled`, `WindowDeadline` with a grace that covers the start-up and one witness |
| `propagation` | families of circuits over P = 7, all lemmas or all but one | `FactsHold`, `ResultIsSound`, `StopsAtFixpoint`, `Terminates` |
| `scan` | 5 programs of two and three circuits over P = 3, all arguments | `ModelIsSound`, `ReportsJustified`, `NothingLost`, `VerifiedCalleesAreUsed`, `Terminates` |
| `mutate` | 7 circuits over P = 5, every honest run of each, hints only or everything, with and without a deadline | `FindingsAreReal`, `FunnelAddsUp`, `ChoicesCovered`, `CastForgeryFound`, `AlwaysForward` |
| `pipeline` | 55 circuits of up to five wires over P = 5, every target, every pair a solver may answer with | `EncodingFaithful`, `CertifiedIsReal`, `ExactIsNotRefuted` |
| `unpinned` | 15 families of circuits over P = 11, with and without single bits | `FactsHold`, `RefinedUnique`, `NeverPinnedIsFree` |
| `commands` | 8 programs for the fuzzer, all mutants of 12 circuits for the labeller, over P = 5, the deadline at any step | `FuzzFindingsAreReal`, `SeenIsReported`, `OverrunIsBounded`, `PinnedInputsRun`, `LabelIsJustified`, `MutantStillRuns` |

Where a run lists no `TypeOK`, its first invariant includes the types
(`FactsHold`, `ModelIsSound`, `FindingsAreReal`, `EncodingFaithful`; the
variables of `Commands` have no type invariant of their own).

Three further runs, `scan_child`, `stale_block` and `pinned`, each end in a
counterexample; see section 7.

Premises that are part of a property, because without them the code does not
keep it:

- `CertifiedIsReal` requires `ConstantsArePinned`: every constant wire of an
  opcode that the certificate checks is mentioned by a group of the query. An
  untranslated opcode beyond an input may mention one that is not (section 7).
- `ExactIsNotRefuted` excepts circuits in which the certificate passes over an
  initialisation or a write (`PassesOverMemory`); `stale_block` is what happens
  there.
- `FactsHold` and `RefinedUnique` of `Unpinned` require `ShiftsStayBelow`: a
  bound handed down a shifted copy is false for a lower wire without a range.
  The comparisons that the compiler emits have one.
- `RefinedUnique` speaks of inputs and the wires of `Assumed`: the inverse of an
  IsZero gadget (free when the flag is one, which the code knows), the value of
  a block that is written or set up twice (`pinned`), and a wire that occurs in
  several products.
- `NeverPinnedIsFree` excepts hints that a black box mentions, at which the
  code does not look.
- `FuzzFindingsAreReal` speaks of the assignments of all wires that an execution
  stands for (`Completions`): an execution can end with a wire left open, where
  its coefficient happens to be zero (`Masked` of `MCCommands`). Whatever is put
  there, both are runs, and some pair of them diverges.
- `SeenIsReported` speaks of a fuzzer that has not panicked (section 7): one that
  has marked a hint and reports nothing. `Masked` gets there.
- `LabelIsJustified` says of `internal` that there are runs of the original on the
  inputs found, with the same outputs, and not that the original program gets through
  on them: where the code of a hint fails, it may not (`Reciprocal`, section 7).
- `PinnedInputsRun` speaks of the circuits in which each check pins one
  parameter; `Undo`, where two checks pull one parameter apart, has no such
  promise and shows that the repairs end.

Bounds and why they are enough:

- `P`: a field of three elements has a non-square, two roots of one, and an
  inverse different from its argument's negation; that is all the slicing and
  the verdict can tell apart, since an opcode enters them only through its set
  of solutions. Propagation compares sizes, so it runs over seven elements:
  `c * Qmax + Rmax` then lies below, at and above the modulus for coefficients
  and two-bit ranges of the families. The theorems hold for any set of values.
- `MaxRangeBits` = 0 makes the one RANGE of `Gadgets` a dropped one;
  `FieldBits` is the width of `P`.
- Circuits: each has the shape that one way of reaching a verdict needs, and
  its comment says which. A relaxed slice that fails and an exact one that
  succeeds, a chain of two cuts, a pin, a collision of an abstracted hash, an
  untranslated opcode beyond an input, an unsatisfiable part outside the cone.
- `MaxRadius`, `MaxWindow`: one radius settles the squares gadget only in a
  second sweep, which is what `SweepsToFixpoint` is about; `refine` allows
  windows of three constraints, so that only an empty one is skipped,
  `refine_grace` of two, so that larger ones are. The code tries two radii by default, and 64
  constraints, the theorems any number.
- `StartupMax`, `Budget`, `Grace`, `WindowBudget`, in ticks: in `refine` the windows of one witness may outlive budget and grace together,
  in `refine_grace` they may not. `MaxTime` ends the clock after the latest
  deadline that these values allow; it appears as the guard of `Tick`.
- `P` = 5 of `mutate`: the cast circuit needs a quotient that wraps. Its
  circuits are those of the tests in `mutate.rs` (a cast whose quotient wraps,
  a write under a hinted index) and one each for two nested choices of two and
  three hints, an offset into a block, definitions in the opposite order, black
  boxes, and a recursive proof.
- `MaxRounds`, `MaxWalks` = 2 (6 and 12 in the code): small enough that both
  are reached, `Reversed` needing more walks than it gets. `MaxPreferences` = 4
  is the default of the code; `TwoChoices` has six combinations, so that the
  choices are cut short. `Attempts` = 2, `MaxMentions` = 3, `LastSlot` = 3 cut
  the lists of candidates where the code has larger limits; the cap of 1024
  values on a list of hint values has no counterpart in a field this small.
- `pipeline`: `P` = 5 has room for two bits and a remainder, `FieldBits` = 3
  makes a RANGE as wide as the field; each circuit brings its own budget of
  bits, `MaxRangeBits` of `Acir` plays no part. Blocks have one
  to three cells, and no more than two writes; each form of a bit of AND and
  XOR, with neither, one or both operands constant, is there.
- `unpinned`: `P` = 11 with `SmallBits` = 2 (64 in the code): coefficients may
  be small, negative small, or neither. `DeriveRounds` = 2 (4 in the code): one chain
  needs both, and stops there. The families move each coefficient and range
  across the point where a sum reaches the modulus.
- `commands`: `Rounds` = 2, the seed's and a generated one, so that hints met
  before are passed over; `MaxRepairs` = 2, which `Chain` needs and `Undo`
  exceeds; `Window` = 2 and one or two arrays instead of digests of 32, 28 or 20 bytes;
  `Dictionary` = {1, 2};
  `HintsFirst` = 2 (8 in the code). `Attempts`, `MaxMentions` and `LastSlot` are those of
  the lists of candidates, as in `mutate`.
- `Budget` of `Scan`: polls of a child before its deadline; one poll that finds
  it running and one that kills it.

The abstraction of a window's size counts one constraint for each group and
one for each pin; in the code an opcode may be several constraints. The two
differ only in which windows are too large, which no property depends on but
through `MaxWindow`.

## 5. Fairness

- `SolveTarget`: weak fairness of `Next`. `solve_target` is straight-line code
  of one thread; the backend has a time limit of its own, which belongs to the
  solver. The property is that the escalation ends.
- `Refine`: weak fairness of the scan, of refine-circuit and of the clock.
  Both processes poll in a loop with a sleep, so the operating system runs them
  again. Nothing is assumed of the solver: a window may run for ever, and only
  the deadlines end it.
- `Propagation`: weak fairness of `Next`, one thread.
- `Scan`: weak fairness of the parent's own steps. Nothing is assumed of the
  child, nor that a system call fails. Polls are counted up to the deadline.

- `Mutate`: none. `AlwaysForward` says that every step takes the search
  further in a lexicographic order of its loops, each of them bounded, and the
  deadlock check that only a finished search stops. Together they say that it
  ends, without an assumption about scheduling.
- `Pipeline`, `Unpinned`, `Commands`: none, and no liveness. Their loops are bounded by
  the number of opcodes, of wires, of pairs left to try, or of rounds.

Deadlock is checked in all runs but those of `Propagation` and `Unpinned`, whose passes
stop; the other modules have an explicit `Done` or `Finished` step at their end, so a
state in which everyone waits is reported.

## 6. Proofs

All statements hold for every value of the constants that satisfies the
assumptions, in particular for every field, every set of circuits and every
time-out.

Assumptions, each named in the module that declares the constant:

- `ModelsWellFormed` (`Circuit`): the wires of an opcode are wires of the
  circuit, an opcode reads only its own wires, a RANGE has one wire, a hint
  constrains nothing. This is what ACIR and `opcode_wires` give.
- `ModelsSound` (`Circuit`): constants have their value, known wires are
  unique, abstracted opcodes are functions. It is no free assumption:
  `ResultIsAModel` proves it of the model the passes hand over, and
  `ModelsStaySound` of the one that refinement and proved calls have added to.
  (The proof of the first uses of it only that a functional opcode is a
  function; before the passes run, a model has no constants and knows only its inputs.)
- `TimesAreNaturals`, `WiresAreNaturals` (`Refine`).
- `BoundsAreNatural`, `HintsFirstIsNatural` (`Fuzz`, `Label`): the limit of repairs,
  the number of a program's arrays, and of the hints that are tried first.
- `ProgramsExecutable` (`Fuzz`): no calls and no recursive proofs; an expression accepts
  where it vanishes, a range below its bound; the code of a hint answers each of
  its wires (`Executable`), and these are new witnesses, neither parameters nor
  wires of an earlier opcode (`HintsAreFresh`), as the compiler makes them. Seeds are inputs.
- `OriginalsDefinite` (`Label`): the same of a circuit that is mutated, and that an
  expression with an open wire defines just one, with a coefficient that cannot
  vanish (`Definite`), as the comment of `pure_checks` has it (`mutants.rs:124`). Without
  it a mutant may lose a run: what a dropped check mentions is assigned
  by opcode order, not in fact.
- `PowersOfTwo` (`Label`): `2^n` is a natural number and grows, up to the width of the
  field. The provers know nothing of exponents.
- `BudgetIsNatural`, `ProgramsWellFormed`, `CallsMeanTheirCallee` (`Scan`): a
  circuit starts without proved callees, its returns are wires of it, and its
  targets are a vector of wires; a call refers to a circuit of the program, and
  if that circuit's returns are unique, the call is a function of its operands.
- `OpcodesAreListed` (`Propagation`): the opcodes are a vector.
- `FieldIsPrime` (`Propagation`): the values are `0..P-1`, and a product of two
  that are not zero is not zero modulo `P`. This is all that is needed of the prime.
- `OpcodesMeanWhatTheySay` (`Propagation`): a run makes an AssertZero zero modulo
  `P` and keeps a RANGE below its limit, a black box is a function of its
  inputs, and the wires of an expression are those of its terms. TLC
  evaluates it over the definitions of `Acir`.
- `BoundsArePositive` (`Repair`), `ParametersAreNatural` (`Candidates`),
  `CircuitsWellFormed` (`Mutate`, by `WellFormedCircuit` of `Candidates`): inputs and returns are wires, coefficients are field elements,
  every operand of an opcode is a wire, a block is one that was set up; the
  outputs of a hint are no inputs of the circuit (`mutate.rs:235` keeps the two
  apart).
- `CircuitsMeanWhatTheySay` (`Unpinned`): what an opcode accepts are values of its
  wires in the field; an AssertZero accepts only zeros of its expression, which has
  at most one linear term for a wire; RANGE, AND and XOR keep their wires within their
  bits, and a RANGE accepts whatever is; a hint constrains nothing. That `P` is a
  prime is not needed: these rules never divide modulo `P`.

`CircuitTheorems` has the two facts a verdict rests on. `QueryOverApproximates`:
on any slice, two runs that agree on the inputs and differ on the target solve
the query, since known wires are unique and an abstracted opcode is a function;
so `unsat` is a proof (`UnsatIsUnique`). `ExactSliceIsReal`: if the slice is the
whole cone and every opcode in it was translated exactly, or evaluated by a
passing certificate, a solution can be spliced with an honest run outside the
cone: no opcode straddles the border but at constant wires, which are pinned.
The splice is a run, so the target really has two values. Below them are the
lemmas that both halves of the dynamic path need: `CheckFulfilled`, opcode by
opcode, that a walk which carries the blocks (`Tracks`) accepts what `IsRun`
reads off the writes (`Fulfilled`), and the types of every list of candidates.

`SolveTargetProofs` carries these through the steps of `solve_target`. The
properties are not inductive: that `isExact` means the whole cone also when the
loop stops early needs the invariant `SliceInv` (what the current cut would
give contains what earlier rounds gave, and lies in the cone), and the lemma
that a cut nothing touches may be dropped (`NoBoundaryIsExact`). `QueriesInv`
says that the second query is always on an exact slice. From the conjunction
`IInv`: `TypeCorrect`, `VerifiedIsUnique`, `UnsafeIsReal`,
`QueriesOverApproximate`, `ExactSliceIsCone`; the action property `SlicesGrow`;
and `SolverImplementsVerdict`, that every step is a step of `Verdict` or
leaves it alone.

`RefineProofs` has four arguments. Soundness (`RefinementIsSound`): an `unsat`
answer stands only for a window without solution (`WindowInv`), although the
window was built from the determined set of an earlier moment and the process
that asked may be gone. Loss (`KillKeepsProved`): what is proved is printed, but
for one wire (`OutputInv`, `Behind`). Completeness (`SweepsReachFixpoint`):
while a sweep has proved nothing the determined set has not moved, so every
witness was looked at with the set the pass ends with (`FixpointInv`). Timing
(`GraceSuffices`, `GraceBoundsWindows`): if `Budget > 0` and
`StartupMax + MaxRadius * WindowBudget <= Grace`, then refine-circuit always
exits before the scan's brake, because it looks at its budget before each
witness and a witness takes at most a window per radius (`ClockInv`). With the
defaults of the code the grace is `budget / 2 + 2000` ms, and the condition is
a constraint on the options rather than a fact about them.

`SolveTargetProofs` also has `AnswersAreListed`: what the loop reports is one of
`SolveOutcomes`, which lets `Scan` take a whole `solve_target` as one step.

`ScanProofs` has one invariant, `IInv`, and four results. The argument goes from
callees to callers: a circuit joins `deterministic` only when every one of its
returns was reported `verified`, and a verified line is true
(`DeterministicInv`), so that by `CallsMeanTheirCallee` abstracting the call is
sound, so that the model of the caller satisfies `SoundModel` again
(`PreparedSound`, `KnownInv`: `ModelsStaySound`), so that what is answered on it
is justified (`OutcomeJustified`, from the theorems of `CircuitTheorems`), so
that its lines are (`ScanIsJustified`, `CalleesAreUsed`). A `scan-target` child
builds its model anew, without callees and without refinement; that this is
sound too is `ChildModelFacts`. `EveryTargetReported` needs that the summary
counts the lines by status (`CountInv`), a statement about cardinalities.

`PropagationProofs` has four results on the uniqueness analysis: `FactsAreSound`,
`ResultSound`, `ResultIsAModel` and `StopsClosed`. The first half of the module is
about one opcode and two runs `a` and `b` that agree on the wires `D` found so
far:

- An expression is zero modulo `P` in a run (`Balance`); the products and terms
  that `D` fixes come to the same in both (`FixedSame`), so the open ones are
  congruent (`OpenSame`). A linear term counts with the accumulated coefficient
  of its wire (`LinearByWire`).
- Single unknown (`SingleSound`): what is open is `c * x`, or `c * x * y` with
  `y` in `D`; `c` is not zero in the field, `y` not in any run, and a congruence
  can be divided by either (`Cancel`), which is where `P` has to be a prime.
- Euclid (`EuclideanSound`): what is open is `r + c * q` or `r - c * q` up to sign;
  the bounds keep `r` below `c` and `c * q + r` below `P`, so it is the same number in both runs, and
  quotient and remainder of a division are (`DivisionIsUnique`).
- Bounds (`TightenedSound`): when no side can reach `P`, a congruence is an
  equation over the integers (`SidesEqual`), and a term is at most the other
  side's maximum less its own side's constant (`RoomSound`).
- Conditional zero (`ConditionalZeroSound`): one opcode says that `x * f` is zero,
  `f` a form over determined wires. Where `f` is not zero, `x` is; where it is,
  the multiples of `f` that stand beside the other unknowns vanish, and `x` is
  left alone with a constant coefficient. Either way it has one value. The forms are
  collected at the beginning of a pass and used while `determined` grows; they
  hold in every run, whatever has been determined since (`ZerosHold`).

The second half carries these facts through the loops. `SoundInv` is the
conjunction `TypeOK`, every fact learned holds in every run (`LearnedFacts`), runs that agree on
the inputs agree on everything determined (`Determines`), and every
recorded product is zero (`ZerosHold`). None is inductive without the
others: a lemma divides by a non-zero fact, excludes a wrap-around by a bound,
and cuts by what was determined before. `Determines` is stated for all runs, not
only for the wire at hand, because one lemma's result is the next one's premise.

`StopsClosed` is another argument. A flag that was not raised in a sweep says
of the opcodes swept so far that no lemma adds anything to them (`SweepInv`),
with three difficulties: the bounds are settled in a loop of their own, before
the lemmas that read them; the conditional-zero pass uses forms collected
before it, which are those of the final state only because a pass that changes
nothing leaves `determined` as it was; and the pass is skipped over when no
form was collected.

`MutateProofs` has three results.

- `EveryAttemptIsCounted`. `FunnelAddsUp` looks at moments between two attempts;
  `FunnelInv` adds that during one exactly one attempt is not counted yet, and
  that an attempt which is over has one of three answers, which rests on every
  way in which a walk, a certificate or a cut-off of the choices can end
  (`RepairKeepsStatus`).
- `FindingsReal`. `RealInv` has three parts. What an attempt was asked to keep, the
  inputs and the moved witness, stays in `pinned` and in `assignment`
  (`CommitInv`), although repair restarts, corrects and guesses: it only ever
  corrects hints that are not pinned. While the certificate walks, the opcodes
  behind it hold, and the blocks it carries are those of a run, which `IsRun`
  reads off the writes instead (`CertifyInv`, by the lemmas on `Tracks` and
  `Fulfilled`, opcode by opcode); so an accepted assignment is a run
  (`AcceptInv`). And a finding is recorded only for a moved return, with a value
  that differs from the honest one (`SearchInv`, `ReportInv`).
- `SearchMovesForward`, an action property: each step takes `Position` further in
  a lexicographic order. Each component is shown to be a number (`PositionTypes`),
  and each kind of step to raise one and keep those before it
  (`WalksGoDeeper`, `NextRoundGoesDeeper`, `LoopsGoDeeper`, `RepairGoesDeeper`).
  Since the components are bounded, the search ends without any assumption on
  scheduling.

`CircuitTheorems` also has what these proofs need of finite sets of integers: extrema
exist, every rank is taken, an image is finite. From the greatest cardinality
of a subset with a property it derives that a family of subsets which grows has
the whole set (`FiniteGrowth`). This stands in for induction, and the sums of
the community modules are reasoned about with it: a sum does not depend on its
order (`SumTake`), splits, adds, and can be regrouped (`SumGroups`), also modulo
`n` (`SumModulo`). Adding up a sequence from its beginning is one such sum (`PrefixSums`), and
what every step of an iteration keeps, its last value has (`Iteration`). `AcirCheck` writes `Overlay` and
`Entry` for the `@@` and `:>` of module TLC, which the provers do not know.

`CommandsProofs` has five results on the fuzzer and the labeller.

- `SeenHintsAreReported`: a hint enters `seen` in the step that adds its finding, from
  the override search or from the mutation search, and neither adds a second
  one, whenever the deadline passes; the invariant is inductive as it stands, and the
  work is in the two ways a finding is made (`SeenStep`). Its premise is that the fuzzer
  did not panic, which lasts (`PanicStays`).
- `OverrunBounded`: `OverrunInv` adds what may still begin late, which in the repair
  loop is what is left of the repairs (`RunsLeave`), then one run per array for the
  links; an override begins in time or not at all. That the clock and the other
  command leave the fuzzer's part alone is `OnlyFuzzerFuzzes`.
- `FuzzFindingsReal`. `StepFacts` is one opcode of an execution: nothing assigned
  changes (`Later`), and whatever the open wires will be, the opcode accepts what
  is assigned (`Agreed`). `RunFacts` carries that over any number of opcodes, with
  the blocks those of a run (`Passed`), so that whatever completes an execution that did
  not fail is a run (`ExecuteFacts`). With an override the producer of the hint is
  passed over or its answers replaced, and the claim stays true because the
  hint's wires are new there (`OverrideFacts`). `FuzzInv` keeps through repairs and
  links that `honest` is the execution of the inputs of the moment (`Ran`), which is what an
  override is compared with (`OverrideIsReal`, `SearchIsReal`).
- `MutantsStillRun`: `MutantRuns` says more, that mutant and original execute to the
  same state. What comes before the mutated check runs alike; there everything the
  check mentions is assigned (`RunFills`), since each opcode before it assigned what it defines
  (`StepFills`, where `Definite` is needed: an expression over one open wire has one
  root, `OneRoot`); a check that holds, or a wider range, changes nothing
  (`CheckPasses`, `WiderPasses`); and what comes after starts from the same state
  at another index (`RunSame`).
- `LabelsAreJustified`: `LabelInv` says that the search compares with an
  execution of the mutant on inputs of the kind it will report (`Compared`), and that the
  report so far has its example (`Borne`). For `internal` the run to compare with has to be one of
  the original; where the original rejects the inputs it is one because it keeps the check, which
  `LabelInv` says of every base that was not reported as `over-accept` (`InternalBorne`). An answer may come from an execution, an
  override, or a call that failed and whose answers are all supplied
  (`AnsweredGood`): in that case the circuit that ran is the mutant without the call, and
  its runs are runs of the mutant (`WithoutRuns`, which moves every index, block and
  write behind the gap). Two executions of one mutant complete to two runs side by side (`SideBySide`); whether they violate
  the check, and where the returns moved, does not depend on the
  completion (`ViolatesSame`, `MovedFacts`).

`UnpinnedProofs` has two results on the `unpinned` command.

- `FreeHintsAreFree`: a hint is called unconstrained, or bounded and never pinned, only if
  nothing but ranges, and black boxes, mentions it: no assertion has it and no block
  holds or takes it. Given another value within its ranges, no opcode notices:
  no block changes (`LastValueSame`), so each opcode holds as before
  (`HoldsSame`), and the assignment is a run (`UnseenIsFree`). `FreeInv` says of every
  hint reported so that it is unseen in this sense.
- `FactsAreSound`: `Proper(c)` is the set of bound maps that hold in every run of
  `c`, if its shifted copies stay below `P`, and each rule is shown to stay in
  it. A RANGE, an AND or an XOR bounds its wires by itself (`NotedProper`). A shifted copy
  is an equation over the integers, up or down (`CopyEquation`, `CarriedProper`),
  which is where `ShiftsStayBelow` is needed. A wire that an expression makes the sum
  of its other terms is congruent to that sum modulo `P` (`TotalCongruent`), and the sum
  is at most what it is at the bounds (`TotalMonotone`); where that is below `P` the
  congruence is an equation over the integers, and the total a bound (`SumForm`, `DerivedProper`). In
  the same way each term of a sum that comes to a constant is at most the constant
  (`SumToConstant`, `NarrowedProper`), and a wire is at least the constant part of its
  sum, so non-zero where that is positive (`NonzeroHolds`). `FactsInv` holds this together
  with where the loops are (`PlaceInv`) and with every set of wires staying in the circuit
  (`ScopeInv`), for which the closure of known wires, taken over from `Propagation`, is
  followed through its rules (`KnownWires`).

`QueriesOverApproximate` and `SlicesGrow` are proved and no longer checked by a run:
they follow the steps of the loop closely, and the theorems say more.

Only model-checked:

- Liveness (`Terminates` of every module): fairness and ENABLED are out of the
  prover's reach.
- `RefinedUnique` of `Unpinned`, planned (16). It needs that digits in a
  superincreasing system are unique, which counts down a sequence of any length,
  and what a block holds at a read. The facts it divides by are proved.
- `ChoicesCovered` of `Repair`: that counting in a mixed radix visits every
  combination is an induction over the number of choices.
- `EncodingFaithful`, `CertifiedIsReal` and `ExactIsNotRefuted` of `Pipeline`: the
  module builds on bitwise operators, which are recursive; the certificate's
  part is planned (15).
- `CastForgeryFound` and `PinnedInputsRun` are statements about particular circuits.

## 7. Findings

Three sentences of the repository that the code does not keep, each with the
run that shows it. None of them makes `verified` wrong.

- `scan_child`: `report.rs:114` says a verdict with notes was computed under
  the abstraction. A scan-target child does not know the proved callees, drops
  the call instead, and reports `unsafe` where the abstraction has no
  counterexample, with the parent's notes.
- `stale_block`: `dynamic/certify.rs:55` says a refuted finding is an artefact of the
  translation, because an opcode rejects one of the assignments. An opcode is
  looked at if it touches the component (`certify.rs:136`), and a constant is in no
  component: an initialisation or a write of constants is passed over, a
  later read is held against the block without it, and two genuine runs are
  refuted. (A pass cannot go wrong this way; see `CertifiedIsReal`.)
- `pinned`: `dynamic/explain.rs:664` says that a read is determined when its index and
  every entry of the block are. The entries are those the block was set up
  with (`explain.rs:696`); a free value written in between is read as determined, and
  the hint is missing from the report.

Remarks that come from the same reading and have no run:

- `translate/uniqueness.rs:223` says turning a lemma off can only shrink the
  determined set. The single-unknown lemma gives up on a wire that occurs twice
  in an expression, the Euclidean lemma adds its coefficients up, so that
  turning the first off can make the second apply. And with all lemmas off a
  constant wire is still cut as a constant but not determined; as a target its
  component is empty and it is reported `unsafe`.
- `report.rs:114` says a possibly spurious `unsafe` has notes. Notes are looked
  up in the component that stops at inputs, the query goes beyond.
- `report.rs:111` says a certified finding holds even if the translation is
  wrong. Constants are pinned only for groups of the query, so that the
  certificate may evaluate an untranslated opcode with a value the constant
  never has: the premise `ConstantsArePinned` above, without which the
  circuits `BeyondInput` of `MCPipeline` refute `CertifiedIsReal`.
- `refine/window.rs:20` says every query runs in a child that is killed on a
  hard deadline. When the scan kills refine-circuit, nobody kills the window it
  was waiting for. `GraceBoundsWindows` says when this cannot happen.
- `cli.rs:361` says a target is killed if it overruns its time for solving. A
  child whose report does not fit the pipe blocks in its write, because the
  parent reads only after the exit, and its finding becomes `unknown`.
- `dynamic/repair.rs:29` counts as unjudged what an opcode without an implementation
  stops; a recursive proof that moved is rejected by `derive_black_box`
  (`repair.rs:588`) and counted as refuted.
- `dynamic/fuzz.rs:658` says that `override_search` returns certified findings;
  one that `certify` could not judge is pushed as well. And it may not return: a
  return that the honest run left open and the other run assigned counts as
  diverging (`fuzz.rs:808` compares two options), the hint is marked as seen (822), and
  `honest[index]` (834) panics, since there is no such entry. The report is only
  returned at the end, so the findings of all earlier rounds are lost with it.
  `Masked` of `MCCommands` gets there in a first round without seed: the inputs are
  zero, the hint 2 is zero, the return 3 has no value, and the answer 1 gives it one.
  In the model this is `Panic`.
- `dynamic/label.rs:18` says of `internal` that the inputs are ones the original
  accepts, and of `over-accept` that on its inputs the original program fails. What
  decides is whether the base run breaks the removed check (`label.rs:169`), not whether the
  program gets through. Where the code of a hint fails (`Reciprocal` at zero) the
  constraints may have a run all the same, the mutant without the check accepts
  another, and the label is `internal` on inputs that the original program rejects.
- A hint that only a black box pins is reported as unconstrained by `unpinned`
  (`explain.rs:1141`).

## 8. Not modelled, and why

- Witness commands: planned (17).
- Of the fuzzer: the random generator, in whose place any draw is possible; the
  layout of nested array types; the score by which one of two overlapping links
  is kept; the time slice of one round's overrides, which is a timeout at any
  moment here.
- Of labels and mutants: the classes of mutants, their sampling, and the files
  and manifest that `mutants` writes.
- Of the explanation: the text of a report and the description of each opcode.
- Of execution: the ACVM's and the Brillig machine's own work; the Brillig
  code of a hint is a table. An assertion inside the ACVM that fails is modelled
  where the code catches it, in the labeller. The fuzzer does not catch it and would end
  there as in `Panic`; the compiler puts a range check before such an operation,
  and the black boxes of its programs are total. Calls between circuits while executing.
- Of the mutation search: circuits with calls, in which every attempt is
  rejected at the call (`repair.rs:501`); an honest witness that leaves wires of the
  circuit open; the histogram of reasons; the printing of `commands/mutate.rs`.
- In-process refinement for backends other than cvc5, and the JSON in which a
  window is handed to its process.
- A write to the wire file that is cut short in the middle of a line: the
  model's write is a whole line or fails. The mutant of `KnownSound` shows what
  a reader of partial lines would do.
- A `try_wait` that fails (`refine/window.rs:91`, `commands/scan.rs:474`): the
  report is that of a failed child (`NothingLost`), the process left behind has no
  further effect. A target that is solved in the scan's own process because
  its child could not be launched (`SolveHere`) has no wall clock but the solver's own.
- Parsing of artifacts, debug information, names, formatting, statistics,
  SMT-LIB dumps, the command line, campaign scripts: no verdict depends on
  them, or they only pass data on.
- picus-smt and cvc5 are external. They are assumed to be right when they
  answer, to give a value to every declared variable, and nothing else.
