------------------------------ MODULE Override ------------------------------
(***************************************************************************)
(* The search that the fuzzer and the labeller of mutants have in common:  *)
(* given inputs and a run on them, answer one hint differently, run the    *)
(* rest honestly, and look at the public outputs.                          *)
(***************************************************************************)
EXTENDS Concrete

VARIABLES
  phase,     \* where the command is
  program,   \* the circuit it runs
  inputs,    \* the inputs of the run under way
  honest,    \* the run on them, << >> before there is one
  todo,      \* pairs <<hint, value>> still to be tried
  late       \* the clock has passed the deadline

overrideVars == <<phase, program, inputs, honest, todo, late>>

Ended == phase \in {"done", "panicked"}

(* Time passes while an opcode runs. *)
DeadlinePasses ==
  /\ ~late /\ ~Ended
  /\ late' = TRUE
  /\ UNCHANGED <<phase, program, inputs, honest, todo>>

AnswersOf(o) == IF o.type = "BrilligCall" THEN o.answers ELSE << >>
HintWitnesses(c) == FlattenSeq([i \in DOMAIN c.opcodes |-> AnswersOf(c.opcodes[i])])

(* What Test says comes first, each part in its order. *)
FirstThose(s, Test(_)) == Keep(s, {k \in DOMAIN s : Test(s[k])}) \o Keep(s, {k \in DOMAIN s : ~Test(s[k])})

(* Every value for every hint. *)
Pairs(hints, Values(_)) ==
  FlattenSeq([k \in DOMAIN hints |-> LET vs == Values(hints[k]) IN [j \in DOMAIN vs |-> <<hints[k], vs[j]>>]])

Agree(W, a, b) == \A w \in W : a[w] = b[w]

(* An executed program may leave wires unassigned (Option of a map). *)
Get(f, w) == IF w \in DOMAIN f THEN {f[w]} ELSE {}
Differ(W, a, b) == {w \in W : Get(a, w) # Get(b, w)}

(* The assignments of all wires that an execution stands for. *)
Completions(c, f) == {Overlay(f, a) : a \in [c.wires \ DOMAIN f -> Field]}
=============================================================================
