------------------------------- MODULE Refine -------------------------------
(***************************************************************************)
(* The refinement pass and its three processes:                            *)
(* - the scan, which spawns `refine-circuit`, waits for it until a hard    *)
(*   deadline, and reads the wires it printed (refine_out_of_process and   *)
(*   read_wire_list of src/src/commands/scan.rs);                          *)
(* - `refine-circuit`, which sweeps over the open witnesses and asks a     *)
(*   small local query for each (refine of src/src/refine.rs);             *)
(* - `solve-window`, one process per query, killed by refine-circuit on a  *)
(*   deadline of its own (is_unique_isolated of src/src/refine/window.rs). *)
(*                                                                         *)
(* Time passes in ticks, and only while refine-circuit starts up or a      *)
(* solver runs; the other steps are short against the timeouts. The solver *)
(* may answer late, never, or crash.                                       *)
(***************************************************************************)
EXTENDS Circuit, FiniteSets

CONSTANTS
  MaxRadius,      \* refine_radius
  MaxWindow,      \* MAX_WINDOW_CONSTRAINTS
  StartupMax,     \* ticks refine-circuit needs to load and translate, at most
  Budget,         \* refine_budget
  Grace,          \* refine_budget / 2 + 2000
  WindowBudget,   \* 2 * refine_timeout + 1000
  MaxTime         \* bound on the clock

ASSUME TimesAreNaturals ==
  /\ MaxRadius \in Nat
  /\ MaxWindow \in Nat
  /\ StartupMax \in Nat
  /\ Budget \in Nat
  /\ Grace \in Nat
  /\ WindowBudget \in Nat
  /\ MaxTime \in Nat

(* Witness indices are numbers: refinement visits them in their order. *)
ASSUME WiresAreNaturals == \A md \in Models : md.wires \subseteq Nat

VARIABLES
  m,              \* the model the scan built
  now,            \* the clock, 0 when the scan spawns refine-circuit
  scanPc,         \* "spawn", "waiting", "reading", "done"
  determined,     \* the determined set of the scan's own model
  pc,             \* refine-circuit: see TypeOK
  known,          \* the determined set of refine-circuit's model
  todo,           \* witnesses left in this sweep, in ACIR order
  radius,         \* the radius being tried
  progressed,     \* this sweep proved something
  deadline,       \* when refine-circuit stops by itself
  output,         \* the wires it flushed to the output file
  ioFailed,       \* a write to the output file or its reading failed
  missed,         \* history: the pass stopped early, or lost a provable wire
  windowPc,       \* "none", "running", "unsat", "other" (answered or crashed)
  windowDeadline  \* when refine-circuit kills the running window

scanVars == <<scanPc, determined>>
sweepVars == <<pc, known, todo, radius, progressed, deadline>>
windowVars == <<windowPc, windowDeadline>>
ioVars == <<output, ioFailed, missed>>
vars == <<m, now, scanVars, sweepVars, ioVars, windowVars>>

(* refine-circuit translates the circuit itself, with no callee proved. *)
ChildModel == [m EXCEPT !.proved = {}]

UndeterminedWitnesses(S) == m.wires \ S

First(S) == CHOOSE w \in S : \A v \in S : w <= v

witness == First(todo)

Window == LocalWindow(ChildModel, known, witness, radius)

(* Constraints of the window: one for each group, one for each pin. *)
WindowSize == Cardinality(Selected(ChildModel, Window)) + Cardinality(Pinned(ChildModel, Window))

WindowPairs == QueryPairs(ChildModel, Window, known, witness)

Init ==
  /\ m \in Models
  /\ now = 0
  /\ scanPc = "spawn"
  /\ determined = m.known
  /\ pc = "none"
  /\ known = m.known
  /\ todo = {}
  /\ radius = 1
  /\ progressed = FALSE
  /\ deadline = 0
  /\ output = {}
  /\ ioFailed = FALSE
  /\ missed = FALSE
  /\ windowPc = "none"
  /\ windowDeadline = 0

-----------------------------------------------------------------------------
(* The scan *)

ScanSpawn ==
  /\ scanPc = "spawn"
  /\ scanPc' = "waiting"
  /\ pc' = "starting"
  /\ UNCHANGED <<m, now, determined, known, todo, radius, progressed, deadline, ioVars, windowVars>>

(* Mutant: the last line was cut short, and parsed all the same. *)
ScanReadPartialLine ==
  /\ scanPc = "reading"
  /\ scanPc' = "done"
  /\ determined' = determined \cup {w \div 10 : w \in output}
  /\ UNCHANGED <<m, now, sweepVars, ioVars, windowVars>>

(* No temporary file, no executable, no process: an empty list of wires. *)
ScanSpawnFails ==
  /\ scanPc = "spawn"
  /\ scanPc' = "done"
  /\ UNCHANGED <<m, now, determined, sweepVars, ioVars, windowVars>>

ScanReap ==
  /\ scanPc = "waiting"
  /\ pc = "exited"
  /\ scanPc' = "reading"
  /\ UNCHANGED <<m, now, determined, sweepVars, ioVars, windowVars>>

ScanDeadline == Budget + Grace

(* kill() reaches refine-circuit, not the window it may be waiting for. *)
ScanKill ==
  /\ scanPc = "waiting"
  /\ pc # "exited"
  /\ now >= ScanDeadline
  /\ scanPc' = "reading"
  /\ pc' = "killed"
  /\ missed' = TRUE
  /\ UNCHANGED <<m, now, determined, known, todo, radius, progressed, deadline, output, ioFailed,
                 windowVars>>

ScanRead ==
  /\ scanPc = "reading"
  /\ scanPc' = "done"
  /\ \/ determined' = determined \cup output /\ UNCHANGED ioFailed
     \/ ioFailed' = TRUE /\ UNCHANGED determined
  /\ UNCHANGED <<m, now, sweepVars, output, missed, windowVars>>

ScanStep == ScanSpawn \/ ScanSpawnFails \/ ScanReap \/ ScanKill \/ ScanRead

-----------------------------------------------------------------------------
(* refine-circuit *)

(* Mutant: progress is remembered from one sweep to the next. *)
StartSweepKeepingProgress ==
  /\ pc' = "sweep"
  /\ todo' = UndeterminedWitnesses(known)
  /\ UNCHANGED progressed

StartSweep ==
  /\ pc' = "sweep"
  /\ todo' = UndeterminedWitnesses(known)
  /\ progressed' = FALSE

Load ==
  /\ pc = "starting"
  /\ StartSweep
  /\ deadline' = now + Budget
  /\ UNCHANGED <<m, now, scanVars, known, radius, ioVars, windowVars>>

(* The artifact cannot be read again, or the process dies. *)
LoadFails ==
  /\ pc = "starting"
  /\ pc' = "exited"
  /\ missed' = TRUE
  /\ UNCHANGED <<m, now, scanVars, known, todo, radius, progressed, deadline, output, ioFailed,
                 windowVars>>

(* Mutant: the budget is left to the scan. *)
NextWitnessNoBudget ==
  /\ pc = "sweep"
  /\ todo # {}
  /\ pc' = "radius"
  /\ radius' = 1
  /\ UNCHANGED <<m, now, scanVars, known, todo, progressed, deadline, ioVars, windowVars>>

(* The budget is looked at between two witnesses, never between two radii. *)
NextWitness ==
  /\ pc = "sweep"
  /\ todo # {}
  /\ IF now >= deadline
     THEN pc' = "exited" /\ missed' = TRUE
     ELSE pc' = "radius" /\ UNCHANGED missed
  /\ radius' = 1
  /\ UNCHANGED <<m, now, scanVars, known, todo, progressed, deadline, output, ioFailed, windowVars>>

(* Mutant: one sweep only. *)
EndSweepOnce ==
  /\ pc = "sweep"
  /\ todo = {}
  /\ pc' = "exited"
  /\ UNCHANGED <<m, now, scanVars, known, todo, progressed, radius, deadline, ioVars, windowVars>>

EndSweep ==
  /\ pc = "sweep"
  /\ todo = {}
  /\ IF progressed THEN StartSweep ELSE pc' = "exited" /\ UNCHANGED <<todo, progressed>>
  /\ UNCHANGED <<m, now, scanVars, known, radius, deadline, ioVars, windowVars>>

(* This radius is over; after the last one the witness stays open. *)
GiveUpRadius ==
  /\ radius' = radius + 1
  /\ IF radius >= MaxRadius
     THEN pc' = "sweep" /\ todo' = todo \ {witness}
     ELSE pc' = "radius" /\ UNCHANGED todo

(* A query that would have been UNSAT was not answered so. *)
Miss == missed' = (missed \/ WindowPairs = {})

SkipWindow ==
  /\ pc = "radius"
  /\ WindowSize = 0 \/ WindowSize > MaxWindow \/ MaxRadius = 0
  /\ GiveUpRadius
  /\ UNCHANGED <<m, now, scanVars, known, progressed, deadline, ioVars, windowVars>>

SpawnWindow ==
  /\ pc = "radius"
  /\ MaxRadius > 0
  /\ WindowSize \in 1..MaxWindow
  /\ pc' = "window"
  /\ windowPc' = "running"
  /\ windowDeadline' = now + WindowBudget
  /\ UNCHANGED <<m, now, scanVars, known, todo, radius, progressed, deadline, ioVars>>

SpawnWindowFails ==
  /\ pc = "radius"
  /\ MaxRadius > 0
  /\ WindowSize \in 1..MaxWindow
  /\ GiveUpRadius
  /\ Miss
  /\ UNCHANGED <<m, now, scanVars, known, progressed, deadline, output, ioFailed, windowVars>>

(* Mutant: anything but a clean `sat` counts as a proof. *)
TakeUnsatUnlessSat ==
  /\ pc = "window"
  /\ windowPc \in {"unsat", "other"}
  /\ known' = known \cup {witness}
  /\ pc' = "print"
  /\ windowPc' = "none"
  /\ UNCHANGED <<m, now, scanVars, todo, radius, progressed, deadline, ioVars, windowDeadline>>

(* A clean `unsat` marks the wire in refine-circuit's own model... *)
TakeUnsat ==
  /\ pc = "window"
  /\ windowPc = "unsat"
  /\ known' = known \cup {witness}
  /\ pc' = "print"
  /\ windowPc' = "none"
  /\ UNCHANGED <<m, now, scanVars, todo, radius, progressed, deadline, ioVars, windowDeadline>>

(* Mutant: the line stays in the buffer of a process that may be killed. *)
PrintWireUnflushed ==
  /\ pc = "print"
  /\ progressed' = TRUE
  /\ pc' = "sweep"
  /\ todo' = todo \ {witness}
  /\ UNCHANGED <<m, now, scanVars, known, radius, deadline, ioVars, windowVars>>

(* ... and is then written out and flushed; errors of the write are ignored. *)
PrintWire ==
  /\ pc = "print"
  /\ \/ output' = output \cup {witness} /\ UNCHANGED ioFailed
     \/ ioFailed' = TRUE /\ UNCHANGED output
  /\ progressed' = TRUE
  /\ pc' = "sweep"
  /\ todo' = todo \ {witness}
  /\ UNCHANGED <<m, now, scanVars, known, radius, deadline, missed, windowVars>>

TakeOther ==
  /\ pc = "window"
  /\ windowPc = "other"
  /\ windowPc' = "none"
  /\ GiveUpRadius
  /\ Miss
  /\ UNCHANGED <<m, now, scanVars, known, progressed, deadline, output, ioFailed, windowDeadline>>

KillWindow ==
  /\ pc = "window"
  /\ windowPc = "running"
  /\ now >= windowDeadline
  /\ windowPc' = "none"
  /\ GiveUpRadius
  /\ Miss
  /\ UNCHANGED <<m, now, scanVars, known, progressed, deadline, output, ioFailed, windowDeadline>>

SweepStep ==
  \/ Load \/ LoadFails \/ NextWitness \/ EndSweep \/ SkipWindow \/ SpawnWindow
  \/ SpawnWindowFails \/ TakeUnsat \/ PrintWire \/ TakeOther \/ KillWindow

-----------------------------------------------------------------------------
(* solve-window, and the clock *)

(* Killed mid-query, refine-circuit no longer reads what the window answers. *)
WindowUnsat ==
  /\ windowPc = "running"
  /\ WindowPairs = {}
  /\ windowPc' = "unsat"
  /\ UNCHANGED <<m, now, scanVars, sweepVars, ioVars, windowDeadline>>

WindowOther ==
  /\ windowPc = "running"
  /\ windowPc' = "other"
  /\ UNCHANGED <<m, now, scanVars, sweepVars, ioVars, windowDeadline>>

(* Deadlines are polled every few milliseconds: the clock does not pass one
   that a live process is waiting for.                                       *)
Tick ==
  /\ now < MaxTime
  /\ \/ pc = "starting" /\ now < StartupMax
     \/ windowPc = "running" /\ (pc = "window" => now < windowDeadline)
  /\ scanPc = "waiting" => now < ScanDeadline
  /\ now' = now + 1
  /\ UNCHANGED <<m, scanVars, sweepVars, ioVars, windowVars>>

Done == scanPc = "done" /\ UNCHANGED vars

Next == ScanStep \/ SweepStep \/ WindowUnsat \/ WindowOther \/ Tick \/ Done

Spec == Init /\ [][Next]_vars

(* The scan and refine-circuit are scheduled, time passes; nothing is assumed
   of the solver, which may run for ever.                                      *)
FairSpec == Spec /\ WF_vars(ScanStep) /\ WF_vars(SweepStep) /\ WF_vars(Tick)

-----------------------------------------------------------------------------
(* Properties *)

(* The type invariant. *)
TypeOK ==
  /\ m \in Models
  /\ now \in 0..MaxTime
  /\ scanPc \in {"spawn", "waiting", "reading", "done"}
  /\ determined \subseteq m.wires
  /\ pc \in {"none", "starting", "sweep", "radius", "window", "print", "exited", "killed"}
  /\ known \subseteq m.wires
  /\ todo \subseteq m.wires
  /\ radius \in Nat
  /\ progressed \in BOOLEAN
  /\ deadline \in Nat
  /\ output \subseteq m.wires
  /\ ioFailed \in BOOLEAN
  /\ missed \in BOOLEAN
  /\ windowPc \in {"none", "running", "unsat", "other"}
  /\ windowDeadline \in Nat

(* Whatever crashes, is killed or answers late, a wire that refinement adds to
   a determined set is determined: each proof leans on the ones before it, so
   one wrong wire would spoil every later verdict (refine.rs 9-20, window.rs
   41-43).                                                                    *)
KnownSound == \A w \in known \cup determined : Unique(m, w)

(* "a parent that kills this process on a deadline still keeps every wire
   proved before the cut" (scan.rs 282-283): all but the one whose line was
   being written.                                                            *)
KeepsProved ==
  scanPc = "done" /\ ~ioFailed => Cardinality(known \ determined) <= 1

Provable(S, w, r) ==
  LET W == LocalWindow(ChildModel, S, w, r)
  IN  /\ Cardinality(Selected(ChildModel, W)) + Cardinality(Pinned(ChildModel, W)) \in 1..MaxWindow
      /\ QueryPairs(ChildModel, W, S, w) = {}

(* "A sweep that proved something is repeated ... a sweep that proved nothing
   ends the pass" (refine.rs 60-61): unless a deadline or a failure cut it
   short, what the pass leaves open no window can prove any more, although
   each window was looked at with an older determined set.                   *)
SweepsToFixpoint ==
  pc = "exited" /\ ~missed =>
    \A w \in UndeterminedWitnesses(known) : \A r \in 1..MaxRadius : ~Provable(known, w, r)

(* The pass ends although the solver may never answer (scan.rs 337-338). *)
Terminates == <>(scanPc = "done")

(* "every query runs in a child process that is killed on a hard deadline"
   (window.rs 20-22): no window runs past its deadline.                      *)
WindowDeadline == windowPc = "running" => now <= windowDeadline

(* The scan's brake is a last resort: when the grace covers the start-up and
   the windows of one witness, refine-circuit always stops by itself.         *)
NeverKilled == pc # "killed"
=============================================================================
