-------------------------------- MODULE Fuzz --------------------------------
(***************************************************************************)
(* fuzz of src/src/dynamic/fuzz.rs: rounds of generated inputs, each run   *)
(* with repairs, searched for a second answer to one hint, and handed to   *)
(* the mutation search.                                                    *)
(*                                                                         *)
(* A program is a circuit with `arrays`, the runs of parameters that hold  *)
(* its array parameters, and `seed`, inputs it accepts.                    *)
(***************************************************************************)
EXTENDS Override

CONSTANTS
  Programs,
  Dictionary,   \* values the generator draws
  Rounds,       \* options.rounds
  MaxRepairs,   \* options.max_input_repairs
  Window        \* length of a digest: 32, 28 or 20 in the code

(* learn_links executes the program once for each array. *)
LearningRuns(c) == Len(c.arrays)

ASSUME BoundsAreNatural ==
  MaxRepairs \in Nat /\ \A c \in Programs : LearningRuns(c) \in Nat

ASSUME ProgramsExecutable ==
  /\ Dictionary \subseteq Field
  /\ \A c \in Programs :
       /\ WellFormedCircuit(c) /\ Executable(c) /\ HintsAreFresh(c)
       /\ c.seed \in [c.inputs -> Field]
       /\ \A array \in ToSet(c.arrays) : array \in Seq(c.inputs)

VARIABLES
  options,     \* FuzzOptions: [seeded, stopAtFirst]
  round,
  runsLeft,    \* executions that execute_with_repairs may still begin
  links,       \* InputLinks learned from the seed
  seen,        \* hints that need no further look
  findings,
  failures,    \* rounds without an honest run
  overrun      \* history: executions begun after the deadline

fuzzOwn == <<options, round, runsLeft, links, seen, findings, failures, overrun>>
fuzzVars == <<overrideVars, fuzzOwn>>

NoLinks == {}

FuzzInit ==
  /\ phase = "round" /\ late = FALSE
  /\ program \in Programs
  /\ options \in [seeded : BOOLEAN, stopAtFirst : BOOLEAN]
  /\ inputs = program.seed /\ honest = << >> /\ todo = << >>
  /\ round = 0 /\ runsLeft = 0
  /\ links = NoLinks
  /\ seen = {} /\ findings = {} /\ failures = 0 /\ overrun = 0

(* An execution that begins now. *)
Begun(n) == overrun' = IF late THEN overrun + n ELSE overrun

-----------------------------------------------------------------------------
(* Inputs *)

(* The tightest type of a parameter. *)
Fits(c, w, v) == Widths(c, w) # {} => v < 2^Min(Widths(c, w))

(* Values of the dictionary within their types, the seed with up to two of them,
   and either with a window of an array copied to another place of it.         *)
Drawn(c) == {a \in [c.inputs -> Dictionary \cup {0}] : \A w \in c.inputs : Fits(c, w, a[w])}

Planted(c, a) ==
  LET places == {p \in ToSet(c.arrays) \X (2..4) \X (1..4) \X (1..4) :
                   p[3] + p[2] - 1 <= Len(p[1]) /\ p[4] + p[2] - 1 <= Len(p[1])}
      copied(r, len, from, to) ==
        [w \in c.inputs |-> IF \E k \in 0..len-1 : w = r[to + k]
                            THEN a[r[from + (CHOOSE k \in 0..len-1 : w = r[to + k])]] ELSE a[w]]
  IN  {copied(p[1], p[2], p[3], p[4]) : p \in places}

Generated(c) ==
  IF round = 0 THEN {IF options.seeded THEN c.seed ELSE [w \in c.inputs |-> 0]}
  ELSE LET near == IF ~options.seeded THEN {} ELSE
                     {[w \in c.inputs |-> IF w \in {x, y} THEN a[w] ELSE c.seed[w]] :
                        x, y \in c.inputs, a \in Drawn(c)}
           base == Drawn(c) \cup near
       IN  base \cup UNION {Planted(c, a) : a \in base}

(* Mutant: the repairs are counted, not the executions. *)
RunsOfRepairs == MaxRepairs

(* One execution more than there may be repairs. *)
RunsAllowed == MaxRepairs + 1

StartRound ==
  /\ phase = "round" /\ round < Rounds /\ ~late
  /\ inputs' \in Generated(program)
  /\ runsLeft' = RunsAllowed
  /\ phase' = "run"
  /\ UNCHANGED <<program, honest, todo, late, options, round, links, seen, findings, failures, overrun>>

(* Rounds are up, or time, or a finding was enough. *)
Stop ==
  /\ phase = "round" /\ (round = Rounds \/ late)
  /\ phase' = "done"
  /\ UNCHANGED <<program, inputs, honest, todo, late, fuzzOwn>>

-----------------------------------------------------------------------------
(* execute_with_repairs *)

RunSolves ==
  /\ phase = "run" /\ runsLeft > 0
  /\ LET s == Execute(program, inputs)
     IN  ~s.failed /\ honest' = s.values
  /\ phase' = IF round = 0 /\ options.seeded THEN "learn" ELSE "ready"
  /\ Begun(1)
  /\ UNCHANGED <<program, inputs, todo, late, options, round, runsLeft, links, seen, findings, failures>>

RepairInputs ==
  /\ phase = "run" /\ runsLeft > 0
  /\ LET s == Execute(program, inputs)
     IN  s.failed /\ inputs' = Repaired(program, links, inputs, s)
  /\ inputs' # inputs
  /\ runsLeft' = runsLeft - 1
  /\ Begun(1)
  /\ UNCHANGED <<phase, program, honest, todo, late, options, round, links, seen, findings, failures>>

(* The failure is counted, the round is over. *)
GiveUp ==
  /\ phase = "run"
  /\ \/ runsLeft = 0 /\ Begun(0)
     \/ /\ runsLeft > 0 /\ Begun(1)
        /\ LET s == Execute(program, inputs)
           IN  s.failed /\ Repaired(program, links, inputs, s) = inputs
  /\ failures' = failures + 1
  /\ round' = round + 1 /\ phase' = "round"
  /\ UNCHANGED <<program, inputs, honest, todo, late, options, runsLeft, links, seen, findings>>

-----------------------------------------------------------------------------
(* learn_links *)

Copies(c) == {c.opcodes[i].value : i \in {j \in DOMAIN c.opcodes : IsAccess(c.opcodes[j])}}

(* Computed wires that do not depend on the array: they come out the same when
   it is zero.                                                                *)
Independent(c, array) ==
  LET zeroed == [w \in c.inputs |-> IF w \in ToSet(array) THEN 0 ELSE inputs[w]]
      perturbed == Execute(c, zeroed).values
  IN  {w \in (DOMAIN honest \cap DOMAIN perturbed) \ (c.inputs \cup Copies(c)) : honest[w] = perturbed[w]}

(* Windows of an array that equal different independent wires. *)
LinksAt(c, array, i) ==
  {[params |-> SubSeq(array, i, i + Window - 1), sources |-> s, bits |-> Widths(c, array[i])] :
     s \in {t \in [1..Window -> Independent(c, array)] :
              /\ Cardinality({t[k] : k \in 1..Window}) = Window
              /\ \A k \in 1..Window : honest[t[k]] = honest[array[i + k - 1]]}}

LinkCandidates(c) ==
  UNION {UNION {LinksAt(c, array, i) : i \in 1..Len(array)-Window+1} : array \in ToSet(c.arrays)}

Overlap(l, m) == ToSet(l.params) \cap ToSet(m.params) # {}

(* As many as fit beside each other; which of them the score decides is left open. *)
Learned(c) ==
  {L \in SUBSET LinkCandidates(c) :
     /\ \A l, m \in L : l # m => ~Overlap(l, m)
     /\ \A l \in LinkCandidates(c) : \E m \in L : Overlap(l, m)}

LearnLinks ==
  /\ phase = "learn"
  /\ links' \in Learned(program)
  /\ phase' = "ready"
  /\ Begun(LearningRuns(program))
  /\ UNCHANGED <<program, inputs, honest, todo, late, options, round, runsLeft, seen, findings, failures>>

-----------------------------------------------------------------------------
(* The direct attack: override_search *)

PositionLike(h) == HoldsPosition(program, h, honest[h])

(* Neighbours, small positions, every slot for a hint that holds one, wraps. *)
OverrideValues(h) ==
  LET v == honest[h]
      wraps == Ascending(WrapSteps(program, h))
  IN  Distinct(Other(CandidateValues(v)
                       \o [k \in 1..LastSlot-1 |-> (k + 1) % P]
                       \o (IF PositionLike(h) THEN Ascending(IndexCandidates(program, h)) ELSE << >>)
                       \o [k \in DOMAIN wraps |-> (v + wraps[k]) % P], v))

OverrideHints ==
  LET hints == HintWitnesses(program)
  IN  FirstThose(Dedup(Keep(hints, {k \in DOMAIN hints : hints[k] \notin program.inputs})), PositionLike)

StartOverrides ==
  /\ phase = "ready"
  /\ todo' = Pairs(OverrideHints, OverrideValues)
  /\ phase' = "override"
  /\ UNCHANGED <<program, inputs, honest, late, options, round, runsLeft, links, seen, findings, failures, overrun>>

Finding(h, a) == [hint |-> h, honest |-> honest, alternative |-> a]

(* Mutant: the hint is marked before anything was found. *)
SeenOnTrial(h, s) == seen \cup {h}

(* What the public outputs tell; a return that only one run assigned differs. *)
Diverges(s) == ~s.failed /\ Differ(program.returns, honest, s.values) # {}
SeenAfter(h, s) == IF Diverges(s) THEN seen \cup {h} ELSE seen

(* A finding lists what the honest run answered for each return that differs. *)
Recordable(s) == Differ(program.returns, honest, s.values) \subseteq DOMAIN honest

(* Mutant: the deadline is not looked at. *)
AnyTime == TRUE

InTime == ~late

(* One value for one hint, unless the hint was reported before. *)
TryOverride ==
  /\ phase = "override" /\ todo # << >>
  /\ todo' = Tail(todo)
  /\ LET h == Head(todo)[1]
     IN  IF h \in seen THEN UNCHANGED <<seen, findings, overrun>>
         ELSE /\ InTime
              /\ LET s == ExecuteWithOverride(program, inputs, h, Head(todo)[2])
                 IN  /\ Diverges(s) => Recordable(s)
                     /\ seen' = SeenAfter(h, s)
                     /\ findings' = IF Diverges(s) THEN findings \cup {Finding(h, s.values)} ELSE findings
              /\ Begun(1)
  /\ UNCHANGED <<phase, program, inputs, honest, late, options, round, runsLeft, links, failures>>

(* The honest run left a return open that the other run assigned: `honest[index]`
   panics after the hint was marked, and the report is lost, which is returned
   only at the end.                                                            *)
Panic ==
  /\ phase = "override" /\ todo # << >> /\ InTime
  /\ LET h == Head(todo)[1]
         s == ExecuteWithOverride(program, inputs, h, Head(todo)[2])
     IN  /\ h \notin seen /\ Diverges(s) /\ ~Recordable(s)
         /\ seen' = seen \cup {h}
  /\ findings' = {}
  /\ phase' = "panicked"
  /\ Begun(1)
  /\ UNCHANGED <<program, inputs, honest, todo, late, options, round, runsLeft, links, failures>>

(* Time is up, or the round's slice of it: what was found is returned. *)
OverridesTimeOut ==
  /\ phase = "override" /\ todo # << >>
  /\ todo' = << >>
  /\ UNCHANGED <<phase, program, inputs, honest, late, fuzzOwn>>

EndOverrides ==
  /\ phase = "override" /\ todo = << >>
  /\ phase' = IF options.stopAtFirst /\ findings # {} THEN "done" ELSE "mutate"
  /\ UNCHANGED <<program, inputs, honest, todo, late, fuzzOwn>>

-----------------------------------------------------------------------------
(* The mutation search, with hints_only and skip_input_oracle: what module
   Mutate finds, at most one second run for a witness.  What the honest run left
   open is neither moved nor compared.                                         *)

RunsOf == [c \in Programs |-> Runs(c)]

Forgeries ==
  {a \in RunsOf[program] : Agree(program.inputs, a, honest) /\ Differ(program.returns \cap DOMAIN honest, honest, a) # {}}

Forgeable == {w \in (program.hints \cup program.returns) \cap DOMAIN honest : \E a \in Forgeries : Differ({w}, honest, a) # {}}

(* A witness that was reported before is passed over. *)
MutationSearch ==
  /\ phase = "mutate"
  /\ \E W \in SUBSET Forgeable :
       LET second(w) == CHOOSE a \in Forgeries : Differ({w}, honest, a) # {}
       IN  /\ seen' = seen \cup W
           /\ findings' = findings \cup {Finding(w, second(w)) : w \in W \ seen}
  /\ phase' = IF options.stopAtFirst /\ findings' # {} THEN "done" ELSE "round"
  /\ round' = round + 1
  /\ UNCHANGED <<program, inputs, honest, todo, late, options, runsLeft, links, failures, overrun>>

FuzzNext ==
  \/ StartRound \/ Stop
  \/ RunSolves \/ RepairInputs \/ GiveUp \/ LearnLinks
  \/ StartOverrides \/ TryOverride \/ Panic \/ OverridesTimeOut \/ EndOverrides
  \/ MutationSearch
=============================================================================
