------------------------------ MODULE Circuit ------------------------------
(***************************************************************************)
(* The self-composition model that src/src/translate.rs builds for one     *)
(* ACIR circuit, together with the meaning of the circuit itself.          *)
(*                                                                         *)
(* A model is a record                                                     *)
(*   [wires, inputs, opcodes, consts, known, proved]                       *)
(* - wires:   the ACIR witnesses (the constant-one wire 0 and the wires    *)
(*            invented for bit decompositions are inside Holds);           *)
(* - inputs:  input_indices, the wires both copies share;                  *)
(* - opcodes: the circuit's opcodes, in order;                             *)
(* - consts:  constant_signals, a partial function from wires to values;   *)
(* - known:   fixed_known_signals, after propagation and refinement;       *)
(* - proved:  deterministic_calls, the callees whose returns are unique.   *)
(*                                                                         *)
(* An opcode is a record with at least                                     *)
(*   [kind, wires, ins, outs, callee, evaluable, rejected]                 *)
(* where wires is opcode_wires(opcode), and kind is what the translator    *)
(* does with it: "exact" (AssertZero, narrow RANGE, AND/XOR), "functional" *)
(* (a black box on the allow-list), "dropped" (a RANGE wider than          *)
(* max_range_bits), "call", "unsupported" or "hint" (BrilligCall).         *)
(* evaluable says whether certify.rs can evaluate the opcode, rejected are *)
(* the values of its wires at which that evaluation fails.                 *)
(***************************************************************************)
EXTENDS Naturals, Sequences

CONSTANTS
  Values,        \* the field
  Models,        \* the circuits under study, each with its propagation result
  Holds(_, _)    \* Holds(o, a): ACIR accepts assignment a at opcode o

Kinds == {"exact", "functional", "dropped", "call", "unsupported", "hint"}

Assignments(m) == [m.wires -> Values]

Ops(m) == {m.opcodes[i] : i \in DOMAIN m.opcodes}

(* What the match in build_model_with_calls does with one opcode: a call is
   abstracted when its callee is proved and it has outputs.               *)
Treatment(m, o) ==
  IF o.kind = "call"
  THEN IF o.callee \in m.proved /\ o.outs # {} THEN "functional" ELSE "unsupported"
  ELSE o.kind

HasGroup(m, o) == Treatment(m, o) \in {"exact", "functional"}

Touches(o, component) == o.wires \cap component # {}

(* push_dependency_edge: every opcode but a Brillig call, when it has a wire. *)
Edges(m) == {o.wires : o \in {p \in Ops(m) : p.kind # "hint" /\ p.wires # {}}}

HardCut(m) == DOMAIN m.consts

-----------------------------------------------------------------------------
(* The meaning of the circuit: what a verdict is about. *)

Solutions(m) == {a \in Assignments(m) : \A o \in Ops(m) : Holds(o, a)}

SameOn(W, a, b) == \A w \in W : a[w] = b[w]

(* The wire is determined by the fixed inputs: the claim of `verified`. *)
Unique(m, w) ==
  \A a, b \in Solutions(m) : SameOn(m.inputs, a, b) => a[w] = b[w]

-----------------------------------------------------------------------------
(* Slicing: dependency_component_cut and what a target's component reports. *)

Closed(m, S, cut) == \A e \in Edges(m) : e \cap S # {} => e \ cut \subseteq S

(* The `while changed` loop of dependency_component_cut ends at the least set
   that holds the target and is closed under the edges, never entering cut. *)
DependencyComponentCut(m, t, cut) ==
  IF t \in cut THEN {}
  ELSE {w \in m.wires : \A S \in SUBSET m.wires : t \in S /\ Closed(m, S, cut) => w \in S}

DependencyComponent(m, t) == DependencyComponentCut(m, t, m.inputs)

IsTriviallyDetermined(m, t) == t \in m.inputs \cup m.known

UnsupportedReasonsForTarget(m, t) ==
  {o \in Ops(m) : /\ Treatment(m, o) = "unsupported"
                  /\ o.wires = {} \/ Touches(o, DependencyComponent(m, t))}

(* Both abstractions are noted: the determinism one and the dropped RANGE. *)
AbstractionReasonsForTarget(m, t) ==
  {o \in Ops(m) : /\ Treatment(m, o) \in {"functional", "dropped"}
                  /\ Touches(o, DependencyComponent(m, t))}

(* local_window: the wires within `radius` hops of t, never entering a wire
   that is determined already. known is the determined set at that moment.  *)
LocalWindow(m, known, t, radius) ==
  LET cut == (HardCut(m) \cup known) \ {t}
      Hop[r \in 0..radius] ==
        IF r = 0 THEN {t}
        ELSE Hop[r-1] \cup UNION {e \ cut : e \in {f \in Edges(m) : f \cap Hop[r-1] # {}}}
  IN  Hop[radius]

-----------------------------------------------------------------------------
(* The query: the groups of a slice, the pins, the two copies. *)

(* The groups of a slice: those that touch the component, and the global
   groups, which mention no wire at all.                                   *)
Selected(m, component) ==
  {o \in Ops(m) : HasGroup(m, o) /\ (Touches(o, component) \/ o.wires = {})}

(* Mutant: the slice is cut at constants and nothing restores their value. *)
PinnedNever(m, component) == {}

(* Constant wires a slice mentions are pinned by value in both copies. *)
Pinned(m, component) ==
  {w \in HardCut(m) : \E o \in Selected(m, component) : w \in o.wires}

(* Mutant: the determinism constraint without its input disjuncts. *)
GroupHoldsOutputsEqual(m, o, a, b) ==
  IF Treatment(m, o) = "exact" THEN Holds(o, a) /\ Holds(o, b) ELSE SameOn(o.outs, a, b)

(* One constraint group on the pair of copies: both copies of the translated
   opcode, or the determinism constraint of an abstracted one.             *)
GroupHolds(m, o, a, b) ==
  IF Treatment(m, o) = "exact" THEN Holds(o, a) /\ Holds(o, b)
  ELSE SameOn(o.ins, a, b) => SameOn(o.outs, a, b)

(* The part of the query that speaks of one copy alone. *)
CopyHolds(m, component, a) ==
  /\ \A o \in Selected(m, component) : Treatment(m, o) = "exact" => Holds(o, a)
  /\ \A w \in Pinned(m, component) : a[w] = m.consts[w]

(* The pairs the solver may return for a slice: the two copies satisfy the
   groups, agree on the inputs (one shared variable) and on every wire in
   known_signals, and differ on the target.                                *)
QueryPairs(m, component, known, t) ==
  LET copies == {a \in Assignments(m) : CopyHolds(m, component, a)}
  IN  {p \in copies \X copies :
         /\ SameOn(m.inputs \cup known, p[1], p[2])
         /\ p[1][t] # p[2][t]
         /\ \A o \in Selected(m, component) : GroupHolds(m, o, p[1], p[2])}

-----------------------------------------------------------------------------
(* What a verdict on wire t, with or without a certificate, has to mean. *)

(* The exact cone of the target: everything connected to it through wires
   that are not constant.                                                  *)
Cone(m, t) == DependencyComponentCut(m, t, HardCut(m))

(* Every opcode of the cone was translated exactly, or evaluated by a
   certificate that passed; the target itself is not a constant; and the
   circuit has an honest run.                                              *)
Conclusive(m, t, cert) ==
  /\ Solutions(m) # {}
  /\ t \notin HardCut(m)
  /\ \A o \in Ops(m) :
       Touches(o, Cone(m, t)) =>
         \/ Treatment(m, o) \in {"exact", "hint"}
         \/ cert = "certified" /\ Treatment(m, o) \in {"functional", "dropped"}

Justified(m, t, s, cert) ==
  /\ s = "verified" => Unique(m, t)
  /\ s = "unsafe" /\ Conclusive(m, t, cert) => ~Unique(m, t)

-----------------------------------------------------------------------------
(* What is assumed of the circuits under study, and of the propagation result
   the solver is handed (module Propagation is about how it is computed).    *)

(* An opcode only reads its own wires: it judges an assignment as it judges the
   one that agrees with it there and is the same everywhere else.             *)
AnyValue == CHOOSE v \in Values : TRUE
OnOwnWires(m, o, a) == [w \in m.wires |-> IF w \in o.wires THEN a[w] ELSE AnyValue]

LocalOpcode(m, o) == \A a \in Assignments(m) : Holds(o, a) <=> Holds(o, OnOwnWires(m, o, a))

(* An abstracted opcode is a function of its inputs. *)
IsFunction(m, o) ==
  \A a, b \in Assignments(m) :
    Holds(o, a) /\ Holds(o, b) /\ SameOn(o.ins, a, b) => SameOn(o.outs, a, b)

WellFormed(m) ==
  /\ {"wires", "inputs", "opcodes", "consts", "known", "proved"} \subseteq DOMAIN m
  /\ m.inputs \subseteq m.known
  /\ m.known \subseteq m.wires
  /\ m.consts \in [DOMAIN m.consts -> Values]
  /\ DOMAIN m.consts \subseteq m.wires
  /\ \A o \in Ops(m) :
       /\ o.kind \in Kinds
       /\ o.wires \subseteq m.wires
       /\ o.ins \subseteq o.wires
       /\ o.outs \subseteq o.wires
       /\ o.kind = "dropped" => \A v, w \in o.wires : v = w
       /\ o.kind = "hint" => \A a \in Assignments(m) : Holds(o, a)
       /\ o.kind # "hint" => LocalOpcode(m, o)

(* What propagation and the scan of the callees promise the solver. *)
SoundModel(m) ==
  /\ \A o \in Ops(m) : Treatment(m, o) = "functional" => IsFunction(m, o)
  /\ \A w \in DOMAIN m.consts : \A a \in Solutions(m) : a[w] = m.consts[w]
  /\ \A w \in m.known : Unique(m, w)

ASSUME ModelsWellFormed == \A m \in Models : WellFormed(m)
ASSUME ModelsSound == \A m \in Models : SoundModel(m)
=============================================================================
