------------------------------ MODULE Concrete ------------------------------
(***************************************************************************)
(* Running a circuit, hints included (src/src/dynamic/concrete.rs).  The   *)
(* ACVM is external: Step is what it does with one opcode, as far as the   *)
(* searches can tell.  Around it are the override of one hint and the two  *)
(* repairs of parameters that a failed run suggests.                       *)
(*                                                                         *)
(* A run in progress is a record [values, blocks, failed, at]: the wires   *)
(* assigned so far, the memory blocks, whether an opcode failed, and which *)
(* one, 0 if the error does not say.                                       *)
(***************************************************************************)
EXTENDS Candidates

(* A call of Brillig code: answers take the values F gives for those of reads.
   Where F is not defined, the code fails.                                     *)
Brillig(F, reads, answers) == Hint @@ [F |-> F, reads |-> reads, answers |-> answers]

Fresh(values) == [values |-> values, blocks |-> << >>, failed |-> FALSE, at |-> 0]

Fail(s, at) == [s EXCEPT !.failed = TRUE, !.at = at]

(* A wire that already has a value has to get the same one again. *)
Insert(s, i, w, v) ==
  IF w \in DOMAIN s.values
  THEN IF s.values[w] = v THEN s ELSE Fail(s, i)
  ELSE [s EXCEPT !.values = Overlay(Entry(w, v), @)]

InsertAll(s, i, ws, vs) ==
  LET In[k \in 0..Len(ws)] == IF k = 0 THEN s ELSE LET t == In[k-1] IN Insert(t, i, ws[k], vs[k])
  IN  In[Len(ws)]

Known(s, W) == W \subseteq DOMAIN s.values
At(s, ws) == [k \in DOMAIN ws |-> s.values[ws[k]]]

(* An expression with one unknown, linear in it, defines it; with none it is
   checked.                                                                   *)
SolveExpression(s, i, o) ==
  LET unknown == o.wires \ DOMAIN s.values
      w == CHOOSE u \in unknown : TRUE
      squared == \E k \in DOMAIN o.mul : {o.mul[k][2], o.mul[k][3]} = {w}
      roots == {v \in Field : Evaluate(o.mul, o.lin, o.q, Overlay(Entry(w, v), s.values)) = 0}
  IN  IF unknown = {} THEN IF Evaluate(o.mul, o.lin, o.q, s.values) = 0 THEN s ELSE Fail(s, i)
      ELSE IF Cardinality(unknown) > 1 \/ squared THEN Fail(s, 0)
      ELSE IF roots = {} THEN Fail(s, i)
      ELSE IF roots = Field THEN s
      ELSE Insert(s, i, w, CHOOSE v \in roots : TRUE)

Access(s, i, o) ==
  LET at == s.values[o.index]
  IN  IF o.block \notin DOMAIN s.blocks THEN Fail(s, 0)
      ELSE IF at >= Len(s.blocks[o.block]) THEN Fail(s, i)
      ELSE IF o.type = "Read" THEN Insert(s, i, o.value, s.blocks[o.block][at + 1])
      ELSE IF ~Known(s, {o.value}) THEN Fail(s, 0)
      ELSE [s EXCEPT !.blocks[o.block][at + 1] = s.values[o.value]]

(* One opcode.  A recursive proof is not verified here. *)
Step(c, s, i) ==
  LET o == c.opcodes[i]
  IN  IF s.failed \/ o.type = "Recursion" THEN s ELSE
      CASE o.type = "AssertZero" -> SolveExpression(s, i, o)
        [] o.type = "BrilligCall" ->
             IF ~Known(s, ToSet(o.reads)) \/ At(s, o.reads) \notin DOMAIN o.F THEN Fail(s, 0)
             ELSE InsertAll(s, i, o.answers, o.F[At(s, o.reads)])
        [] IsEvaluated(o) ->
             IF ~Known(s, {o.in}) \/ s.values[o.in] \notin DOMAIN o.F THEN Fail(s, 0)
             ELSE Insert(s, i, o.out, o.F[s.values[o.in]])
        [] o.type = "MemoryInit" ->
             IF Known(s, o.wires) THEN [s EXCEPT !.blocks = Overlay(Entry(o.block, At(s, o.init)), @)] ELSE Fail(s, 0)
        [] IsAccess(o) -> IF Known(s, {o.index}) THEN Access(s, i, o) ELSE Fail(s, 0)
        [] OTHER -> IF Known(s, o.wires) /\ AcirHolds(o, s.values) THEN s ELSE Fail(s, i)

RunOn(c, s, first, last) ==
  LET On[i \in first-1..last] == IF i < first THEN s ELSE LET t == On[i-1] IN Step(c, t, i)
  IN  On[last]

(* What is executed: neither calls nor recursive proofs; an expression accepts
   where it vanishes, a range below its bound; the code of a hint answers each
   of its wires.                                                              *)
ExecutableOpcode(wires, o) ==
  /\ o.type \notin {"Call", "Recursion"} /\ o.evaluable
  /\ o.type = "AssertZero" =>
       /\ o.mul \in Seq(Int \X o.wires \X o.wires) /\ o.lin \in Seq(Int \X o.wires) /\ o.q \in Int
       /\ o.wires = ExpressionWires(o.mul, o.lin)
       /\ o.accepts = {a \in [o.wires -> Field] : Evaluate(o.mul, o.lin, o.q, a) = 0}
  /\ o.type = "RANGE" => o.accepts = {a \in [o.wires -> Field] : \A w \in o.wires : a[w] < 2^o.bits}
  /\ o.type = "BrilligCall" =>
       /\ o.wires = {} /\ o.accepts = {<< >>}
       /\ o.answers \in Seq(wires)
       /\ o.F \in [DOMAIN o.F -> [1..Len(o.answers) -> Field]]

Executable(c) == \A i \in DOMAIN c.opcodes : ExecutableOpcode(c.wires, c.opcodes[i])

(* The compiler makes new witnesses for the answers of a call. *)
HintsAreFresh(c) ==
  \A i \in DOMAIN c.opcodes :
    c.opcodes[i].type = "BrilligCall" =>
      /\ ToSet(c.opcodes[i].answers) \cap c.inputs = {}
      /\ \A j \in 1..i-1 : ToSet(c.opcodes[i].answers) \cap c.opcodes[j].wires = {}

-----------------------------------------------------------------------------
(* execute and execute_with_override *)

Execute(c, inputs) == RunOn(c, Fresh(inputs), 1, Len(c.opcodes))

Producers(c, h) == {i \in DOMAIN c.opcodes : c.opcodes[i].type = "BrilligCall" /\ h \in ToSet(c.opcodes[i].answers)}

(* Mutant: the hint is overwritten when everything has run. *)
ExecuteWithOverrideLate(c, inputs, h, v) ==
  LET s == Execute(c, inputs)
  IN  IF s.failed THEN s ELSE [s EXCEPT !.values = Overlay(Entry(h, v), @)]

(* Honest up to and including the call that answers h; then h is v. *)
ExecuteWithOverride(c, inputs, h, v) ==
  LET producer == Min(Producers(c, h))
      before == RunOn(c, Fresh(inputs), 1, producer)
  IN  IF before.failed THEN before
      ELSE RunOn(c, [before EXCEPT !.values = Overlay(Entry(h, v), @)], producer + 1, Len(c.opcodes))

-----------------------------------------------------------------------------
(* What a failed run suggests. *)

InProducts(o) == UNION {{o.mul[k][2], o.mul[k][3]} : k \in DOMAIN o.mul}

(* The first parameter that is linear in o, with the value that makes o vanish
   when everything else keeps the value the failed run gave it.                *)
SolveParam(o, params, values) ==
  LET free == {k \in DOMAIN o.lin : o.lin[k][2] \in params \ InProducts(o)}
      k == Min(free)
      lin == RemoveAt(o.lin, k)
      rest == Evaluate(o.mul, lin, o.q, values)
  IN  IF free = {} \/ o.lin[k][1] % P = 0 \/ ~(ExpressionWires(o.mul, lin) \subseteq DOMAIN values) THEN {}
      ELSE {<<o.lin[k][2], v>> : v \in {u \in Field : (o.lin[k][1] * u + rest) % P = 0}}

(* Of the failing opcode, if the error names one and it is an expression. *)
LinearRepair(c, s) ==
  IF s.at = 0 THEN {}
  ELSE IF c.opcodes[s.at].type # "AssertZero" THEN {}
  ELSE SolveParam(c.opcodes[s.at], c.inputs, s.values)

(* A link [params, sources, bits] has the parameters follow computed values
   that fit their type.                                                       *)
Follows(link, values) ==
  {k \in DOMAIN link.params :
     link.sources[k] \in DOMAIN values /\ (link.bits # {} => values[link.sources[k]] < 2^Min(link.bits))}

CopyLinks(links, inputs, values) ==
  [p \in DOMAIN inputs |->
     LET copies == UNION {{values[l.sources[k]] : k \in {j \in Follows(l, values) : l.params[j] = p}} : l \in links}
     IN  IF copies = {} THEN inputs[p] ELSE CHOOSE v \in copies : TRUE]

(* A solved parameter, if it changes; otherwise every link.  The inputs stay as
   they are when nothing is left to repair.                                     *)
Repaired(c, links, inputs, s) ==
  LET linear == {r \in LinearRepair(c, s) : inputs[r[1]] # r[2]}
  IN  IF linear # {} THEN LET r == CHOOSE r \in linear : TRUE IN [inputs EXCEPT ![r[1]] = r[2]]
      ELSE CopyLinks(links, inputs, s.values)
=============================================================================
