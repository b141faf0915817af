---------------------------- MODULE RegoMeaning ----------------------------
(***************************************************************************)
(* What an expression means in Rego, as docs/ast.md and the comments of    *)
(* eval.zig tell it: three-valued (a value, or Undefined), with no         *)
(* recursion cap, no evaluation order and no errors.  Negation holds of    *)
(* what is false or undefined, once the terms OPA lifts out of it are      *)
(* defined.  Evaluator.tla is compared with it.  Each meaning is one of an *)
(* environment and of whether an explicit null holds as a condition, which *)
(* the code and its comments answer differently.                           *)
(***************************************************************************)
EXTENDS Ast

(* input names the document, a bound name its innermost value, any other   *)
(* path is read from the document.                                         *)
RefMeaning(path, env) ==
  LET frames == {i \in DOMAIN env.scope : path[1] = Key(env.scope[i].name)}
      innermost == CHOOSE i \in frames : \A j \in frames : i <= j
  IN  IF path = << >> THEN Undefined
      ELSE IF path[1] = Key(InputKey) THEN Walk[<<env.input, Tail(path)>>]
      ELSE IF frames = {} THEN Walk[<<env.input, path>>]
      ELSE Walk[<<env.scope[innermost].bound, Tail(path)>>]

Relates(op, a, b) ==
  CASE op = "eq"  -> ValueEquals(a, b)
    [] op = "neq" -> ~ValueEquals(a, b)
    [] op = "lt"  -> ValueCompare(a, b) < 0
    [] op = "lte" -> ValueCompare(a, b) <= 0
    [] op = "gt"  -> ValueCompare(a, b) > 0
    [] op = "gte" -> ValueCompare(a, b) >= 0

(* The elements of a collection: what some and every bind, or in searches. *)
Elements(v, kind) ==
  {IF Kind(v) # "object" THEN Content(v)[i]
   ELSE IF kind = "keys" THEN String(Content(v)[i].key) ELSE Content(v)[i].value :
   i \in DOMAIN Content(v)}

IsCollection(v) == v # Undefined /\ Kind(v) \in {"array", "object", "set"}

(* A condition holds unless it is false or undefined.                      *)
IsTrue(v, nullHolds) == v # Undefined /\ v # Boolean(FALSE) /\ (v = Null => nullHolds)

(* The subterms of a negated expression that OPA evaluates before it: the  *)
(* arguments of a call, and every comparison but == is a call.             *)
LiftedBy(lifted, e) ==
  CASE e.type = "call" -> {e.args[i] : i \in DOMAIN e.args}
    [] e.type = "compare" -> IF e.op = "eq" THEN {x \in {e.left, e.right} : x.type # "ref"}
                             ELSE {e.left, e.right}
    [] e.type = "not" -> lifted[e.expr]
    [] e.type \in Iterations \cup {"in"} -> {e}
    [] OTHER -> {}

Lifted[e \in Nodes] == LiftedBy(Lifted, e)

-----------------------------------------------------------------------------
(* The statements of a body from one on, given the meanings of expressions:*)
(* those before the next binding hold, and the binding is defined and      *)
(* reaches what follows it.                                                *)
RestHolds(rest, meaning, stmts, from, env, nullHolds) ==
  LET next == First(Bindings(stmts, from))
      bound == meaning[stmts[next].value][<<env, nullHolds>>]
      Hold(positions) ==
        \A i \in positions : IsTrue(meaning[stmts[i]][<<env, nullHolds>>], nullHolds)
  IN  IF Bindings(stmts, from) = {}
      THEN Hold(from .. Len(stmts))
      ELSE /\ Hold(from .. next - 1)
           /\ bound # Undefined
           /\ <<Push(env, stmts[next].var, bound), nullHolds>> \in rest[next + 1]

(* From each position on, the environments in which the rest holds.        *)
Holding(meaning, stmts) ==
  LET holding[from \in 1 .. Len(stmts) + 1] ==
        {c \in Envs \X BOOLEAN : RestHolds(holding, meaning, stmts, from, c[1], c[2])}
  IN  holding

BodyHolds(meaning, stmts, env, nullHolds) ==
  <<env, nullHolds>> \in Holding(meaning, stmts)[1]

-----------------------------------------------------------------------------
MeaningBy(meaning, e, env, nullHolds) ==
  LET Of(x) == meaning[x][<<env, nullHolds>>]
      HoldsOn(v) == BodyHolds(meaning, e.body, Push(env, e.var, v), nullHolds)
  IN  CASE e.type = "value" -> e.value
        [] e.type = "ref" -> RefMeaning(e.path, env)
        [] e.type = "assign" -> Undefined
        [] e.type = "compare" ->
             IF Undefined \in {Of(e.left), Of(e.right)} THEN Undefined
             ELSE Boolean(Relates(e.op, Of(e.left), Of(e.right)))
        [] e.type = "in" ->
             IF Undefined \in {Of(e.left), Of(e.right)} THEN Undefined
             ELSE Boolean(/\ IsCollection(Of(e.right))
                          /\ \E v \in Elements(Of(e.right), "values") : ValueEquals(Of(e.left), v))
        [] e.type = "call" ->
             LET args == [i \in DOMAIN e.args |-> Of(e.args[i])]
             IN  IF \E i \in DOMAIN args : args[i] = Undefined THEN Undefined
                 ELSE IF Dispatch(e.name, args) = Null THEN Undefined ELSE Dispatch(e.name, args)
        [] e.type = "not" ->
             IF \E t \in Lifted[e.expr] : Of(t) = Undefined THEN Undefined
             ELSE Boolean(~IsTrue(Of(e.expr), nullHolds))
        [] e.type \in Iterations ->
             IF ~IsCollection(Of(e.source)) THEN Undefined
             ELSE Boolean(IF e.type = "some"
                          THEN \E v \in Elements(Of(e.source), e.kind) : HoldsOn(v)
                          ELSE \A v \in Elements(Of(e.source), e.kind) : HoldsOn(v))

Meaning[e \in Built] ==
  [c \in Envs \X BOOLEAN |-> MeaningBy(Meaning, e, c[1], c[2])]

(* A rule decides allow when its body holds with a true value.             *)
RuleAllows(stmts, answer, doc, nullHolds) ==
  LET env == [input |-> doc, scope |-> << >>]
  IN  /\ BodyHolds(Meaning, stmts, env, nullHolds)
      /\ answer # NoValue => IsTrue(Meaning[answer][<<env, nullHolds>>], nullHolds)
=============================================================================
