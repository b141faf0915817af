----------------------------- MODULE Evaluator -----------------------------
(***************************************************************************)
(* The expression evaluator of eval.zig: recursive, left to right, with a  *)
(* depth counter that every helper checks on entry.  A helper returns a    *)
(* value, Undefined (the code's null, or a path error), or an error, which *)
(* ends the evaluation.  A policy of one rule is built statement by        *)
(* statement and then decided on an input; evalBundle's combination of     *)
(* several rules is BundleEval.tla.                                        *)
(***************************************************************************)
EXTENDS BodyDeps, RegoMeaning, FiniteSets

CONSTANTS
  MaxDepth,      \* max_eval_depth
  MaxBody,       \* the statements of a rule body: a bound of the model
  Statements,    \* the nodes a body may be written from
  Openings,      \* the statements another may follow: a bound of the model
  RuleValues,    \* what a rule may give as its value
  Inputs         \* the documents to decide on

ASSUME EvaluatorAssumption ==
  /\ MaxDepth \in Nat /\ MaxBody \in Nat
  /\ Statements \cup RuleValues \subseteq Nodes /\ NoValue \notin Nodes
  /\ Inputs \subseteq JsonValues

Error(e) == <<"error", e>>
TooDeep == Error("EvalTooDeep")
Errors == {Error(e) : e \in {"EvalTooDeep", "UnorderedComparison", "AssignOutsideBody"}}

(* try, and orelse return null: what does not yield a value is passed on.  *)
Stops(r) == r = Undefined \/ r \in Errors
Then(r, F(_)) == IF Stops(r) THEN r ELSE F(r)

(* The check each recursive helper makes on entry.                         *)
Within(depth, r) == IF depth >= MaxDepth THEN TooDeep ELSE r

(* truthy: null counts as false here, unlike any other defined value.      *)
Truthy(v) == v # Boolean(FALSE) /\ v # Null

OrFalse(r) == IF r = Undefined THEN Boolean(FALSE) ELSE r
OrNull(r) == IF r = Undefined THEN Null ELSE r
Holds(r) == Then(r, LAMBDA v : Boolean(Truthy(v)))
Negated(r) == Then(r, LAMBDA v : Boolean(~Truthy(v)))

-----------------------------------------------------------------------------
(* resolveRef: the frames of the scope, innermost first, then the input.   *)
ResolveRef(path, env) ==
  LET named == {i \in DOMAIN env.scope : IsKey(path[1], env.scope[i].name)}
  IN  IF path = << >> THEN Undefined
      ELSE IF IsKey(path[1], InputKey) THEN Walk[<<env.input, Tail(path)>>]
      ELSE IF named = {} THEN Walk[<<env.input, path>>]
      ELSE Walk[<<env.scope[First(named)].bound, Tail(path)>>]

(* compareValues.                                                          *)
CompareValues(op, a, b) ==
  LET order == ValueCompare(a, b)
  IN  CASE op = "eq"  -> Boolean(ValueEquals(a, b))
        [] op = "neq" -> Boolean(~ValueEquals(a, b))
        [] op \notin {"eq", "neq"} /\ order = Unordered -> Error("UnorderedComparison")
        [] op = "lt" /\ order # Unordered -> Boolean(order < 0)
        [] op = "lte" /\ order # Unordered -> Boolean(order <= 0)
        [] op = "gt" /\ order # Unordered -> Boolean(order > 0)
        [] op = "gte" /\ order # Unordered -> Boolean(order >= 0)

(* ItemIter: the values that have items, and their items in order.         *)
HasItems(v) == Kind(v) \in {"array", "set", "object"}

ItemsOf(v, kind) ==
  IF Kind(v) = "object"
  THEN [i \in DOMAIN Content(v) |->
          IF kind = "keys" THEN String(Content(v)[i].key) ELSE Content(v)[i].value]
  ELSE Content(v)

-----------------------------------------------------------------------------
(* The helpers are mutually recursive.  A call that counts a level goes    *)
(* through deeper, the evaluator from depth d + 1 on: what each helper     *)
(* makes of a node (deeper.node) and what is left of a body makes of an    *)
(* environment (deeper.body).                                              *)

(* evalCompare.                                                            *)
EvalCompare(deeper, e, env, d) ==
  Within(d,
    Then(deeper.node[<<"operand", e.left, env>>], LAMBDA l :
      Then(deeper.node[<<"operand", e.right, env>>], LAMBDA r :
        CompareValues(e.op, l, r))))

(* evalMember.                                                             *)
EvalMember(deeper, e, env, d) ==
  Within(d,
    Then(deeper.node[<<"operand", e.left, env>>], LAMBDA needle :
      Then(deeper.node[<<"operand", e.right, env>>], LAMBDA v :
        LET items == ItemsOf(v, "values")
        IN  Boolean(HasItems(v) /\ \E i \in DOMAIN items : ValueEquals(needle, items[i])))))

(* The loop of evalSome and evalEvery: the first item whose body settles   *)
(* it, or is an error, is the last one looked at.                          *)
EvalItems(deeper, e, items, env) ==
  LET HeldBy(i) == deeper.body[<<e.body, 1, Push(env, e.var, items[i])>>]
      otherwise == Boolean(e.type = "every")
      settled == {i \in DOMAIN items : HeldBy(i) # otherwise}
  IN  IF settled = {} THEN otherwise ELSE HeldBy(First(settled))

(* evalSome, evalEvery and iterItems.                                      *)
EvalIteration(deeper, e, env, d) ==
  Within(d,
    Then(deeper.node[<<"value", e.source, env>>], LAMBDA v :
      IF HasItems(v) THEN EvalItems(deeper, e, ItemsOf(v, e.kind), env) ELSE Undefined))

(* evalCall and evalCallLifted: the first argument that has no value stops *)
(* the call; undefined counts as none only when lifted, and is nil else.   *)
EvalCall(deeper, e, env, d, lifted) ==
  LET resolved == [i \in DOMAIN e.args |->
                     deeper.node[<<IF lifted THEN "operand" ELSE "value", e.args[i], env>>]]
      stopped == {i \in DOMAIN e.args : Stops(resolved[i])}
  IN  Within(d, IF stopped = {} THEN Dispatch(e.name, resolved) ELSE resolved[First(stopped)])

(* resolveValue: undefined is folded into nil.                             *)
ResolveValue(deeper, e, env, d) ==
  Within(d,
    CASE e.type = "value" -> e.value
      [] e.type = "ref" -> OrNull(ResolveRef(e.path, env))
      [] e.type = "compare" -> OrNull(deeper.node[<<"compare", e, env>>])
      [] e.type = "not" -> OrNull(deeper.node[<<"negation", e.expr, env>>])
      [] e.type \in Iterations -> OrNull(deeper.node[<<"iteration", e, env>>])
      [] e.type = "call" -> deeper.node[<<"call", e, env>>]
      [] e.type = "in" -> OrNull(deeper.node[<<"member", e, env>>])
      [] e.type = "assign" -> Error("AssignOutsideBody"))

(* evalExprBool: undefined is false here, errors are not.                  *)
EvalExprBool(deeper, e, env, d) ==
  Within(d, OrFalse(
    CASE e.type = "value" -> Boolean(Truthy(e.value))
      [] e.type = "ref" -> Holds(ResolveRef(e.path, env))
      [] e.type = "compare" -> deeper.node[<<"compare", e, env>>]
      [] e.type = "not" -> deeper.node[<<"negation", e.expr, env>>]
      [] e.type \in Iterations -> deeper.node[<<"iteration", e, env>>]
      [] e.type = "call" -> Holds(deeper.node[<<"call", e, env>>])
      [] e.type = "in" -> deeper.node[<<"member", e, env>>]
      [] e.type = "assign" -> Error("AssignOutsideBody")))

(* Mutant: the operands of != and the orderings are not lifted.            *)
MutantRefsLifted(op) == FALSE

(* Every comparison but == is a call in Rego.                              *)
RefsLifted(op) == op # "eq"

(* evalNegation's compare case: both sides are resolved before either is   *)
(* looked at.                                                              *)
NegateCompare(deeper, e, env) ==
  LET l == deeper.node[<<"operand", e.left, env>>]
      r == deeper.node[<<"operand", e.right, env>>]
      lifted == {s \in {e.left, e.right} : RefsLifted(e.op) \/ s.type # "ref"}
  IN  IF l \in Errors THEN l
      ELSE IF r \in Errors THEN r
      ELSE IF l = Undefined \/ r = Undefined
      THEN IF (l = Undefined /\ e.left \in lifted) \/ (r = Undefined /\ e.right \in lifted)
           THEN Undefined ELSE Boolean(TRUE)
      ELSE Negated(CompareValues(e.op, l, r))

(* evalNegation of the expression under the not.                           *)
EvalNegation(deeper, e, env, d) ==
  Within(d,
    CASE e.type = "call" -> Negated(deeper.node[<<"lifted_call", e, env>>])
      [] e.type = "in" -> Negated(deeper.node[<<"member", e, env>>])
      [] e.type = "compare" -> NegateCompare(deeper, e, env)
      [] e.type = "not" -> Negated(deeper.node[<<"negation", e.expr, env>>])
      [] e.type \in Iterations -> Negated(deeper.node[<<"iteration", e, env>>])
      [] e.type \in {"value", "ref", "assign"} -> Negated(EvalExprBool(deeper, e, env, d)))

(* resolveDefined and resolveOperandLifted: an operand's value, Undefined  *)
(* for a missing path or a call that could not compute.                    *)
ResolveDefined(deeper, e, env, d) ==
  CASE e.type = "ref" -> ResolveRef(e.path, env)
    [] e.type = "compare" -> EvalCompare(deeper, e, env, d)
    [] e.type = "not" -> EvalNegation(deeper, e.expr, env, d)
    [] e.type \in Iterations -> EvalIteration(deeper, e, env, d)
    [] e.type = "in" -> EvalMember(deeper, e, env, d)
    [] e.type = "call" -> LET v == EvalCall(deeper, e, env, d, TRUE)
                          IN  IF v = Null THEN Undefined ELSE v
    [] e.type \in {"value", "assign"} -> ResolveValue(deeper, e, env, d)

(* The value an assignment binds, Undefined when the body fails there.     *)
BoundValue(deeper, e, env) ==
  CASE e.type = "value" -> e.value
    [] e.type = "ref" -> ResolveRef(e.path, env)
    [] e.type \notin {"value", "ref"} -> LET v == deeper.node[<<"value", e, env>>]
                                        IN  IF v = Null THEN Undefined ELSE v

(* The conditions of a body up to its next assignment, all evaluated at    *)
(* the depth of the body: the first that does not hold answers for it.     *)
EvalConditions(deeper, stmts, positions, env, d) ==
  LET Held(i) == EvalExprBool(deeper, stmts[i], env, d)
      stopped == {i \in positions : Held(i) # Boolean(TRUE)}
  IN  IF stopped = {} THEN Boolean(TRUE) ELSE Held(First(stopped))

(* Mutant: every statement costs a level, not only the assignments.        *)
MutantEvalBody(deeper, stmts, from, env, d) ==
  Within(d,
    IF from > Len(stmts) THEN Boolean(TRUE)
    ELSE IF stmts[from].type = "assign"
    THEN OrFalse(Then(BoundValue(deeper, stmts[from].value, env), LAMBDA v :
           deeper.body[<<stmts, from + 1, Push(env, stmts[from].var, v)>>]))
    ELSE Then(EvalExprBool(deeper, stmts[from], env, d), LAMBDA held :
           IF Content(held) THEN deeper.body[<<stmts, from + 1, env>>] ELSE held))

(* evalBodyScoped, from a statement on: a conjunction; an assignment       *)
(* scopes over the rest, which is evaluated one level deeper.              *)
EvalBody(deeper, stmts, from, env, d) ==
  LET bindings == Bindings(stmts, from)
      next == First(bindings)
      conditions == from .. (IF bindings = {} THEN Len(stmts) ELSE next - 1)
      held == EvalConditions(deeper, stmts, conditions, env, d)
  IN  Within(d,
        IF held # Boolean(TRUE) \/ bindings = {} THEN held
        ELSE OrFalse(Then(BoundValue(deeper, stmts[next].value, env), LAMBDA v :
               deeper.body[<<stmts, next + 1, Push(env, stmts[next].var, v)>>])))

Helpers == {"operand", "value", "compare", "member", "iteration", "call", "lifted_call", "negation"}

EvalNode(deeper, helper, e, env, d) ==
  CASE helper = "operand" -> ResolveDefined(deeper, e, env, d)
    [] helper = "value" -> ResolveValue(deeper, e, env, d)
    [] helper = "compare" -> EvalCompare(deeper, e, env, d)
    [] helper = "member" -> EvalMember(deeper, e, env, d)
    [] helper = "iteration" -> EvalIteration(deeper, e, env, d)
    [] helper = "call" -> EvalCall(deeper, e, env, d, FALSE)
    [] helper = "lifted_call" -> EvalCall(deeper, e, env, d, TRUE)
    [] helper = "negation" -> EvalNegation(deeper, e, env, d)

(* The evaluator at each depth; at the cap nothing goes deeper.            *)
Level(deeper, d) ==
  [node |-> [c \in Helpers \X Nodes \X Envs |-> EvalNode(deeper, c[1], c[2], c[3], d)],
   body |-> [c \in Seq(Nodes) \X (Nat \ {0}) \X Envs |-> EvalBody(deeper, c[1], c[2], c[3], d)]]

Eval[d \in 0 .. MaxDepth] == Level(IF d = MaxDepth THEN << >> ELSE Eval[d + 1], d)

(* evalBundle on one rule, with the evaluator at depth 0: the truth of its  *)
(* value once its body holds; then allow, deny, or the error that denies.  *)
RuleResult(eval, stmts, answer, env) ==
  Then(eval.body[<<stmts, 1, env>>], LAMBDA held :
    IF held # Boolean(TRUE) \/ answer = NoValue THEN held
    ELSE Holds(eval.node[<<"value", answer, env>>]))

Decision(result) ==
  IF result \in Errors THEN Content(result)
  ELSE IF result = Boolean(TRUE) THEN "allow" ELSE "deny"

EvalRule(stmts, answer, doc) ==
  Decision(RuleResult(Eval[0], stmts, answer, [input |-> doc, scope |-> << >>]))
-----------------------------------------------------------------------------
VARIABLES
  body,      \* the statements of the rule
  value,     \* the rule's value, once it is written
  input,     \* the document being decided on
  outcome    \* "writing", "rejected", "built", or what the evaluation answered

vars == <<body, value, input, outcome>>

Answers == {"allow", "deny"} \cup {Content(e) : e \in Errors}

TypeOK ==
  /\ body \in Seq(Statements) /\ Len(body) <= MaxBody
  /\ value \in RuleValues \cup {NoValue}
  /\ input \in Inputs \cup {Undefined}
  /\ outcome \in Answers \cup {"writing", "rejected", "built"}
  /\ input # Undefined <=> outcome \in Answers

Init ==
  /\ body = << >> /\ value = NoValue
  /\ input = Undefined /\ outcome = "writing"

(* A policy author adds a statement.                                       *)
WriteStatement(s) ==
  /\ outcome = "writing" /\ Len(body) < MaxBody
  /\ body # << >> => Last(body) \in Openings
  /\ body' = Append(body, s)
  /\ UNCHANGED <<value, input, outcome>>

(* Mutant: a rule that does not build reads as a deny.                     *)
MutantBuildRule(v) ==
  /\ outcome = "writing"
  /\ value' = v
  /\ outcome' = IF BuildRuleOK(body, v) THEN "built" ELSE "deny"
  /\ UNCHANGED <<body, input>>

(* policy_compile: buildRule accepts the rule or refuses it.               *)
BuildRule(v) ==
  /\ outcome = "writing"
  /\ value' = v
  /\ outcome' = IF BuildRuleOK(body, v) THEN "built" ELSE "rejected"
  /\ UNCHANGED <<body, input>>

(* evaluate_compiled.                                                      *)
Evaluate(doc) ==
  /\ outcome = "built"
  /\ input' = doc
  /\ outcome' = EvalRule(body, value, doc)
  /\ UNCHANGED <<body, value>>

Next ==
  \/ \E s \in Statements : WriteStatement(s)
  \/ \E v \in RuleValues \cup {NoValue} : BuildRule(v)
  \/ \E doc \in Inputs : Evaluate(doc)

Spec == Init /\ [][Next]_vars
-----------------------------------------------------------------------------
Decided == outcome \in {"allow", "deny"}

(* A decision is what the policy means: the depth cap, the order of        *)
(* evaluation and its errors turn decisions into errors, which deny, and   *)
(* never into another decision (eval.zig:302, 327-377, 405-440).  An       *)
(* explicit null does not hold as a condition.                             *)
DecidesMeaning ==
  Decided => (outcome = "allow" <=> RuleAllows(body, value, input, FALSE))

(* The levels an expression can consume: two for each node with operands   *)
(* or a body, one more for each assignment before it.                      *)
Highest(S) == CHOOSE n \in S \cup {0} : \A m \in S : m <= n

LevelsOfBody(levels, statements) ==
  Highest({Cardinality({j \in 1 .. i - 1 : statements[j].type = "assign"})
             + levels[statements[i]] : i \in DOMAIN statements})

LevelsBy(levels, e) ==
  CASE e.type \in {"value", "ref"} -> 0
    [] e.type \in {"compare", "in"} -> 2 + Highest({levels[e.left], levels[e.right]})
    [] e.type = "not" -> 2 + levels[e.expr]
    [] e.type = "call" -> 2 + Highest({levels[e.args[i]] : i \in DOMAIN e.args})
    [] e.type = "assign" -> 1 + levels[e.value]
    [] e.type \in Iterations -> 2 + Highest({levels[e.source], LevelsOfBody(levels, e.body)})

Levels[e \in Nodes] == LevelsBy(Levels, e)

(* Whether a policy can hit the recursion cap is settled by its shape: a   *)
(* shallow one is never refused, whatever the input (eval.zig:22, 239).    *)
ShallowNeverTooDeep ==
  outcome = "EvalTooDeep" =>
    MaxDepth <= Highest({LevelsOfBody(Levels, body), IF value = NoValue THEN 0 ELSE Levels[value]})

Keys(object) == {Content(object)[i].key : i \in DOMAIN Content(object)}

(* The objects that have the members of an object, those of the body apart.*)
AgreeBeside(doc, other) ==
  /\ Kind(doc) = "object" /\ Kind(other) = "object"
  /\ \A k \in (Keys(doc) \cup Keys(other)) \ {BodyKey, BodyRawKey} :
       LookupMember(Content(doc), k) = LookupMember(Content(other), k)

OthersBeside(doc) == {other \in Inputs : AgreeBeside(doc, other)}

(* A rule classified no_body_refs decides alike on every body, which is    *)
(* why the shim may evaluate it on a truncated one (body_deps.zig:8-16).   *)
UnreadBodyIrrelevant ==
  Decided /\ Class(body, value) = "no_body_refs" =>
    \A other \in OthersBeside(input) : EvalRule(body, value, other) = outcome

(* The value a path has in a document.                                     *)
At(doc, path) == RefMeaning(path, [input |-> doc, scope |-> << >>])

(* A rule classified prefix_only decides alike on two inputs that agree on *)
(* the sub-paths of the body it names (body_deps.zig:26-28).               *)
PrefixSuffices ==
  Decided /\ Class(body, value) = "prefix_only" =>
    \A other \in OthersBeside(input) :
      (\A t \in VisitRule(body, value) : t[1] = "prefix" => At(other, t[2]) = At(input, t[2]))
        => EvalRule(body, value, other) = outcome

(* "Only false and undefined are falsy. Every other value is truthy"       *)
(* (eval.zig:38-41): what an explicit null lets through is let through by  *)
(* that reading too.                                                       *)
OnlyFalseAndUndefinedFalsy ==
  outcome = "allow" => RuleAllows(body, value, input, TRUE)
=============================================================================
