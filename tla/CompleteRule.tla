---------------------------- MODULE CompleteRule ----------------------------
(***************************************************************************)
(* The decision of a complete rule, as Rego defines it and eval.zig:148-   *)
(* 173 promises it: a function of which definitions hold and with what     *)
(* values, in no order.  Definitions that disagree are an error, the       *)
(* default speaks only when none holds, and nothing at all denies.         *)
(***************************************************************************)
EXTENDS Sequences

CONSTANTS
  TargetPackage, TargetRule,
  NoValue,     \* a rule without a `value`
  Failing      \* a value whose evaluation is an error

VARIABLES bundle, outcome

ruleVars == <<bundle, outcome>>

Definitions ==
  {r \in {bundle[i] : i \in DOMAIN bundle} :
     r.package = TargetPackage /\ r.name = TargetRule}

Holding == {r \in Definitions : ~r.is_default /\ r.body = "holds"}

Value(r) == IF r.value = NoValue THEN "true" ELSE r.value

True(v) == v \notin {"false", "nil"}

Errs ==
  \/ \E r \in Definitions : ~r.is_default /\ r.body = "errs"
  \/ \E r \in Definitions : r.is_default /\ r.value = Failing
  \/ \E r \in Holding : Value(r) = Failing
  \/ \E q, r \in Holding : Value(q) # Value(r)

Allows ==
  \/ \E r \in Holding : True(Value(r))
  \/ /\ Holding = {}
     /\ \E r \in Definitions : /\ r.is_default /\ r.value # NoValue
                               /\ True(r.value)

Verdict == IF Errs THEN "error" ELSE IF Allows THEN "allow" ELSE "deny"

RuleInit == outcome = "pending"

Decide ==
  /\ outcome = "pending"
  /\ outcome' = Verdict
  /\ UNCHANGED bundle

RuleSpec == RuleInit /\ [][Decide]_ruleVars
=============================================================================
