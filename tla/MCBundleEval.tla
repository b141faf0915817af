---------------------------- MODULE MCBundleEval ----------------------------
(* Every bundle of up to four rules, drawn from every kind of rule the     *)
(* scan tells apart.                                                       *)
EXTENDS BundleEval

RuleOf(package, name, is_default, body, value) ==
  [package |-> package, name |-> name, is_default |-> is_default,
   body |-> body, value |-> value]

Defaults ==
  {RuleOf("", "allow", TRUE, "holds", v) : v \in {"true", "false", NoValue, Failing}}

Definitions ==
  {RuleOf("", "allow", FALSE, "holds", v) : v \in {"true", "false", "nil", NoValue, Failing}}
    \cup {RuleOf("", "allow", FALSE, b, "true") : b \in {"fails", "errs"}}

Unrelated ==
  {RuleOf("audit", "allow", FALSE, "holds", "false"), RuleOf("", "deny", TRUE, "holds", "true")}

RuleKinds == Defaults \cup Definitions \cup Unrelated

SmallBundles == UNION {[1 .. n -> RuleKinds] : n \in 0 .. 4}
=============================================================================
