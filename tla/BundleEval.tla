----------------------------- MODULE BundleEval -----------------------------
(***************************************************************************)
(* evalBundle (eval.zig): one scan over the rules of a bundle, in bundle   *)
(* order, for the decision of one package.rule on one input.  What a body  *)
(* and a value come to on that input is part of the rule record; the       *)
(* modules of a bundle are flattened, each rule keeping its package.       *)
(***************************************************************************)
EXTENDS Integers, Sequences

CONSTANTS
  TargetPackage, TargetRule,  \* what is evaluated
  NoValue,                    \* a rule without a `value`; no decision yet
  Failing,                    \* a value whose evaluation is an error
  Bundles                     \* sequences of rules a policy may consist of

Values == {"true", "false", "nil", "other"}

(* A rule, with what its body and its value come to.                       *)
RuleRecord ==
  [package : STRING, name : STRING, is_default : BOOLEAN,
   body : {"holds", "fails", "errs"}, value : Values \cup {NoValue, Failing}]

ASSUME BundleAssumption ==
  /\ Bundles \subseteq Seq(RuleRecord)
  /\ NoValue \notin Values \cup {Failing}
  /\ Failing \notin Values

VARIABLES
  bundle,         \* the rules
  next,           \* the rule the scan is at
  decision,       \* the value of the first rule that held
  fallback,       \* what the default came to
  have_fallback,
  outcome         \* "pending" until the call returns

vars == <<bundle, next, decision, fallback, have_fallback, outcome>>

(* truthy: only false and undefined are not.                               *)
Truthy(v) == v \notin {"false", "nil"}

(* Mutant: a duplicate default is accepted, and the last one wins.         *)
MutantValidDefaults(b) == TRUE

(* validateDefaults: a package declares one default per rule name.         *)
ValidDefaults(b) ==
  \A i, j \in DOMAIN b :
    i < j /\ b[i].is_default /\ b[j].is_default =>
      b[i].package # b[j].package \/ b[i].name # b[j].name

Init ==
  /\ bundle \in {b \in Bundles : ValidDefaults(b)}
  /\ next = 1
  /\ decision = NoValue
  /\ fallback = FALSE
  /\ have_fallback = FALSE
  /\ outcome = "pending"

-----------------------------------------------------------------------------
Scanning == outcome = "pending" /\ next \in DOMAIN bundle
Current == bundle[next]

Addressed(r) == r.package = TargetPackage /\ r.name = TargetRule

(* A default without a value is skipped rather than masking a real one.    *)
IsDefault(r) == Addressed(r) /\ r.is_default /\ r.value # NoValue
IsDefinition(r) == Addressed(r) /\ ~r.is_default

(* The value of a rule that holds; `true` unless it says otherwise.        *)
ValueOf(r) == IF r.value = NoValue THEN "true" ELSE r.value

Holds(r) == IsDefinition(r) /\ r.body = "holds"

(* Mutant: a default that came later replaces what a rule decided.         *)
MutantTakeDefault ==
  /\ Scanning
  /\ IsDefault(Current) /\ Current.value # Failing
  /\ decision' = NoValue
  /\ fallback' = Truthy(Current.value)
  /\ have_fallback' = TRUE
  /\ next' = next + 1
  /\ UNCHANGED <<bundle, outcome>>

(* Mutant: leaving the inner loop also steps over the next rule.           *)
MutantSkip ==
  /\ Scanning
  /\ ~IsDefault(Current)
  /\ IsDefinition(Current) => Current.body = "fails"
  /\ next' = next + 2
  /\ UNCHANGED <<bundle, decision, fallback, have_fallback, outcome>>

Skip ==
  /\ Scanning
  /\ ~IsDefault(Current)
  /\ IsDefinition(Current) => Current.body = "fails"
  /\ next' = next + 1
  /\ UNCHANGED <<bundle, decision, fallback, have_fallback, outcome>>

TakeDefault ==
  /\ Scanning
  /\ IsDefault(Current) /\ Current.value # Failing
  /\ fallback' = Truthy(Current.value)
  /\ have_fallback' = TRUE
  /\ next' = next + 1
  /\ UNCHANGED <<bundle, decision, outcome>>

(* The first rule to hold decides ...                                      *)
FirstHolds ==
  /\ Scanning
  /\ Holds(Current) /\ ValueOf(Current) # Failing
  /\ decision = NoValue
  /\ decision' = ValueOf(Current)
  /\ next' = next + 1
  /\ UNCHANGED <<bundle, fallback, have_fallback, outcome>>

(* ... and every later one must agree with it.                             *)
AnotherAgrees ==
  /\ Scanning
  /\ Holds(Current)
  /\ decision # NoValue /\ decision = ValueOf(Current)
  /\ next' = next + 1
  /\ UNCHANGED <<bundle, decision, fallback, have_fallback, outcome>>

Conflict ==
  /\ Holds(Current) /\ ValueOf(Current) # Failing
  /\ decision # NoValue /\ decision # ValueOf(Current)

(* A body or a value that cannot be evaluated, or two rules that disagree: *)
(* the scan stops with the error.                                          *)
Fail ==
  /\ Scanning
  /\ \/ IsDefinition(Current) /\ Current.body = "errs"
     \/ Holds(Current) /\ ValueOf(Current) = Failing
     \/ IsDefault(Current) /\ Current.value = Failing
     \/ Conflict
  /\ outcome' = "error"
  /\ UNCHANGED <<bundle, next, decision, fallback, have_fallback>>

Finish ==
  /\ outcome = "pending" /\ next = Len(bundle) + 1
  /\ outcome' = IF (IF decision # NoValue THEN Truthy(decision)
                    ELSE have_fallback /\ fallback)
                  THEN "allow" ELSE "deny"
  /\ UNCHANGED <<bundle, next, decision, fallback, have_fallback>>

Next == Skip \/ TakeDefault \/ FirstHolds \/ AnotherAgrees \/ Fail \/ Finish

Spec == Init /\ [][Next]_vars

-----------------------------------------------------------------------------
TypeOK ==
  /\ bundle \in Bundles
  /\ next \in 1 .. Len(bundle) + 1
  /\ decision \in Values \cup {NoValue}
  /\ fallback \in BOOLEAN /\ have_fallback \in BOOLEAN
  /\ outcome \in {"pending", "allow", "deny", "error"}

(* What the scan knows of the rules it has passed: the decision is the one *)
(* value all rules that held agree on, the fallback the default's, and     *)
(* nothing so far could not be evaluated (eval.zig:180-216).               *)
Passed == 1 .. next - 1

ScanInv ==
  /\ ValidDefaults(bundle)
  /\ decision = NoValue <=> \A i \in Passed : ~Holds(bundle[i])
  /\ \A i \in Passed : Holds(bundle[i]) => ValueOf(bundle[i]) = decision
  /\ have_fallback <=> \E i \in Passed : IsDefault(bundle[i])
  /\ \A i \in Passed : IsDefault(bundle[i]) => fallback = Truthy(bundle[i].value)
  /\ \A i \in Passed :
       ~ \/ IsDefinition(bundle[i]) /\ bundle[i].body = "errs"
         \/ Holds(bundle[i]) /\ ValueOf(bundle[i]) = Failing
         \/ IsDefault(bundle[i]) /\ bundle[i].value = Failing

(* The scan decides what the complete rule means, whatever the order of    *)
(* the rules and of the modules (eval.zig:148-173).                        *)
Rule == INSTANCE CompleteRule

CompleteRuleImplemented == Rule!RuleSpec
=============================================================================
