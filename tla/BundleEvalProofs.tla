-------------------------- MODULE BundleEvalProofs --------------------------
(***************************************************************************)
(* The scan of evalBundle implements the complete rule, for every bundle   *)
(* of any length: its decision depends on no order of rules or modules.    *)
(***************************************************************************)
EXTENDS BundleEval, TLAPS

BundleInv == TypeOK /\ ScanInv

(* The rule the scan is at.                                                *)
LEMMA CurrentType ==
  ASSUME TypeOK, NEW i \in DOMAIN bundle
  PROVE  /\ DOMAIN bundle = 1 .. Len(bundle) /\ Len(bundle) \in Nat
         /\ bundle[i].is_default \in BOOLEAN
         /\ bundle[i].body \in {"holds", "fails", "errs"}
         /\ bundle[i].value \in Values \cup {NoValue, Failing}
         /\ ValueOf(bundle[i]) \in Values \cup {Failing}
<1>1. bundle \in Seq(RuleRecord)
  BY BundleAssumption DEF TypeOK
<1>2. DOMAIN bundle = 1 .. Len(bundle) /\ Len(bundle) \in Nat
  BY <1>1
<1>3. bundle[i] \in RuleRecord
  BY <1>1, <1>2
<1> QED
  BY <1>2, <1>3 DEF Values, ValueOf, RuleRecord

(* A scan that has passed nothing knows nothing.                           *)
LEMMA InitInv == Init => BundleInv
<1> SUFFICES ASSUME Init PROVE BundleInv
  OBVIOUS
<1>1. bundle \in Seq(RuleRecord) /\ bundle \in Bundles
  BY BundleAssumption DEF Init
<1>2. Len(bundle) \in Nat
  BY <1>1
<1>3. Passed = {}
  BY DEF Init, Passed
<1>4. next \in 1 .. Len(bundle) + 1
  BY <1>2 DEF Init
<1>5. TypeOK
  <2>1. /\ decision = NoValue /\ fallback = FALSE /\ have_fallback = FALSE
        /\ outcome = "pending"
    BY DEF Init
  <2> QED
    BY <1>1, <1>4, <2>1 DEF TypeOK
<1>6. ScanInv
  BY <1>3 DEF Init, ScanInv
<1> QED
  BY <1>5, <1>6 DEF BundleInv

(* Moving past one rule keeps the invariant when the decision, the         *)
(* fallback and the absence of errors take that rule in.                   *)
LEMMA Advance ==
  ASSUME BundleInv, Scanning, bundle' = bundle, next' = next + 1
  PROVE  /\ next' \in 1 .. Len(bundle) + 1
         /\ Passed' = Passed \cup {next}
         /\ next \in DOMAIN bundle
<1>1. next \in 1 .. Len(bundle) /\ Len(bundle) \in Nat
  BY CurrentType DEF Scanning, BundleInv
<1> QED
  BY <1>1 DEF Passed, Scanning

LEMMA StepInv == BundleInv /\ [Next]_vars => BundleInv'
<1> SUFFICES ASSUME BundleInv, [Next]_vars PROVE BundleInv'
  OBVIOUS
<1> USE BundleAssumption DEF BundleInv
<1>1. CASE Skip
  <2>1. Passed' = Passed \cup {next} /\ next' \in 1 .. Len(bundle) + 1
    BY <1>1, Advance DEF Skip
  <2>2. ~Holds(Current) /\ ~IsDefault(Current)
        /\ ~(IsDefinition(Current) /\ Current.body = "errs")
    BY <1>1 DEF Skip, Holds
  <2> QED
    BY <1>1, <2>1, <2>2 DEF Skip, TypeOK, ScanInv, Current
<1>2. CASE TakeDefault
  <2>1. Passed' = Passed \cup {next} /\ next' \in 1 .. Len(bundle) + 1
        /\ next \in DOMAIN bundle
    BY <1>2, Advance DEF TakeDefault
  <2>2. ~Holds(Current) /\ ~IsDefinition(Current) /\ IsDefault(Current)
        /\ Current.value # Failing
    BY <1>2 DEF TakeDefault, Holds, IsDefinition, IsDefault
  <2>3. \A i \in Passed : ~IsDefault(bundle[i])
    <3> SUFFICES ASSUME NEW i \in Passed, IsDefault(bundle[i]) PROVE FALSE
      OBVIOUS
    <3>1. i \in DOMAIN bundle /\ i < next
      BY <2>1, CurrentType DEF Passed, TypeOK
    <3> QED
      BY <2>1, <2>2, <3>1 DEF ScanInv, ValidDefaults, IsDefault, Addressed, Current
  <2>4. Truthy(Current.value) \in BOOLEAN
    BY DEF Truthy
  <2>5. /\ bundle' = bundle /\ decision' = decision /\ outcome' = outcome
        /\ have_fallback' = TRUE /\ fallback' = Truthy(Current.value)
    BY <1>2 DEF TakeDefault
  <2>6. TypeOK'
    BY <2>1, <2>4, <2>5 DEF TypeOK
  <2>7. ScanInv'
    BY <2>1, <2>2, <2>3, <2>5 DEF ScanInv, Current
  <2> QED
    BY <2>6, <2>7
<1>3. CASE FirstHolds
  <2>1. Passed' = Passed \cup {next} /\ next' \in 1 .. Len(bundle) + 1
        /\ next \in DOMAIN bundle
    BY <1>3, Advance DEF FirstHolds
  <2>2. Holds(Current) /\ ~IsDefault(Current) /\ Current.body = "holds"
    BY <1>3 DEF FirstHolds, Holds, IsDefinition, IsDefault
  <2>3. ValueOf(Current) \in Values
    BY <1>3, <2>1, CurrentType DEF FirstHolds, Current
  <2>4. ValueOf(Current) # NoValue /\ ValueOf(Current) # Failing
    BY <2>3, BundleAssumption DEF Values
  <2>5. /\ bundle' = bundle /\ decision = NoValue /\ outcome' = outcome
        /\ decision' = ValueOf(Current)
        /\ have_fallback' = have_fallback /\ fallback' = fallback
    BY <1>3 DEF FirstHolds
  <2>6. TypeOK'
    BY <2>1, <2>3, <2>5 DEF TypeOK
  <2>7. ScanInv'
    BY <2>1, <2>2, <2>4, <2>5 DEF ScanInv, Current
  <2> QED
    BY <2>6, <2>7
<1>4. CASE AnotherAgrees
  <2>1. Passed' = Passed \cup {next} /\ next' \in 1 .. Len(bundle) + 1
        /\ next \in DOMAIN bundle
    BY <1>4, Advance DEF AnotherAgrees
  <2>2. Holds(Current) /\ ~IsDefault(Current) /\ Current.body = "holds"
        /\ ValueOf(Current) = decision
    BY <1>4 DEF AnotherAgrees, Holds, IsDefinition, IsDefault
  <2>3. decision # NoValue /\ decision # Failing
    BY <1>4 DEF AnotherAgrees, TypeOK, Values
  <2>4. /\ bundle' = bundle /\ decision' = decision /\ outcome' = outcome
        /\ have_fallback' = have_fallback /\ fallback' = fallback
    BY <1>4 DEF AnotherAgrees
  <2>5. TypeOK'
    BY <2>1, <2>4 DEF TypeOK
  <2>6. ScanInv'
    BY <2>1, <2>2, <2>3, <2>4 DEF ScanInv, Current
  <2> QED
    BY <2>5, <2>6
<1>5. CASE Fail \/ Finish \/ UNCHANGED vars
  <2>1. UNCHANGED <<bundle, next, decision, fallback, have_fallback>>
        /\ outcome' \in {"pending", "allow", "deny", "error"}
    BY <1>5 DEF Fail, Finish, vars, TypeOK
  <2> QED
    BY <2>1 DEF TypeOK, ScanInv, Passed
<1> QED
  BY <1>1, <1>2, <1>3, <1>4, <1>5 DEF Next

(* Type correctness of the scan.                                           *)
THEOREM TypeCorrect == Spec => []TypeOK
  BY InitInv, StepInv, PTL DEF Spec, BundleInv

(* The loop invariant of evalBundle, for bundles of every length           *)
(* (eval.zig:180-216).                                                     *)
THEOREM ScanCorrect == Spec => []ScanInv
  BY InitInv, StepInv, PTL DEF Spec, BundleInv

-----------------------------------------------------------------------------
(* The scan implements the complete rule.                                  *)

(* The rules the scan looks at are the definitions of the complete rule.   *)
LEMMA RulesAgree ==
  /\ \A i \in DOMAIN bundle : Addressed(bundle[i]) => bundle[i] \in Rule!Definitions
  /\ \A i \in DOMAIN bundle : Holds(bundle[i]) => bundle[i] \in Rule!Holding
  /\ \A r \in Rule!Definitions : \E i \in DOMAIN bundle : r = bundle[i] /\ Addressed(r)
  /\ \A r \in Rule!Holding : \E i \in DOMAIN bundle : r = bundle[i] /\ Holds(r)
  /\ \A r : ValueOf(r) = Rule!Value(r)
  /\ \A v : Truthy(v) <=> Rule!True(v)
<1>1. /\ \A i \in DOMAIN bundle : Addressed(bundle[i]) => bundle[i] \in Rule!Definitions
      /\ \A r \in Rule!Definitions : \E i \in DOMAIN bundle : r = bundle[i] /\ Addressed(r)
  BY DEF Addressed, Rule!Definitions
<1>2. \A r : Holds(r) <=> Addressed(r) /\ ~r.is_default /\ r.body = "holds"
  BY DEF Holds, IsDefinition
<1>3. /\ \A r : ValueOf(r) = Rule!Value(r)
      /\ \A v : Truthy(v) <=> Rule!True(v)
  BY DEF ValueOf, Truthy, Rule!Value, Rule!True
<1> QED
  BY <1>1, <1>2, <1>3 DEF Rule!Holding

(* The scan stops with an error only where the rule has no meaning.        *)
LEMMA FailErrs ==
  ASSUME BundleInv, Fail
  PROVE  Rule!Errs
<1>1. next \in DOMAIN bundle /\ Current = bundle[next]
  BY DEF Fail, Scanning, Current
<1>2. CASE IsDefinition(Current) /\ Current.body = "errs"
  BY <1>1, <1>2, RulesAgree DEF IsDefinition, Rule!Errs
<1>3. CASE Holds(Current) /\ ValueOf(Current) = Failing
  BY <1>1, <1>3, RulesAgree DEF Rule!Errs
<1>4. CASE IsDefault(Current) /\ Current.value = Failing
  BY <1>1, <1>4, RulesAgree DEF IsDefault, Rule!Errs
<1>5. CASE Conflict
  <2>1. PICK i \in Passed : Holds(bundle[i]) /\ ValueOf(bundle[i]) = decision
    BY <1>5 DEF Conflict, BundleInv, ScanInv
  <2>2. i \in DOMAIN bundle
    BY <1>1, CurrentType DEF Passed, BundleInv
  <2>3. /\ bundle[i] \in Rule!Holding /\ Current \in Rule!Holding
        /\ Rule!Value(bundle[i]) # Rule!Value(Current)
    BY <1>1, <1>5, <2>1, <2>2, RulesAgree DEF Conflict
  <2> QED
    BY <2>3 DEF Rule!Errs
<1> QED
  BY <1>2, <1>3, <1>4, <1>5 DEF Fail

(* A scan that ran to its end has found what the rule means.               *)
LEMMA FinishDecides ==
  ASSUME BundleInv, Finish
  PROVE  outcome' = Rule!Verdict
<1>1. Passed = DOMAIN bundle
  <2>1. bundle \in Seq(RuleRecord)
    BY BundleAssumption DEF BundleInv, TypeOK
  <2>2. DOMAIN bundle = 1 .. Len(bundle) /\ Len(bundle) \in Nat
    BY <2>1
  <2> QED
    BY <2>2 DEF Finish, Passed
<1>2. ~Rule!Errs
  <2>1. \A r \in Rule!Definitions : ~(~r.is_default /\ r.body = "errs")
    BY <1>1, RulesAgree DEF BundleInv, ScanInv, IsDefinition
  <2>2. \A r \in Rule!Definitions : ~(r.is_default /\ r.value = Failing)
    BY <1>1, RulesAgree, BundleAssumption DEF BundleInv, ScanInv, IsDefault
  <2>3. \A r \in Rule!Holding : Rule!Value(r) = decision /\ Rule!Value(r) # Failing
    BY <1>1, RulesAgree DEF BundleInv, ScanInv
  <2> QED
    BY <2>1, <2>2, <2>3 DEF Rule!Errs
<1>3. CASE decision # NoValue
  <2>1. PICK i \in DOMAIN bundle : Holds(bundle[i]) /\ ValueOf(bundle[i]) = decision
    BY <1>1, <1>3 DEF BundleInv, ScanInv
  <2>2. \A r \in Rule!Holding : Rule!Value(r) = decision
    BY <1>1, RulesAgree DEF BundleInv, ScanInv
  <2>3. bundle[i] \in Rule!Holding
    BY <2>1, RulesAgree
  <2>4. Rule!Allows <=> Truthy(decision)
    BY <2>2, <2>3, RulesAgree DEF Rule!Allows
  <2>5. outcome' = IF Truthy(decision) THEN "allow" ELSE "deny"
    BY <1>3 DEF Finish
  <2> QED
    BY <1>2, <2>4, <2>5 DEF Rule!Verdict
<1>4. CASE decision = NoValue
  <2>1. Rule!Holding = {}
    BY <1>1, <1>4, RulesAgree DEF BundleInv, ScanInv
  <2>2. Rule!Allows <=> \E i \in DOMAIN bundle :
                          IsDefault(bundle[i]) /\ Truthy(bundle[i].value)
    BY <2>1, RulesAgree DEF Rule!Allows, IsDefault
  <2>3. Rule!Allows <=> have_fallback /\ fallback
    BY <1>1, <2>2 DEF BundleInv, ScanInv
  <2>4. outcome' = IF have_fallback /\ fallback THEN "allow" ELSE "deny"
    BY <1>4 DEF Finish
  <2> QED
    BY <1>2, <2>3, <2>4 DEF Rule!Verdict
<1> QED
  BY <1>3, <1>4

LEMMA StepRefines ==
  ASSUME BundleInv, [Next]_vars
  PROVE  [Rule!Decide]_(Rule!ruleVars)
<1>1. CASE Skip \/ TakeDefault \/ FirstHolds \/ AnotherAgrees \/ UNCHANGED vars
  BY <1>1 DEF Skip, TakeDefault, FirstHolds, AnotherAgrees, vars, Rule!ruleVars
<1>2. CASE Fail
  <2>1. outcome = "pending" /\ outcome' = "error" /\ bundle' = bundle
    BY <1>2 DEF Fail, Scanning
  <2> QED
    BY <1>2, <2>1, FailErrs DEF Rule!Decide, Rule!Verdict
<1>3. CASE Finish
  <2>1. outcome = "pending" /\ bundle' = bundle
    BY <1>3 DEF Finish
  <2> QED
    BY <1>3, <2>1, FinishDecides DEF Rule!Decide
<1> QED
  BY <1>1, <1>2, <1>3 DEF Next

(* However many rules a bundle has and in whatever order they come,        *)
(* evalBundle decides what the complete rule means (eval.zig:148-219).     *)
THEOREM Implements == Spec => CompleteRuleImplemented
<1>1. Init => Rule!RuleInit
  BY DEF Init, Rule!RuleInit
<1> QED
  BY <1>1, InitInv, StepInv, StepRefines, PTL
  DEF Spec, CompleteRuleImplemented, Rule!RuleSpec
=============================================================================
