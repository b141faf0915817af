------------------------------ MODULE Targets ------------------------------
(***************************************************************************)
(* Which (package, rule) pairs each proxy-wasm phase evaluates             *)
(* (targets.zig), and whether those rules read the body (body_deps.zig),   *)
(* as operators over a plugin configuration.                               *)
(*                                                                         *)
(* A configuration document is a record:                                   *)
(*   builds   the bytes parse and the policy's AST builds                  *)
(*   wrapped  the document carries a `policy` member                       *)
(*   rules    its rules: [package, name, reads]                            *)
(*   targets  Absent, Unreadable (not an array), or a set of entries       *)
(*            [phase, package, rule, on_deny]; a field that is missing is  *)
(*            Absent, one of the wrong JSON type Unreadable                *)
(* Entries and targets are sets: every entry must be good and every target *)
(* of a phase is evaluated, so their order decides nothing but log lines.  *)
(***************************************************************************)
EXTENDS FiniteSets

CONSTANTS Absent, Unreadable

Phases == {"request", "body", "response"}

DefaultRule == [request |-> "allow", body |-> "allow_body", response |-> "allow_response"]

ImplicitPackage == ""

(* Mutant: unknown members are ignored.                                    *)
MutantShapeAny(doc) == TRUE

(* shapeOf: targets beside a bare policy would be ignored, so they refuse. *)
ShapeOK(doc) == doc.wrapped \/ doc.targets = Absent

(* ruleExists                                                              *)
RuleExists(doc, package, rule) ==
  \E r \in doc.rules : r.package = package /\ r.name = rule

(* One entry of the targets block: the checks of build's loop.             *)
PackageOf(e) == IF e.package = Absent THEN ImplicitPackage ELSE e.package

EntryOK(doc, e) ==
  /\ e.phase \in Phases
  /\ e.rule \notin {Absent, Unreadable}
  /\ e.package # Unreadable
  /\ e.on_deny \in {Absent, "deny", "log"}
  /\ RuleExists(doc, PackageOf(e), e.rule)

Target(package, rule, enforce) ==
  [package |-> package, rule |-> rule, enforce |-> enforce]

(* Enforcing unless the entry says "log".                                  *)
TargetOf(e) == Target(PackageOf(e), e.rule, e.on_deny # "log")

ListedTargets(doc, phase) == {TargetOf(e) : e \in {x \in doc.targets : x.phase = phase}}

(* Mutant: a request list of audit targets only is accepted.               *)
MutantListedUnguarded(doc) ==
  doc.targets # Unreadable /\ \A e \in doc.targets : EntryOK(doc, e)

ListedOK(doc) ==
  /\ doc.targets # Unreadable
  /\ \A e \in doc.targets : EntryOK(doc, e)
  /\ \E t \in ListedTargets(doc, "request") : t.enforce

(* defaults and defaultPhase: one enforcing rule per phase in the implicit *)
(* package; the request rule need not exist.  A phase rule that only other *)
(* packages define would never fire, so it refuses.                        *)
DefaultTargets(doc, phase) ==
  IF phase = "request" \/ RuleExists(doc, ImplicitPackage, DefaultRule[phase])
    THEN {Target(ImplicitPackage, DefaultRule[phase], TRUE)}
    ELSE {}

(* Mutant: a phase rule outside the implicit package is left alone.        *)
MutantDefaultsAny(doc) == TRUE

DefaultsOK(doc) ==
  \A phase \in {"body", "response"} :
    (\E r \in doc.rules : r.name = DefaultRule[phase])
      => RuleExists(doc, ImplicitPackage, DefaultRule[phase])

(* build: whether the document is accepted, and the targets of a phase.    *)
BuildOK(doc) == IF doc.targets = Absent THEN DefaultsOK(doc) ELSE ListedOK(doc)

Build(doc, phase) ==
  IF doc.targets = Absent THEN DefaultTargets(doc, phase) ELSE ListedTargets(doc, phase)

-----------------------------------------------------------------------------
(* body_deps: how much of the body a set of classes needs.                 *)
Classes == {"no_body_refs", "prefix_only", "full_tree"}

Join(classes) ==
  IF "full_tree" \in classes THEN "full_tree"
  ELSE IF "prefix_only" \in classes THEN "prefix_only" ELSE "no_body_refs"

(* analyzeTarget: every rule of that name in that package.                 *)
AnalyzeTarget(doc, t) ==
  Join({r.reads : r \in {x \in doc.rules : x.package = t.package /\ x.name = t.rule}})
=============================================================================
