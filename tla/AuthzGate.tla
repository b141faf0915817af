----------------------------- MODULE AuthzGate -----------------------------
(***************************************************************************)
(* What an operator of the proxy-wasm filter may rely on, read off the     *)
(* configuration document alone: a phase the policy in force covers passes *)
(* exactly when its input could be read, its body is not too large for the *)
(* rules that read it, and every enforcing rule of the phase allowed.      *)
(* Nothing passes the request phase before a policy is in force.           *)
(***************************************************************************)
EXTENDS Integers

CONSTANTS
  Streams,
  Documents,
  Absent,      \* a field or block the document does not have
  NoPolicy,    \* no configuration was ever accepted
  MaxBody      \* max_body_bytes

VARIABLES
  policy,      \* the document in force
  outcome      \* the last phase decided, on which stream, and how

gateVars == <<policy, outcome>>

PhaseRule(phase) ==
  CASE phase = "request" -> "allow"
    [] phase = "body" -> "allow_body"
    [] phase = "response" -> "allow_response"

Implicit == ""   \* the package of a rule that names none

Defines(d, package, rule) ==
  \E r \in d.rules : r.package = package /\ r.name = rule

(* The rules a phase evaluates, as <<package, rule>>.                      *)
Named(e) == <<IF e.package = Absent THEN Implicit ELSE e.package, e.rule>>

Evaluated(d, phase) ==
  IF d.targets # Absent
    THEN {Named(e) : e \in {x \in d.targets : x.phase = phase}}
    ELSE {r \in {<<Implicit, PhaseRule(phase)>>} : phase = "request" \/ Defines(d, r[1], r[2])}

(* ... and the ones among them that can block.                             *)
Enforced(d, phase) ==
  IF d.targets # Absent
    THEN {Named(e) : e \in {x \in d.targets : x.phase = phase /\ x.on_deny # "log"}}
    ELSE Evaluated(d, phase)

Covers(d, phase) ==
  IF d = NoPolicy THEN phase = "request" ELSE Evaluated(d, phase) # {}

ReadsBody(d, rule) ==
  \E r \in d.rules : /\ r.package = rule[1] /\ r.name = rule[2]
                     /\ r.reads # "no_body_refs"

(* A document that can be in force: it builds, none of its targets is      *)
(* ignored, and something guards the request phase.                        *)
Coherent(d) ==
  /\ d.builds
  /\ d.targets # Absent => d.wrapped
  /\ \A phase \in {"request", "body", "response"} : \A rule \in Enforced(d, phase) :
       Defines(d, rule[1], rule[2]) \/ rule = <<Implicit, "allow">>
  /\ Enforced(d, "request") # {}

Unread == {"header_map", "body_bytes", "input"}

(* Whether a phase the policy covers lets the stream through.              *)
Permits(d, o) ==
  /\ d # NoPolicy
  /\ o.fault \notin Unread
  /\ o.size > MaxBody => \A rule \in Enforced(d, "body") : ~ReadsBody(d, rule)
  /\ \A rule \in Enforced(d, o.phase) : o.verdicts[rule] = "allow"

GateInit == policy = NoPolicy /\ outcome.phase = "none"

Load ==
  /\ policy' \in Documents
  /\ Coherent(policy')
  /\ UNCHANGED outcome

Decide(s) ==
  /\ outcome'.stream = s
  /\ outcome'.passed <=> (Covers(policy, outcome'.phase) => Permits(policy, outcome'))
  /\ UNCHANGED policy

GateNext ==
  \/ Load
  \/ \E s \in Streams : Decide(s)

GateSpec == GateInit /\ [][GateNext]_gateVars
=============================================================================
