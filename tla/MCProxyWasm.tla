---------------------------- MODULE MCProxyWasm ----------------------------
(* Configurations for ProxyWasm: the two shapes, the default phases, and   *)
(* targets blocks that enforce, audit, or must be refused.                 *)
EXTENDS ProxyWasm

Rule(package, name, reads) == [package |-> package, name |-> name, reads |-> reads]

Entry(phase, package, rule, on_deny) ==
  [phase |-> phase, package |-> package, rule |-> rule, on_deny |-> on_deny]

Bare(rules) == [builds |-> TRUE, wrapped |-> FALSE, rules |-> rules, targets |-> Absent]

Wrapped(rules, targets) ==
  [builds |-> TRUE, wrapped |-> TRUE, rules |-> rules, targets |-> targets]

Allow == Rule("", "allow", "no_body_refs")

(* One rule per phase, the body rule reading part of the body.             *)
AllPhases ==
  Bare({Allow, Rule("", "allow_body", "prefix_only"),
        Rule("", "allow_response", "no_body_refs")})

(* Only `allow`: body and response are not looked at.                      *)
HeadersOnly == Bare({Allow})

(* An enforcing body rule in a package of its own reads the body, another  *)
(* does not, and an audit rule rides along.                                *)
TwoBodyRules ==
  Wrapped({Allow, Rule("", "allow_body", "no_body_refs"), Rule("dlp", "clean", "full_tree")},
          {Entry("request", Absent, "allow", Absent),
           Entry("body", Absent, "allow_body", "deny"),
           Entry("body", "dlp", "clean", "deny")})

(* The body and response phases are only audited.                          *)
AuditOnly ==
  Wrapped({Allow, Rule("audit", "ok", "full_tree")},
          {Entry("request", Absent, "allow", "deny"),
           Entry("body", "audit", "ok", "log"),
           Entry("response", "audit", "ok", "log")})

(* An enforcing body rule that reads nothing beside an audit rule that     *)
(* reads everything: oversized bodies go to evaluation.                    *)
AuditedBody ==
  Wrapped({Allow, Rule("", "allow_body", "no_body_refs"), Rule("audit", "ok", "full_tree")},
          {Entry("request", Absent, "allow", "deny"),
           Entry("body", Absent, "allow_body", Absent),
           Entry("body", "audit", "ok", "log")})

(* Refused: a target list that would leave the request phase unguarded.    *)
Unguarded ==
  Wrapped({Allow}, {Entry("request", Absent, "allow", "log")})

(* Configurations the streams run under.                                   *)
StreamDocuments == {AllPhases, HeadersOnly, TwoBodyRules, AuditOnly, AuditedBody, Unguarded}
=============================================================================
