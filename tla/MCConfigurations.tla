-------------------------- MODULE MCConfigurations --------------------------
(* Every configuration of a small space, each loaded once into a fresh VM  *)
(* that then sees one request.                                             *)
EXTENDS ProxyWasm

Rules ==
  {[package |-> p, name |-> n, reads |-> "no_body_refs"] :
     p \in {"", "authz"}, n \in {"allow", "allow_body"}}

Entries ==
  [phase : {"request", "body", "trailers", Absent},
   package : {Absent, "authz", Unreadable},
   rule : {"allow", "allow_body"},
   on_deny : {Absent, "log", "warn"}]

TargetBlocks ==
  {Absent, Unreadable} \cup {{e, f} : e \in Entries, f \in Entries} \cup {{}}

AllDocuments ==
  [builds : {TRUE}, wrapped : BOOLEAN, rules : SUBSET Rules, targets : TargetBlocks]
    \cup [builds : {FALSE}, wrapped : BOOLEAN, rules : {{}}, targets : {Absent}]

ConfigureOnce ==
  \/ plugin = Unconfigured /\ Configure
  \/ \E s \in Streams : RequestHeaders(s)

ConfigurationSpec == Init /\ [][ConfigureOnce]_vars
=============================================================================
