------------------------------ MODULE BodyDeps ------------------------------
(***************************************************************************)
(* The static analysis of body_deps.zig: how much of the request body a    *)
(* rule can read.  The shim refuses an oversized body unless the class of  *)
(* its body rules is no_body_refs (ProxyWasm.tla).                         *)
(***************************************************************************)
EXTENDS Ast

(* Mutant: bare input classified as touching nothing.                      *)
MutantClassifyBareInput(path) ==
  LET p == IF path # << >> /\ IsKey(path[1], InputKey) THEN Tail(path) ELSE path
  IN  IF p = << >> THEN "none"
      ELSE CASE IsKey(p[1], BodyRawKey) -> "whole"
             [] IsKey(p[1], BodyKey) -> IF Len(p) = 1 THEN "whole" ELSE "prefix"
             [] OTHER -> "none"

(* Mutant: the raw body, beside the parsed one, is not looked for.         *)
MutantClassifyRaw(path) ==
  LET named == path # << >> /\ IsKey(path[1], InputKey)
      p == IF named THEN Tail(path) ELSE path
  IN  IF p = << >> THEN IF named THEN "whole" ELSE "none"
      ELSE IF IsKey(p[1], BodyKey) THEN IF Len(p) = 1 THEN "whole" ELSE "prefix"
      ELSE "none"

(* classifyRef: none, a sub-path of the body, or the whole of it.          *)
ClassifyRef(path) ==
  LET named == path # << >> /\ IsKey(path[1], InputKey)
      p == IF named THEN Tail(path) ELSE path
  IN  IF p = << >> THEN IF named THEN "whole" ELSE "none"
      ELSE CASE IsKey(p[1], BodyRawKey) -> "whole"
             [] IsKey(p[1], BodyKey) -> IF Len(p) = 1 THEN "whole" ELSE "prefix"
             [] OTHER -> "none"

(* A ref that is scanned as a collection is needed in full.                *)
Scanned(source) ==
  IF source.type = "ref" /\ ClassifyRef(source.path) # "none" THEN {<<"whole", source.path>>} ELSE {}

(* What one node tells of the body, whichever node it is under: a ref      *)
(* touches its path, and a collection is touched as a whole.               *)
Touches(e) ==
  CASE e.type = "ref" -> {<<ClassifyRef(e.path), e.path>>}
    [] e.type = "in" -> Scanned(e.right)
    [] e.type \in Iterations -> Scanned(e.source)
    [] OTHER -> {}

(* visit: how the refs of an expression touch the body, with the refs that *)
(* it counts; it goes down to every part of the expression.                *)
Visit(e) == UNION {Touches(n) : n \in Parts[e]}

VisitRule(stmts, answer) ==
  (UNION {Visit(stmts[i]) : i \in DOMAIN stmts}) \cup (IF answer = NoValue THEN {} ELSE Visit(answer))

(* analyzeTarget and finalize, for one rule of the target's name.          *)
Class(stmts, answer) ==
  LET touched == {t[1] : t \in VisitRule(stmts, answer)}
  IN  CASE "whole" \in touched -> "full_tree"
        [] touched \subseteq {"none"} -> "no_body_refs"
        [] OTHER -> "prefix_only"
=============================================================================
