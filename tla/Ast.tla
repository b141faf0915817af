-------------------------------- MODULE Ast --------------------------------
(***************************************************************************)
(* The policy AST of ast.zig and what buildExpr and buildRule accept.  A   *)
(* node is a record whose type selects its other fields; an expression     *)
(* the program holds is a node that BuildExprOK accepts.                   *)
(***************************************************************************)
EXTENDS Values

CONSTANTS
  InputKey,     \* the key "input"
  BodyKey,      \* the key "body"
  BodyRawKey,   \* the key "body_raw"
  Nodes,        \* the expressions there are
  Height(_)     \* how deep an expression is nested

ASSUME KeysAssumption ==
  /\ {InputKey, BodyKey, BodyRawKey} \subseteq Strings
  /\ InputKey \notin {BodyKey, BodyRawKey} /\ BodyKey # BodyRawKey

Lit(v) == [type |-> "value", value |-> v]
Ref(path) == [type |-> "ref", path |-> path]
Compare(op, left, right) == [type |-> "compare", op |-> op, left |-> left, right |-> right]
In(left, right) == [type |-> "in", left |-> left, right |-> right]
Not(expr) == [type |-> "not", expr |-> expr]
Call(name, args) == [type |-> "call", name |-> name, args |-> args]
Assign(var, e) == [type |-> "assign", var |-> var, value |-> e]

(* some and every; list tells a statement list from the single-expression  *)
(* form of the body.                                                       *)
Iteration(type, var, kind, source, stmts, list) ==
  [type |-> type, var |-> var, kind |-> kind, source |-> source, body |-> stmts, list |-> list]

(* The steps of a ref path.                                                *)
Key(k) == <<"key", k>>
Index(i) == <<"index", i>>
IsKey(segment, name) == segment = Key(name)

Iterations == {"some", "every"}

Segments == ({"key"} \X Strings) \cup ({"index"} \X Nat)

(* The expressions right under an expression.                              *)
Children(e) ==
  CASE e.type \in {"value", "ref"} -> {}
    [] e.type \in {"compare", "in"} -> {e.left, e.right}
    [] e.type = "not" -> {e.expr}
    [] e.type = "assign" -> {e.value}
    [] e.type = "call" -> {e.args[i] : i \in DOMAIN e.args}
    [] e.type \in Iterations -> {e.source} \cup {e.body[i] : i \in DOMAIN e.body}

(* The fields of a node are of the type its kind gives them, and a tree of *)
(* nodes is finite.                                                        *)
NodeOK(e) ==
  /\ e.type \in {"value", "ref", "compare", "in", "not", "assign", "call"} \cup Iterations
  /\ e.type = "value" => e.value \in JsonValues
  /\ e.type = "ref" => e.path \in Seq(({"key"} \X Strings) \cup ({"index"} \X Int))
  /\ e.type = "compare" => e.op \in {"eq", "neq", "lt", "lte", "gt", "gte"}
  /\ e.type = "assign" => e.var \in Strings
  /\ e.type = "call" => e.args \in Seq(Nodes)
  /\ e.type \in Iterations =>
       e.var \in Strings /\ e.kind \in {"keys", "values"} /\ e.body \in Seq(Nodes)
  /\ Height(e) \in Nat
  /\ \A c \in Children(e) : c \in Nodes /\ Height(c) < Height(e)

ASSUME NodesAssumption == \A e \in Nodes : NodeOK(e)

(* An expression with all that is nested in it.                            *)
PartsBy(parts, e) == {e} \cup UNION {parts[c] : c \in Children(e)}

Parts[e \in Nodes] == PartsBy(Parts, e)

(* A rule with no value answers true.                                      *)
NoValue == [type |-> "none"]

-----------------------------------------------------------------------------
(* walkValue: one segment from a value, and a path of them.                *)
Step(v, segment) ==
  CASE segment[1] = "key" /\ Kind(v) = "object" -> LookupMember(Content(v), segment[2])
    [] segment[1] = "index" /\ Kind(v) = "array" /\ segment[2] < Len(Content(v)) ->
         Content(v)[segment[2] + 1]
    [] OTHER -> Undefined

WalkBy(walk, v, path) ==
  IF path = << >> \/ v = Undefined THEN v ELSE walk[<<Step(v, Head(path)), Tail(path)>>]

Walk[c \in (JsonValues \cup {Undefined}) \X Seq(Segments)] == WalkBy(Walk, c[1], c[2])

(* Scope: the frames an expression is evaluated in, innermost first.       *)
Frame(var, v) == [name |-> var, bound |-> v]

Envs == [input : JsonValues, scope : Seq([name : Strings, bound : JsonValues])]

Push(env, var, v) == [env EXCEPT !.scope = <<Frame(var, v)>> \o env.scope]

-----------------------------------------------------------------------------
(* Building: what policy_compile accepts.                                  *)

(* The first of some positions, and the assignments of a statement list    *)
(* from a position on.                                                     *)
First(positions) == CHOOSE i \in positions : \A j \in positions : i <= j

Bindings(stmts, from) == {i \in from .. Len(stmts) : stmts[i].type = "assign"}

(* rejectReassignment: one binding per name in a statement list.           *)
SingleAssignment(stmts) ==
  \A i, j \in DOMAIN stmts :
    stmts[i].type = "assign" /\ stmts[j].type = "assign" /\ stmts[i].var = stmts[j].var => i = j

(* The body of some or every, before its statements are built.             *)
IterationBodyOK(it) ==
  IF it.list
  THEN /\ it.type = "every" => it.body # << >>
       /\ SingleAssignment(it.body)
       /\ \A i \in DOMAIN it.body : it.body[i].type = "assign" => it.body[i].var # it.var
  ELSE it.body[1].type # "assign"

SegmentOK(segment) == segment[1] = "index" => segment[2] >= 0

(* What buildExpr checks at each node of the tree.                         *)
BuildNodeOK(e) ==
  CASE e.type = "ref" -> \A i \in DOMAIN e.path : SegmentOK(e.path[i])
    [] e.type = "assign" -> e.var # << >>
    [] e.type = "call" -> e.name \in DOMAIN Arity /\ Len(e.args) = Arity[e.name]
    [] e.type \in Iterations -> IterationBodyOK(e)
    [] OTHER -> TRUE

BuildExprOK(e) == \A n \in Parts[e] : BuildNodeOK(n)

(* The expressions that a policy the program holds is made of.             *)
Built == {e \in Nodes : BuildExprOK(e)}

(* buildRule.                                                              *)
BuildRuleOK(stmts, answer) ==
  /\ \A i \in DOMAIN stmts : BuildExprOK(stmts[i])
  /\ SingleAssignment(stmts)
  /\ answer # NoValue => BuildExprOK(answer)
=============================================================================
