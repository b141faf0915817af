---------------------------- MODULE MCEvaluator ----------------------------
(***************************************************************************)
(* Policies of at most two statements over a small grammar, and inputs     *)
(* that have, lack or mistype what they read.  Names are single codes.     *)
(***************************************************************************)
EXTENDS Evaluator

MCInputKey == <<0>>
MCBodyKey == <<1>>
MCBodyRawKey == <<2>>
X == <<3>>
V == <<4>>
A == <<5>>

InputRef(path) == Ref(<<Key(MCInputKey)>> \o path)
XRef == InputRef(<<Key(X)>>)
VRef == Ref(<<Key(V)>>)
BodyRef == Ref(<<Key(MCBodyKey)>>)
AmountRef == InputRef(<<Key(MCBodyKey), Key(A)>>)
RawRef == InputRef(<<Key(MCBodyRawKey)>>)

One == Lit(Number(1))
NullLit == Lit(Null)
Text == Lit(String(<<5>>))
Count(e) == Call("count", <<e>>)
StartsWith(e) == Call("startswith", <<e, Text>>)

-----------------------------------------------------------------------------
(* The grammar: operands, conditions over them, and statements.            *)
Operands == {One, NullLit, XRef, VRef, AmountRef, Count(XRef)}

Conditions ==
  {XRef, VRef, AmountRef, NullLit, InputRef(<<Key(X), Index(0)>>)}
    \cup {Compare(op, l, r) : op \in {"eq", "neq", "lt"}, l \in Operands, r \in {One, XRef, VRef}}
    \cup {In(l, r) : l \in {NullLit, VRef, AmountRef}, r \in {XRef, BodyRef, VRef}}
    \cup {StartsWith(e) : e \in {XRef, VRef, RawRef}}

(* Nested enough to reach the cap, or to nest one undefined term in        *)
(* another.                                                                *)
Nested ==
  {Not(Not(e)) : e \in {XRef, StartsWith(XRef), Compare("neq", XRef, One), In(NullLit, XRef)}}
    \cup {Compare("eq", Not(e), Lit(Boolean(b))) : e \in {XRef, StartsWith(XRef)}, b \in BOOLEAN}
    \cup {Not(Compare("eq", Compare("lt", XRef, One), Lit(Boolean(FALSE)))),
          Not(StartsWith(Count(XRef))), Not(Not(Not(Not(XRef)))), Not(Compare("eq", Count(XRef), One)),
          Compare("lt", XRef, XRef)}

Loop(type, kind, source, stmts) == Iteration(type, V, kind, source, stmts, TRUE)

Loops ==
  {Loop(type, kind, source, <<c>>) :
     type \in Iterations, kind \in {"keys", "values"},
     source \in {XRef, BodyRef, InputRef(<< >>)},
     c \in {VRef, Compare("eq", VRef, One), Compare("neq", VRef, NullLit), Not(VRef), StartsWith(VRef)}}
    \cup {Loop(type, "values", XRef, <<Assign(A, VRef), Not(Compare("eq", Ref(<<Key(A)>>), One))>>) :
            type \in Iterations}
    \cup {Loop("some", "keys", XRef, <<Loop("every", "keys", XRef, <<Compare("eq", VRef, One)>>)>>)}

(* Nodes that a policy may not, or need not, be able to run.               *)
Odd ==
  {Loop("every", "keys", XRef, << >>), Loop("some", "keys", XRef, << >>),
   Loop("some", "keys", XRef, <<Assign(V, One)>>),
   Iteration("some", V, "keys", XRef, <<Assign(A, One)>>, FALSE),
   Not(Assign(V, One)), Loop("some", "keys", XRef, <<Not(Assign(A, One))>>), Loop("every", "keys", XRef, <<Not(Assign(A, One))>>),
   Call("lower", <<XRef>>), Call("count", <<XRef, One>>), Ref(<< >>),
   Ref(<<Index(-1)>>), Lit(Boolean(TRUE))}

Assignments ==
  {Assign(V, e) : e \in {One, NullLit, XRef, BodyRef, AmountRef, Count(XRef), StartsWith(XRef),
                         Compare("neq", XRef, One), InputRef(<< >>), Not(XRef)}}

MCStatements ==
  Conditions \cup {Not(c) : c \in Conditions} \cup Nested
    \cup Loops \cup {Not(l) : l \in Loops} \cup Odd \cup Assignments

(* A second statement follows a binding, or a condition that may fail.     *)
MCOpenings == Assignments \cup {XRef, Loop("some", "keys", XRef, <<Not(Assign(A, One))>>)}

MCRuleValues == {AmountRef}

-----------------------------------------------------------------------------
(* The documents: the member x, and a body in full and raw.                *)
XValues == {Null, Number(1), Number(2), Boolean(FALSE), String(<<5, 5>>),
            Array(<< >>), Array(<<Number(1), Null>>),
            Object(<<Member(A, Number(1)), Member(X, Null)>>)}

Document(members) == Object(members)

MCInputs ==
  {Document(<< >>)}
    \cup {Document(<<Member(X, v)>>) : v \in XValues}
    \cup {Document(<<Member(X, Number(1)), Member(MCBodyKey, b), Member(MCBodyRawKey, String(<<5>>))>>) :
            b \in {Null, Number(1), Object(<<Member(A, Number(1))>>),
                   Object(<<Member(A, Number(1)), Member(X, Null)>>)}}
    \cup {Document(<<Member(MCBodyKey, Array(<<Number(1)>>)), Member(MCBodyRawKey, String(<<3>>))>>),
          Document(<<Member(X, Number(1)), Member(MCBodyKey, Object(<<Member(A, Number(1))>>)),
                     Member(MCBodyRawKey, String(<<3>>))>>)}

-----------------------------------------------------------------------------
(* The nodes the statements are made of, nested five deep at most, and how *)
(* deep each is nested.  TLC evaluates a definition without parameters     *)
(* once, and one that replaces a constant each time: the latter only names *)
(* the former.                                                             *)
NestedTo[n \in 0 .. 5] ==
  IF n = 0 THEN MCStatements \cup MCRuleValues
  ELSE UNION {{e} \cup Children(e) : e \in NestedTo[n - 1]}

NestedNodes == {e \in NestedTo[5] : e # NoValue}

MCNodes == NestedNodes

Depths[e \in NestedNodes] ==
  1 + (CHOOSE n \in {0} \cup {Depths[c] : c \in Children(e)} :
         \A c \in Children(e) : Depths[c] <= n)

MCHeight(e) == Depths[e]

(* The values of the literals, and those in an input with all their       *)
(* parts; the numbers are those that count makes of them as well.          *)
PartsOfValue(v) ==
  CASE Kind(v) = "array" -> {Content(v)[i] : i \in DOMAIN Content(v)}
    [] Kind(v) = "object" ->
         UNION {{Content(v)[i].value, String(Content(v)[i].key)} : i \in DOMAIN Content(v)}
    [] OTHER -> {}

ReadTo[n \in 0 .. 3] ==
  IF n = 0 THEN MCInputs ELSE UNION {{v} \cup PartsOfValue(v) : v \in ReadTo[n - 1]}

OccurringValues ==
  LET made == {Null, Boolean(TRUE), Boolean(FALSE), String(<<5>>)} \cup {Number(n) : n \in 0 .. 3}
  IN  {v \in made \cup ReadTo[3] : v # Undefined}

MCJsonValues == OccurringValues
=============================================================================
