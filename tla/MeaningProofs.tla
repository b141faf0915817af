---------------------------- MODULE MeaningProofs ----------------------------
(***************************************************************************)
(* The evaluator decides what a policy means, for any expressions, values  *)
(* and documents and any cap. First the meanings: Holding and Meaning have *)
(* the values they are written to have. Then, level by level from the cap, *)
(* each helper yields an error or what RegoMeaning says of its node        *)
(* (MeansLevel): the value for an operand, null for undefined where the    *)
(* helper folds the two, and for a negation nothing when a term that OPA   *)
(* lifts out of it is undefined. A decision is an answer without an error. *)
(***************************************************************************)
EXTENDS EvaluatorProofs

-----------------------------------------------------------------------------
(* The meaning of a body from each statement on, and the meaning of every  *)
(* expression, have the values they are written to have.                   *)
Contexts == Envs \X BOOLEAN

Rest(rest, meaning, stmts, from) ==
  {c \in Contexts : RestHolds(rest, meaning, stmts, from, c[1], c[2])}

(* What follows a binding is a later position.                             *)
LEMMA NextPosition ==
  ASSUME NEW stmts \in Seq(Nodes), NEW from \in 1 .. Len(stmts) + 1, Bindings(stmts, from) # {}
  PROVE  LET next == First(Bindings(stmts, from))
         IN  next \in from .. Len(stmts) /\ next + 1 \in 1 .. Len(stmts) + 1 /\ next + 1 > from
<1> DEFINE next == First(Bindings(stmts, from))
<1>1. Len(stmts) \in Nat /\ from \in Nat
  OBVIOUS
<1>2. Bindings(stmts, from) \in SUBSET (from .. Len(stmts)) /\ Bindings(stmts, from) \in SUBSET Nat
  BY <1>1 DEF Bindings
<1>3. next \in from .. Len(stmts)
  BY <1>2, FirstPosition
<1> HIDE DEF next
<1> QED BY <1>1, <1>3 DEF next

LEMMA HoldingUnfolded ==
  ASSUME NEW meaning, NEW stmts \in Seq(Nodes)
  PROVE  Holding(meaning, stmts) =
           [from \in 1 .. Len(stmts) + 1 |-> Rest(Holding(meaning, stmts), meaning, stmts, from)]
<1> DEFINE S == 1 .. Len(stmts) + 1
           X == SUBSET Contexts
           step == [p \in [S -> X] \X S |-> Rest(p[1], meaning, stmts, p[2])]
           left == [from \in S |-> Len(stmts) + 1 - from]
<1>0. Len(stmts) \in Nat
  OBVIOUS
<1>1. step \in [[S -> X] \X S -> X]
  BY DEF Rest
<1>2. ASSUME NEW f \in [S -> X], NEW from \in S PROVE step[<<f, from>>] = Rest(f, meaning, stmts, from)
  OBVIOUS
<1>3. left \in [S -> Nat] /\ \A from \in S : left[from] = Len(stmts) + 1 - from
  BY <1>0
<1>7. X # {}
  OBVIOUS
<1> HIDE DEF step, left, X
<1>4. ASSUME NEW from \in S, NEW f \in [S -> X], NEW g \in [S -> X],
             \A t \in S : left[t] < left[from] => f[t] = g[t]
      PROVE  Rest(f, meaning, stmts, from) = Rest(g, meaning, stmts, from)
  <2> DEFINE next == First(Bindings(stmts, from))
  <2>1. CASE Bindings(stmts, from) = {}
    BY <2>1 DEF Rest, RestHolds
  <2>2. CASE Bindings(stmts, from) # {}
    <3>1. next + 1 \in S /\ next + 1 > from
      BY <2>2, NextPosition
    <3> HIDE DEF next
    <3>2. f[next + 1] = g[next + 1]
      BY <1>0, <1>3, <1>4, <3>1
    <3> USE DEF next
    <3> HIDE DEF S
    <3> QED BY <3>2 DEF Rest, RestHolds
  <2> QED BY <2>1, <2>2
<1>5. Solutions(step, S, X) # {}
  <2> HIDE DEF S
  <2>1. Local(step, S, X, left)
    BY <1>2, <1>4 DEF Local
  <2> QED BY <1>1, <1>3, <1>7, <2>1, RecursionSolved
<1>6. \E f : f = [from \in S |-> Rest(f, meaning, stmts, from)]
  <2> PICK f \in [S -> X] : \A from \in S : f[from] = step[<<f, from>>]
    BY <1>5 DEF Solutions
  <2> HIDE DEF S
  <2>1. \A from \in S : f[from] = Rest(f, meaning, stmts, from)
    BY <1>2
  <2>2. f = [from \in S |-> Rest(f, meaning, stmts, from)]
    BY <2>1
  <2> QED BY <2>2
<1> QED BY <1>6 DEF Holding, Rest, Contexts

(* The rest of a body by its conditions up to the next binding.            *)
LEMMA RestShape ==
  ASSUME NEW rest, NEW meaning, NEW stmts, NEW from, NEW env, NEW nullHolds
  PROVE  RestHolds(rest, meaning, stmts, from, env, nullHolds) <=>
           LET next == First(Bindings(stmts, from))
               bound == meaning[stmts[next].value][<<env, nullHolds>>]
           IN  /\ \A i \in Conditions(stmts, from) :
                    IsTrue(meaning[stmts[i]][<<env, nullHolds>>], nullHolds)
               /\ Bindings(stmts, from) # {} =>
                    /\ bound # Undefined
                    /\ <<Push(env, stmts[next].var, bound), nullHolds>> \in rest[next + 1]
<1>1. CASE Bindings(stmts, from) = {}
  BY <1>1 DEF RestHolds, Conditions
<1>2. CASE Bindings(stmts, from) # {}
  BY <1>2 DEF RestHolds, Conditions
<1> QED BY <1>1, <1>2

(* A body is read through the meanings of its statements and of what they  *)
(* bind.                                                                   *)
SameOn(f, g, stmts) ==
  \A i \in DOMAIN stmts :
    /\ f[stmts[i]] = g[stmts[i]]
    /\ stmts[i].type = "assign" => f[stmts[i].value] = g[stmts[i].value]

LEMMA HoldingLocal ==
  ASSUME NEW stmts \in Bodies, NEW f, NEW g, SameOn(f, g, stmts)
  PROVE  Holding(f, stmts) = Holding(g, stmts)
<1> DEFINE S == 1 .. Len(stmts) + 1
           hf == Holding(f, stmts)
           hg == Holding(g, stmts)
           left == [from \in S |-> Len(stmts) + 1 - from]
           T == {from \in S : hf[from] = hg[from]}
<1>0. stmts \in Seq(Nodes) /\ Len(stmts) \in Nat
  BY DEF Bodies
<1>1. /\ hf = [from \in S |-> Rest(hf, f, stmts, from)]
      /\ hg = [from \in S |-> Rest(hg, g, stmts, from)]
  BY <1>0, HoldingUnfolded
<1>2. left \in [S -> Nat] /\ \A from \in S : left[from] = Len(stmts) + 1 - from
  BY <1>0
<1> HIDE DEF hf, hg, left
<1>3. ASSUME NEW from \in S, \A t \in S : left[t] < left[from] => t \in T
      PROVE  from \in T
  <2> DEFINE next == First(Bindings(stmts, from))
  <2>1. from \in Nat \ {0}
    BY <1>0
  <2>2. \A i \in Conditions(stmts, from) : f[stmts[i]] = g[stmts[i]]
    BY <2>1, BodyShape DEF SameOn
  <2>3. Bindings(stmts, from) # {} =>
          f[stmts[next].value] = g[stmts[next].value] /\ hf[next + 1] = hg[next + 1]
    <3> HAVE Bindings(stmts, from) # {}
    <3>1. f[stmts[next].value] = g[stmts[next].value]
      BY <2>1, BodyShape DEF SameOn
    <3>2. next + 1 \in S /\ next + 1 > from
      BY <1>0, NextPosition
    <3> HIDE DEF next
    <3>3. left[next + 1] < left[from]
      BY <1>0, <1>2, <3>2
    <3> QED BY <1>3, <3>1, <3>2, <3>3
  <2>4. ASSUME NEW env, NEW nullHolds
        PROVE  RestHolds(hf, f, stmts, from, env, nullHolds) <=> RestHolds(hg, g, stmts, from, env, nullHolds)
    <3> HIDE DEF S, T
    <3> QED BY <2>2, <2>3, RestShape
  <2>5. Rest(hf, f, stmts, from) = Rest(hg, g, stmts, from)
    BY <2>4 DEF Rest
  <2>6. hf[from] = hg[from]
    BY <1>1, <2>5
  <2> QED BY <2>6
<1>4. S \subseteq T
  <2> HIDE DEF S, T
  <2> QED BY <1>2, <1>3, ByHeight
<1>5. \A from \in S : hf[from] = hg[from]
  BY <1>4
<1>6. hf = hg
  BY <1>1, <1>5
<1> QED BY <1>6 DEF hf, hg

(* The meaning of a ref is what the evaluator resolves it to.              *)
LEMMA RefMeans ==
  ASSUME NEW path, NEW env
  PROVE  RefMeaning(path, env) = ResolveRef(path, env)
BY DEF RefMeaning, ResolveRef, IsKey, First

LEMMA RelatesBoolean ==
  ASSUME NEW op \in {"eq", "neq", "lt", "lte", "gt", "gte"}, NEW a, NEW b
  PROVE  Relates(op, a, b) \in BOOLEAN
<1> DEFINE equals == ValueEquals(a, b)
           order == ValueCompare(a, b)
<1>1. equals \in BOOLEAN
  BY EqualIsBoolean
<1>2. /\ op = "eq" => Relates(op, a, b) = equals
      /\ op = "neq" => Relates(op, a, b) = ~equals
      /\ op = "lt" => Relates(op, a, b) = (order < 0)
      /\ op = "lte" => Relates(op, a, b) = (order <= 0)
      /\ op = "gt" => Relates(op, a, b) = (order > 0)
      /\ op = "gte" => Relates(op, a, b) = (order >= 0)
  BY DEF Relates
<1>3. /\ (~equals) \in BOOLEAN /\ (order < 0) \in BOOLEAN /\ (order <= 0) \in BOOLEAN
      /\ (order > 0) \in BOOLEAN /\ (order >= 0) \in BOOLEAN
  OBVIOUS
<1> HIDE DEF equals, order
<1> QED BY <1>1, <1>2, <1>3

LEMMA ElementsOfItems ==
  ASSUME NEW v \in JsonValues, NEW kind
  PROVE  /\ IsCollection(v) <=> HasItems(v)
         /\ HasItems(v) => Elements(v, kind) = {ItemsOf(v, kind)[i] : i \in DOMAIN ItemsOf(v, kind)}
         /\ HasItems(v) => Elements(v, kind) \subseteq JsonValues
<1>1. IsCollection(v) <=> HasItems(v)
  BY AnswerSets DEF IsCollection, HasItems
<1>2. Elements(v, kind) = {ItemsOf(v, kind)[i] : i \in DOMAIN ItemsOf(v, kind)}
  <2>1. CASE Kind(v) = "object"
    BY <2>1 DEF Elements, ItemsOf
  <2>2. CASE Kind(v) # "object"
    BY <2>2 DEF Elements, ItemsOf
  <2> QED BY <2>1, <2>2
<1>3. HasItems(v) => \A i \in DOMAIN ItemsOf(v, kind) : ItemsOf(v, kind)[i] \in JsonValues
  BY ItemsAreValues
<1> QED BY <1>1, <1>2, <1>3

-----------------------------------------------------------------------------
(* The meaning of an expression, by its type.                              *)
MeaningOf(f, x, env, nullHolds) == f[x][<<env, nullHolds>>]

ArgumentMeanings(f, e, env, nullHolds) ==
  [i \in DOMAIN e.args |-> MeaningOf(f, e.args[i], env, nullHolds)]

Found(needle, v) ==
  IsCollection(v) /\ \E x \in Elements(v, "values") : ValueEquals(needle, x)

HeldByItems(f, e, env, nullHolds) ==
  LET HoldsOn(v) == BodyHolds(f, e.body, Push(env, e.var, v), nullHolds)
      elements == Elements(MeaningOf(f, e.source, env, nullHolds), e.kind)
  IN  IF e.type = "some" THEN \E v \in elements : HoldsOn(v) ELSE \A v \in elements : HoldsOn(v)

LEMMA MeaningShape ==
  ASSUME NEW f, NEW e, NEW env, NEW nullHolds
  PROVE  LET Of(x) == MeaningOf(f, x, env, nullHolds)
             args == ArgumentMeanings(f, e, env, nullHolds)
             whole == MeaningBy(f, e, env, nullHolds)
         IN  /\ e.type = "value" => whole = e.value
             /\ e.type = "ref" => whole = ResolveRef(e.path, env)
             /\ e.type = "assign" => whole = Undefined
             /\ e.type = "compare" =>
                  whole = IF Of(e.left) = Undefined \/ Of(e.right) = Undefined THEN Undefined
                          ELSE Boolean(Relates(e.op, Of(e.left), Of(e.right)))
             /\ e.type = "in" =>
                  whole = IF Of(e.left) = Undefined \/ Of(e.right) = Undefined THEN Undefined
                          ELSE Boolean(Found(Of(e.left), Of(e.right)))
             /\ e.type = "call" =>
                  whole = IF \E i \in DOMAIN e.args : Of(e.args[i]) = Undefined THEN Undefined
                          ELSE IF Dispatch(e.name, args) = Null THEN Undefined ELSE Dispatch(e.name, args)
             /\ e.type = "not" =>
                  whole = IF \E t \in Lifted[e.expr] : Of(t) = Undefined THEN Undefined
                          ELSE Boolean(~IsTrue(Of(e.expr), nullHolds))
             /\ e.type \in Iterations =>
                  whole = IF ~IsCollection(Of(e.source)) THEN Undefined
                          ELSE Boolean(HeldByItems(f, e, env, nullHolds))
<1> USE DEF MeaningOf
<1>1. ASSUME e.type = "value" PROVE MeaningBy(f, e, env, nullHolds) = e.value
  BY <1>1 DEF MeaningBy, Iterations
<1>2. ASSUME e.type = "ref" PROVE MeaningBy(f, e, env, nullHolds) = ResolveRef(e.path, env)
  <2>1. MeaningBy(f, e, env, nullHolds) = RefMeaning(e.path, env)
    BY <1>2 DEF MeaningBy, Iterations
  <2> QED BY <2>1, RefMeans
<1>3. ASSUME e.type = "assign" PROVE MeaningBy(f, e, env, nullHolds) = Undefined
  BY <1>3 DEF MeaningBy, Iterations
<1>4. ASSUME e.type = "compare"
      PROVE  MeaningBy(f, e, env, nullHolds) =
               IF MeaningOf(f, e.left, env, nullHolds) = Undefined \/ MeaningOf(f, e.right, env, nullHolds) = Undefined
               THEN Undefined
               ELSE Boolean(Relates(e.op, MeaningOf(f, e.left, env, nullHolds), MeaningOf(f, e.right, env, nullHolds)))
  BY <1>4 DEF MeaningBy, Iterations
<1>5. ASSUME e.type = "in"
      PROVE  MeaningBy(f, e, env, nullHolds) =
               IF MeaningOf(f, e.left, env, nullHolds) = Undefined \/ MeaningOf(f, e.right, env, nullHolds) = Undefined
               THEN Undefined
               ELSE Boolean(Found(MeaningOf(f, e.left, env, nullHolds), MeaningOf(f, e.right, env, nullHolds)))
  BY <1>5 DEF MeaningBy, Iterations, Found
<1>6. ASSUME e.type = "call"
      PROVE  MeaningBy(f, e, env, nullHolds) =
               IF \E i \in DOMAIN e.args : MeaningOf(f, e.args[i], env, nullHolds) = Undefined THEN Undefined
               ELSE IF Dispatch(e.name, ArgumentMeanings(f, e, env, nullHolds)) = Null THEN Undefined
               ELSE Dispatch(e.name, ArgumentMeanings(f, e, env, nullHolds))
  BY <1>6 DEF MeaningBy, Iterations, ArgumentMeanings
<1>7. ASSUME e.type = "not"
      PROVE  MeaningBy(f, e, env, nullHolds) =
               IF \E t \in Lifted[e.expr] : MeaningOf(f, t, env, nullHolds) = Undefined THEN Undefined
               ELSE Boolean(~IsTrue(MeaningOf(f, e.expr, env, nullHolds), nullHolds))
  BY <1>7 DEF MeaningBy, Iterations
<1>8. ASSUME e.type \in Iterations
      PROVE  MeaningBy(f, e, env, nullHolds) =
               IF ~IsCollection(MeaningOf(f, e.source, env, nullHolds)) THEN Undefined
               ELSE Boolean(HeldByItems(f, e, env, nullHolds))
  BY <1>8 DEF MeaningBy, Iterations, HeldByItems
<1> HIDE DEF MeaningOf
<1> QED BY <1>1, <1>2, <1>3, <1>4, <1>5, <1>6, <1>7, <1>8

(* It is a value or undefined, and it is made of the meanings of what is   *)
(* of a lower height.                                                      *)
Meanings == [Contexts -> Defined]

LEMMA MeaningByTyped ==
  ASSUME NEW f \in [Built -> Meanings], NEW e \in Built, NEW env \in Envs, NEW nullHolds \in BOOLEAN
  PROVE  MeaningBy(f, e, env, nullHolds) \in Defined
<1> DEFINE whole == MeaningBy(f, e, env, nullHolds)
           Of(x) == MeaningOf(f, x, env, nullHolds)
           args == ArgumentMeanings(f, e, env, nullHolds)
<1> USE DEF Iterations
<1>1. \A x \in Built : Of(x) \in Defined
  BY DEF MeaningOf, Meanings, Contexts
<1>2. \A p \in BOOLEAN : Boolean(p) \in Defined
  BY VerdictOf, AnswerSets DEF Defined
<1>3. Undefined \in Defined
  BY DEF Defined
<1> HIDE DEF Of
<1>4. CASE e.type \in {"value", "ref", "assign"}
  <2>1. CASE e.type = "value"
    BY <2>1, MeaningShape, NodeTypes DEF Defined
  <2>2. CASE e.type = "ref"
    BY <2>2, MeaningShape, NodeTypes, RefDefined
  <2>3. CASE e.type = "assign"
    BY <1>3, <2>3, MeaningShape
  <2> QED BY <1>4, <2>1, <2>2, <2>3
<1>5. CASE e.type = "compare"
  <2>1. e.op \in {"eq", "neq", "lt", "lte", "gt", "gte"}
    BY <1>5, BuiltParts, NodesAssumption DEF NodeOK
  <2>2. whole \in {Undefined, Boolean(Relates(e.op, Of(e.left), Of(e.right)))}
    BY <1>5, MeaningShape DEF Of
  <2>3. Relates(e.op, Of(e.left), Of(e.right)) \in BOOLEAN
    BY <2>1, RelatesBoolean
  <2> QED BY <1>2, <1>3, <2>2, <2>3
<1>6. CASE e.type = "in"
  <2>1. whole \in {Undefined, Boolean(Found(Of(e.left), Of(e.right)))}
    BY <1>6, MeaningShape DEF Of
  <2>2. Found(Of(e.left), Of(e.right)) \in BOOLEAN
    BY DEF Found
  <2> QED BY <1>2, <1>3, <2>1, <2>2
<1>7. CASE e.type = "call"
  <2>1. whole = IF \E i \in DOMAIN e.args : Of(e.args[i]) = Undefined THEN Undefined
                ELSE IF Dispatch(e.name, args) = Null THEN Undefined ELSE Dispatch(e.name, args)
    BY <1>7, MeaningShape DEF Of
  <2>2. CASE \E i \in DOMAIN e.args : Of(e.args[i]) = Undefined
    BY <1>3, <2>1, <2>2
  <2>3. CASE \A i \in DOMAIN e.args : Of(e.args[i]) # Undefined
    <3>1. \A i \in DOMAIN e.args : args[i] = Of(e.args[i])
      BY DEF ArgumentMeanings, Of
    <3>2. \A i \in 1 .. Arity[e.name] : args[i] \in JsonValues
      BY <1>1, <1>7, <2>3, <3>1, ArgumentFields DEF Defined
    <3> HIDE DEF args
    <3>3. Dispatch(e.name, args) \in JsonValues
      BY <1>7, <3>2, ArgumentFields, DispatchTyped
    <3> QED BY <1>3, <2>1, <2>3, <3>3 DEF Defined
  <2> QED BY <2>2, <2>3
<1>8. CASE e.type = "not"
  <2> DEFINE p == ~IsTrue(Of(e.expr), nullHolds)
  <2>1. whole \in {Undefined, Boolean(p)}
    BY <1>8, MeaningShape DEF Of
  <2>2. p \in BOOLEAN
    BY DEF IsTrue
  <2> QED BY <1>2, <1>3, <2>1, <2>2
<1>9. CASE e.type \in {"some", "every"}
  <2>1. whole \in {Undefined, Boolean(HeldByItems(f, e, env, nullHolds))}
    BY <1>9, MeaningShape
  <2>2. HeldByItems(f, e, env, nullHolds) \in BOOLEAN
    BY DEF HeldByItems
  <2> QED BY <1>2, <1>3, <2>1, <2>2
<1> QED BY <1>4, <1>5, <1>6, <1>7, <1>8, <1>9, NodeTypes

LEMMA MeaningByLocal ==
  ASSUME NEW f, NEW g, NEW e \in Built, NEW env, NEW nullHolds,
         \A t \in Built : Height(t) < Height(e) => f[t] = g[t]
  PROVE  MeaningBy(f, e, env, nullHolds) = MeaningBy(g, e, env, nullHolds)
<1> USE DEF Iterations
<1>1. \A c \in Children(e) : c \in Built /\ f[c] = g[c]
  BY BuiltParts
<1>2. \A c \in Children(e) : MeaningOf(f, c, env, nullHolds) = MeaningOf(g, c, env, nullHolds)
  BY <1>1 DEF MeaningOf
<1>3. CASE e.type \in {"value", "ref", "assign"}
  BY <1>3, MeaningShape
<1>4. CASE e.type = "compare"
  BY <1>2, <1>4, MeaningShape, Under, BuiltParts
<1>5. CASE e.type = "in"
  BY <1>2, <1>5, MeaningShape, Under, BuiltParts
<1>6. CASE e.type = "call"
  <2>1. \A i \in DOMAIN e.args : MeaningOf(f, e.args[i], env, nullHolds) = MeaningOf(g, e.args[i], env, nullHolds)
    BY <1>2, <1>6, Under, BuiltParts
  <2>2. ArgumentMeanings(f, e, env, nullHolds) = ArgumentMeanings(g, e, env, nullHolds)
    BY <2>1 DEF ArgumentMeanings
  <2> QED BY <1>6, <2>1, <2>2, MeaningShape
<1>7. CASE e.type = "not"
  <2>1. e.expr \in Children(e) /\ e.expr \in Built /\ Height(e.expr) \in Nat /\ Height(e.expr) < Height(e) /\ Height(e) \in Nat
    BY <1>7, Under, BuiltParts, ChildrenLower
  <2>2. \A t \in Lifted[e.expr] : t \in Built /\ Height(t) \in Nat /\ Height(t) <= Height(e.expr)
    BY <2>1, LiftedAreParts
  <2>3. \A t \in Lifted[e.expr] : MeaningOf(f, t, env, nullHolds) = MeaningOf(g, t, env, nullHolds)
    BY <2>1, <2>2 DEF MeaningOf
  <2> QED BY <1>2, <1>7, <2>1, <2>3, MeaningShape
<1>8. CASE e.type \in {"some", "every"}
  <2>1. e.source \in Children(e) /\ e.body \in Bodies /\ \A i \in DOMAIN e.body : e.body[i] \in Children(e)
    BY <1>8, Under, BuiltParts, IterationFields
  <2>2. ASSUME NEW i \in DOMAIN e.body, e.body[i].type = "assign"
        PROVE  f[e.body[i].value] = g[e.body[i].value]
    <3>1. e.body[i] \in Built /\ Height(e.body[i]) \in Nat /\ Height(e.body[i]) < Height(e) /\ Height(e) \in Nat
      BY <2>1, BuiltParts, ChildrenLower
    <3>2. e.body[i].value \in Children(e.body[i])
      BY <2>2, <3>1, Under, BuiltParts
    <3>3. e.body[i].value \in Built /\ Height(e.body[i].value) \in Nat /\ Height(e.body[i].value) < Height(e.body[i])
      BY <3>1, <3>2, BuiltParts
    <3> QED BY <3>1, <3>3
  <2>3. SameOn(f, g, e.body)
    BY <1>1, <2>1, <2>2 DEF SameOn
  <2>4. Holding(f, e.body) = Holding(g, e.body)
    BY <2>1, <2>3, HoldingLocal
  <2>5. MeaningOf(f, e.source, env, nullHolds) = MeaningOf(g, e.source, env, nullHolds)
    BY <1>2, <2>1
  <2>6. HeldByItems(f, e, env, nullHolds) <=> HeldByItems(g, e, env, nullHolds)
    BY <2>4, <2>5 DEF HeldByItems, BodyHolds
  <2>7. HeldByItems(f, e, env, nullHolds) \in BOOLEAN /\ HeldByItems(g, e, env, nullHolds) \in BOOLEAN
    BY DEF HeldByItems
  <2>8. HeldByItems(f, e, env, nullHolds) = HeldByItems(g, e, env, nullHolds)
    BY <2>6, <2>7
  <2> QED BY <1>8, <2>5, <2>8, MeaningShape
<1> QED BY <1>3, <1>4, <1>5, <1>6, <1>7, <1>8, NodeTypes

LEMMA MeaningUnfolded ==
  /\ \A e \in Built : \A env \in Envs : \A nullHolds \in BOOLEAN :
       Meaning[e][<<env, nullHolds>>] = MeaningBy(Meaning, e, env, nullHolds)
  /\ Meaning \in [Built -> Meanings]
<1> DEFINE X == Meanings
           Value(f, e) == [c \in Contexts |-> MeaningBy(f, e, c[1], c[2])]
           step == [p \in [Built -> X] \X Built |-> Value(p[1], p[2])]
           height == [e \in Built |-> Height(e)]
<1>1. height \in [Built -> Nat] /\ \A e \in Built : height[e] = Height(e)
  BY ChildrenLower, NodeTypes
<1>2. X # {}
  <2>1. [c \in Contexts |-> Undefined] \in X
    BY DEF Meanings, Defined
  <2> QED BY <2>1
<1>3. ASSUME NEW f \in [Built -> X], NEW e \in Built PROVE Value(f, e) \in X
  <2>1. \A c \in Contexts : MeaningBy(f, e, c[1], c[2]) \in Defined
    BY MeaningByTyped DEF Contexts
  <2> QED BY <2>1 DEF Meanings
<1>4. step \in [[Built -> X] \X Built -> X]
  <2> HIDE DEF X, Value
  <2> QED BY <1>3
<1>5. ASSUME NEW f \in [Built -> X], NEW e \in Built PROVE step[<<f, e>>] = Value(f, e)
  <2> HIDE DEF X, Value
  <2> QED OBVIOUS
<1>6. ASSUME NEW e \in Built, NEW f, NEW g, \A t \in Built : height[t] < height[e] => f[t] = g[t]
      PROVE  Value(f, e) = Value(g, e)
  <2>1. \A t \in Built : Height(t) < Height(e) => f[t] = g[t]
    BY <1>1, <1>6
  <2>2. \A c \in Contexts : MeaningBy(f, e, c[1], c[2]) = MeaningBy(g, e, c[1], c[2])
    BY <2>1, MeaningByLocal
  <2> QED BY <2>2
<1> HIDE DEF X, step, height, Value
<1>7. Local(step, Built, X, height)
  BY <1>5, <1>6 DEF Local
<1>8. Solutions(step, Built, X) # {}
  BY <1>1, <1>2, <1>4, <1>7, RecursionSolved
<1>9. \E f : f = [e \in Built |-> Value(f, e)]
  <2> PICK f \in [Built -> X] : \A e \in Built : f[e] = step[<<f, e>>]
    BY <1>8 DEF Solutions
  <2>1. \A e \in Built : f[e] = Value(f, e)
    BY <1>5
  <2>2. f = [e \in Built |-> Value(f, e)]
    BY <2>1
  <2> QED BY <2>2
<1>10. Meaning = [e \in Built |-> Value(Meaning, e)]
  BY <1>9 DEF Meaning, Value, Contexts
<1>11. \A e \in Built : Meaning[e] = Value(Meaning, e)
  BY <1>10
<1>12. Built \subseteq {e \in Built : Meaning[e] \in X}
  <2> DEFINE T == {e \in Built : Meaning[e] \in X}
             known == [e \in Built |-> IF e \in T THEN Meaning[e] ELSE CHOOSE x \in X : TRUE]
  <2>1. known \in [Built -> X]
    BY <1>2
  <2>2. ASSUME NEW e \in Built, \A t \in Built : height[t] < height[e] => t \in T
        PROVE  e \in T
    <3>1. \A t \in Built : height[t] < height[e] => known[t] = Meaning[t]
      BY <2>2
    <3> HIDE DEF known
    <3>2. Value(known, e) = Value(Meaning, e)
      BY <1>6, <3>1
    <3> QED BY <1>3, <1>11, <2>1, <3>2
  <2> HIDE DEF T
  <2>3. Built \subseteq T
    BY <1>1, <2>2, ByHeight
  <2> QED BY <2>3 DEF T
<1>13. Meaning \in [Built -> X]
  <2>1. \A e \in Built : Meaning[e] \in X
    BY <1>12
  <2> QED BY <1>10, <2>1
<1>14. ASSUME NEW e \in Built, NEW env \in Envs, NEW nullHolds \in BOOLEAN
       PROVE  Meaning[e][<<env, nullHolds>>] = MeaningBy(Meaning, e, env, nullHolds)
  <2>1. <<env, nullHolds>> \in Contexts
    BY DEF Contexts
  <2>2. Value(Meaning, e)[<<env, nullHolds>>] = MeaningBy(Meaning, e, env, nullHolds)
    BY <2>1 DEF Value
  <2> QED BY <1>11, <2>2
<1> QED BY <1>13, <1>14 DEF X

-----------------------------------------------------------------------------
(* What an expression means where an explicit null does not hold, as the   *)
(* evaluator has it.                                                       *)
Strict == FALSE

Mean(e, env) == Meaning[e][<<env, Strict>>]

True(v) == v # Undefined /\ Truthy(v)

(* The meaning of the negation of an expression.                           *)
NotMean(e, env) ==
  IF \E t \in Lifted[e] : Mean(t, env) = Undefined THEN Undefined ELSE Boolean(~True(Mean(e, env)))

(* What a body means from a statement on, and for some items of a value.   *)
BodyMean(stmts, from, env) == <<env, Strict>> \in Holding(Meaning, stmts)[from]

ItemsMean(e, v, env) ==
  LET HoldsOn(x) == BodyMean(e.body, 1, Push(env, e.var, x))
  IN  IF e.type = "some" THEN \E x \in Elements(v, e.kind) : HoldsOn(x)
      ELSE \A x \in Elements(v, e.kind) : HoldsOn(x)

LEMMA StrictTruth ==
  /\ Strict \in BOOLEAN
  /\ \A v : IsTrue(v, Strict) <=> True(v)
BY DEF Strict, IsTrue, True, Truthy

LEMMA MeanTyped ==
  ASSUME NEW e \in Built, NEW env \in Envs
  PROVE  Mean(e, env) \in Defined /\ Mean(e, env) = MeaningBy(Meaning, e, env, Strict)
<1>1. <<env, Strict>> \in Contexts
  BY StrictTruth DEF Contexts
<1>2. Meaning[e] \in Meanings
  BY MeaningUnfolded
<1>3. Mean(e, env) \in Defined
  BY <1>1, <1>2 DEF Mean, Meanings
<1> QED BY <1>3, MeaningUnfolded, StrictTruth DEF Mean

LEMMA MeanShape ==
  ASSUME NEW e \in Built, NEW env \in Envs
  PROVE  /\ e.type = "value" => Mean(e, env) = e.value
         /\ e.type = "ref" => Mean(e, env) = ResolveRef(e.path, env)
         /\ e.type = "assign" => Mean(e, env) = Undefined
         /\ e.type = "compare" =>
              Mean(e, env) =
                IF Mean(e.left, env) = Undefined \/ Mean(e.right, env) = Undefined THEN Undefined
                ELSE Boolean(Relates(e.op, Mean(e.left, env), Mean(e.right, env)))
         /\ e.type = "in" =>
              Mean(e, env) =
                IF Mean(e.left, env) = Undefined \/ Mean(e.right, env) = Undefined THEN Undefined
                ELSE Boolean(Found(Mean(e.left, env), Mean(e.right, env)))
         /\ e.type = "call" =>
              LET args == [i \in DOMAIN e.args |-> Mean(e.args[i], env)]
              IN  Mean(e, env) =
                    IF \E i \in DOMAIN e.args : Mean(e.args[i], env) = Undefined THEN Undefined
                    ELSE IF Dispatch(e.name, args) = Null THEN Undefined ELSE Dispatch(e.name, args)
         /\ e.type = "not" => Mean(e, env) = NotMean(e.expr, env)
         /\ e.type \in Iterations =>
              Mean(e, env) =
                IF ~IsCollection(Mean(e.source, env)) THEN Undefined
                ELSE Boolean(ItemsMean(e, Mean(e.source, env), env))
<1> DEFINE whole == MeaningBy(Meaning, e, env, Strict)
<1>1. Mean(e, env) = whole
  BY MeanTyped
<1>2. \A x : MeaningOf(Meaning, x, env, Strict) = Mean(x, env)
  BY DEF MeaningOf, Mean
<1>3. ArgumentMeanings(Meaning, e, env, Strict) = [i \in DOMAIN e.args |-> Mean(e.args[i], env)]
  BY <1>2 DEF ArgumentMeanings
<1>4. HeldByItems(Meaning, e, env, Strict) = ItemsMean(e, Mean(e.source, env), env)
  BY <1>2 DEF HeldByItems, ItemsMean, BodyHolds, BodyMean
<1>5. \A v : (~IsTrue(v, Strict)) = (~True(v))
  BY StrictTruth
<1>6. CASE e.type = "call"
  BY <1>1, <1>2, <1>3, <1>6, MeaningShape DEF Iterations
<1>7. CASE e.type = "not"
  <2>1. whole = IF \E t \in Lifted[e.expr] : Mean(t, env) = Undefined THEN Undefined
                ELSE Boolean(~IsTrue(Mean(e.expr, env), Strict))
    BY <1>2, <1>7, MeaningShape
  <2>2. Boolean(~IsTrue(Mean(e.expr, env), Strict)) = Boolean(~True(Mean(e.expr, env)))
    <3> DEFINE p == ~IsTrue(Mean(e.expr, env), Strict)
               q == ~True(Mean(e.expr, env))
    <3>1. p = q
      BY <1>5
    <3> HIDE DEF p, q
    <3>2. Boolean(p) = Boolean(q)
      BY <3>1
    <3> QED BY <3>2 DEF p, q
  <2> QED BY <1>1, <1>7, <2>1, <2>2 DEF NotMean, Iterations
<1>8. CASE e.type \in Iterations
  BY <1>1, <1>2, <1>4, <1>8, MeaningShape DEF Iterations
<1>9. CASE e.type \notin {"call", "not"} \cup Iterations
  BY <1>1, <1>2, <1>9, MeaningShape
<1> QED BY <1>6, <1>7, <1>8, <1>9

LEMMA BodyMeanShape ==
  ASSUME NEW stmts \in Bodies, NEW from \in 1 .. Len(stmts) + 1, NEW env \in Envs
  PROVE  BodyMean(stmts, from, env) <=>
           LET next == First(Bindings(stmts, from))
               bound == Mean(stmts[next].value, env)
           IN  /\ \A i \in Conditions(stmts, from) : True(Mean(stmts[i], env))
               /\ Bindings(stmts, from) # {} =>
                    bound # Undefined /\ BodyMean(stmts, next + 1, Push(env, stmts[next].var, bound))
<1> DEFINE H == Holding(Meaning, stmts)
<1>1. H = [t \in 1 .. Len(stmts) + 1 |-> Rest(H, Meaning, stmts, t)]
  BY HoldingUnfolded DEF Bodies
<1>2. <<env, Strict>> \in Contexts
  BY StrictTruth DEF Contexts
<1> HIDE DEF H
<1>3. BodyMean(stmts, from, env) <=> <<env, Strict>> \in Rest(H, Meaning, stmts, from)
  BY <1>1 DEF BodyMean, H
<1>4. BodyMean(stmts, from, env) <=> RestHolds(H, Meaning, stmts, from, env, Strict)
  BY <1>2, <1>3 DEF Rest
<1>5. \A t, x : BodyMean(stmts, t, x) <=> <<x, Strict>> \in H[t]
  BY DEF BodyMean, H
<1> QED BY <1>4, <1>5, RestShape, StrictTruth DEF Mean

-----------------------------------------------------------------------------
(* An evaluation that is not refused answers what the expression means.    *)
Agrees(r, v) == r \in Errors \/ r = v

LiftedMean(e, env) ==
  IF \E i \in DOMAIN e.args : Mean(e.args[i], env) = Undefined THEN Undefined ELSE OrNull(Mean(e, env))

Expected(helper, e, env) ==
  IF helper = "negation" THEN NotMean(e, env)
  ELSE IF helper = "lifted_call" THEN LiftedMean(e, env)
  ELSE IF helper \in {"value", "call"} THEN OrNull(Mean(e, env))
  ELSE Mean(e, env)

MeansNodes(level) ==
  \A helper \in Helpers : \A e \in Built : \A env \in Envs :
    Fits(helper, e) => Agrees(level.node[<<helper, e, env>>], Expected(helper, e, env))

MeansBodies(level) ==
  \A stmts \in Bodies : \A from \in 1 .. Len(stmts) + 1 : \A env \in Envs :
    Agrees(level.body[<<stmts, from, env>>], Boolean(BodyMean(stmts, from, env)))

MeansLevel(level) == TypedLevel(level) /\ MeansNodes(level) /\ MeansBodies(level)

LEMMA CompareAgrees ==
  ASSUME NEW op \in {"eq", "neq", "lt", "lte", "gt", "gte"}, NEW a, NEW b
  PROVE  Agrees(CompareValues(op, a, b), Boolean(Relates(op, a, b)))
<1>1. CASE op \in {"eq", "neq"}
  BY <1>1 DEF CompareValues, Relates, Agrees
<1>2. CASE op \notin {"eq", "neq"} /\ ValueCompare(a, b) = Unordered
  <2>1. CompareValues(op, a, b) = Error("UnorderedComparison")
    BY <1>2 DEF CompareValues
  <2> QED BY <2>1 DEF Agrees, Errors
<1>3. CASE op \notin {"eq", "neq"} /\ ValueCompare(a, b) # Unordered
  <2>1. CASE op = "lt"
    BY <1>3, <2>1 DEF CompareValues, Relates, Agrees
  <2>2. CASE op = "lte"
    BY <1>3, <2>2 DEF CompareValues, Relates, Agrees
  <2>3. CASE op = "gt"
    BY <1>3, <2>3 DEF CompareValues, Relates, Agrees
  <2>4. CASE op = "gte"
    BY <1>3, <2>4 DEF CompareValues, Relates, Agrees
  <2> QED BY <1>3, <2>1, <2>2, <2>3, <2>4
<1> QED BY <1>1, <1>2, <1>3

LEMMA CompareMeans ==
  ASSUME NEW deeper, NEW d, d >= MaxDepth \/ MeansLevel(deeper),
         NEW e \in Built, e.type = "compare", NEW env \in Envs
  PROVE  Agrees(EvalCompare(deeper, e, env, d), Mean(e, env))
<1> DEFINE l == deeper.node[<<"operand", e.left, env>>]
           r == deeper.node[<<"operand", e.right, env>>]
<1>1. CASE d >= MaxDepth
  BY <1>1, AnswerSets DEF EvalCompare, Within, Agrees
<1>2. CASE ~(d >= MaxDepth)
  <2>1. e.left \in Built /\ e.right \in Built /\ e.op \in {"eq", "neq", "lt", "lte", "gt", "gte"}
    BY BuiltParts, Under, NodesAssumption DEF NodeOK
  <2>2. Agrees(l, Mean(e.left, env)) /\ Agrees(r, Mean(e.right, env))
    BY <1>2, <2>1 DEF MeansLevel, MeansNodes, Fits, Helpers, Expected
  <2>3. Agrees(CompareValues(e.op, l, r), Boolean(Relates(e.op, l, r)))
    BY <2>1, CompareAgrees
  <2>4. EvalCompare(deeper, e, env, d) =
          (IF Stops(l) THEN l ELSE IF Stops(r) THEN r ELSE CompareValues(e.op, l, r))
    BY <1>2 DEF EvalCompare, Within, Then
  <2>5. Mean(e, env) =
          IF Mean(e.left, env) = Undefined \/ Mean(e.right, env) = Undefined THEN Undefined
          ELSE Boolean(Relates(e.op, Mean(e.left, env), Mean(e.right, env)))
    BY MeanShape
  <2> HIDE DEF l, r
  <2> QED BY <2>2, <2>3, <2>4, <2>5 DEF Agrees, Stops
<1> QED BY <1>1, <1>2

LEMMA MemberMeans ==
  ASSUME NEW deeper, NEW d, d >= MaxDepth \/ MeansLevel(deeper),
         NEW e \in Built, e.type = "in", NEW env \in Envs
  PROVE  Agrees(EvalMember(deeper, e, env, d), Mean(e, env))
<1> DEFINE l == deeper.node[<<"operand", e.left, env>>]
           r == deeper.node[<<"operand", e.right, env>>]
           found == HasItems(r) /\ \E i \in DOMAIN ItemsOf(r, "values") : ValueEquals(l, ItemsOf(r, "values")[i])
<1>1. CASE d >= MaxDepth
  BY <1>1, AnswerSets DEF EvalMember, Within, Agrees
<1>2. CASE ~(d >= MaxDepth)
  <2>1. e.left \in Built /\ e.right \in Built
    BY BuiltParts, Under
  <2>2. Agrees(l, Mean(e.left, env)) /\ Agrees(r, Mean(e.right, env))
    BY <1>2, <2>1 DEF MeansLevel, MeansNodes, Fits, Helpers, Expected
  <2>3. r \in JsonValues => Boolean(found) = Boolean(Found(l, r))
    <3> SUFFICES ASSUME r \in JsonValues PROVE found = Found(l, r)
      OBVIOUS
    <3> HIDE DEF l, r
    <3> QED BY ElementsOfItems DEF Found
  <2>4. EvalMember(deeper, e, env, d) = (IF Stops(l) THEN l ELSE IF Stops(r) THEN r ELSE Boolean(found))
    BY <1>2 DEF EvalMember, Within, Then
  <2>5. Mean(e, env) =
          IF Mean(e.left, env) = Undefined \/ Mean(e.right, env) = Undefined THEN Undefined
          ELSE Boolean(Found(Mean(e.left, env), Mean(e.right, env)))
    BY MeanShape
  <2>6. r \in Results
    BY <1>2, <2>1 DEF MeansLevel, TypedLevel, TypedNodes, Fits, Helpers, Answering
  <2>7. ~Stops(r) => r \in JsonValues
    BY <2>6, AnswerSets
  <2> HIDE DEF l, r, found
  <2> QED BY <2>2, <2>3, <2>4, <2>5, <2>7 DEF Agrees, Stops
<1> QED BY <1>1, <1>2

LEMMA IterationMeans ==
  ASSUME NEW deeper, NEW d, d >= MaxDepth \/ MeansLevel(deeper),
         NEW e \in Built, e.type \in Iterations, NEW env \in Envs
  PROVE  Agrees(EvalIteration(deeper, e, env, d), Mean(e, env))
<1> DEFINE source == deeper.node[<<"value", e.source, env>>]
           items == ItemsOf(source, e.kind)
           Held(i) == deeper.body[<<e.body, 1, Push(env, e.var, items[i])>>]
           HeldOf(x) == BodyMean(e.body, 1, Push(env, e.var, x))
           every == e.type = "every"
           otherwise == Boolean(every)
           settled == {i \in DOMAIN items : Held(i) # otherwise}
<1>1. CASE d >= MaxDepth
  BY <1>1, AnswerSets DEF EvalIteration, Within, Agrees
<1>2. CASE ~(d >= MaxDepth)
  <2>1. e.source \in Built /\ e.body \in Bodies /\ e.var \in Strings /\ 1 \in 1 .. Len(e.body) + 1
    BY IterationFields, BodyShape
  <2>2. source \in JsonValues \cup Errors /\ Agrees(source, OrNull(Mean(e.source, env)))
    BY <1>2, <2>1 DEF MeansLevel, TypedLevel, TypedNodes, MeansNodes, Fits, Helpers, Answering, Expected
  <2>3. EvalIteration(deeper, e, env, d) =
          (IF Stops(source) THEN source
           ELSE IF HasItems(source) THEN EvalItems(deeper, e, items, env) ELSE Undefined)
    BY <1>2 DEF EvalIteration, Within, Then
  <2>4. Mean(e, env) = IF ~IsCollection(Mean(e.source, env)) THEN Undefined
                       ELSE Boolean(ItemsMean(e, Mean(e.source, env), env))
    BY MeanShape
  <2>5. CASE source \in Errors
    BY <2>3, <2>5 DEF Stops, Agrees
  <2>6. CASE source \notin Errors
    <3>1. source \in JsonValues /\ source = OrNull(Mean(e.source, env)) /\ ~Stops(source)
      BY <2>2, <2>6, AnswerSets DEF Agrees
    <3>2. HasItems(source) <=> IsCollection(source)
      BY <3>1, ElementsOfItems
    <3>3. ~HasItems(Null)
      BY DEF HasItems, Null, Kind
    <3>4. CASE ~HasItems(source)
      <4>1. Mean(e.source, env) = Undefined \/ Mean(e.source, env) = source
        BY <3>1 DEF OrNull
      <4>2. ~IsCollection(Mean(e.source, env))
        BY <3>2, <3>4, <4>1 DEF IsCollection
      <4> HIDE DEF source
      <4> QED BY <2>3, <2>4, <3>1, <3>4, <4>2 DEF Agrees
    <3>5. CASE HasItems(source)
      <4>1. Mean(e.source, env) = source
        <5> HIDE DEF source
        <5> QED BY <3>1, <3>3, <3>5 DEF OrNull
      <4>2. Mean(e, env) = Boolean(ItemsMean(e, source, env))
        BY <2>4, <3>2, <3>5, <4>1
      <4>3. EvalIteration(deeper, e, env, d) = (IF settled = {} THEN otherwise ELSE Held(First(settled)))
        BY <2>3, <3>1, <3>5 DEF EvalItems
      <4>4. Elements(source, e.kind) = {items[i] : i \in DOMAIN items}
        BY <3>1, <3>5, ElementsOfItems
      <4>5. ASSUME NEW i \in DOMAIN items PROVE Agrees(Held(i), Boolean(HeldOf(items[i])))
        <5>1. items[i] \in JsonValues
          BY <3>1, <3>5, ItemsAreValues
        <5>2. Push(env, e.var, items[i]) \in Envs
          BY <2>1, <5>1, PushEnv
        <5> HIDE DEF items
        <5> QED BY <1>2, <2>1, <5>2 DEF MeansLevel, MeansBodies
      <4>6. settled \in SUBSET Nat /\ settled \subseteq DOMAIN items
        BY <3>1, <3>5, ItemsAreValues
      <4>7. /\ e.type = "some" => ItemsMean(e, source, env) = \E i \in DOMAIN items : HeldOf(items[i])
            /\ e.type # "some" => ItemsMean(e, source, env) = \A i \in DOMAIN items : HeldOf(items[i])
        <5> HIDE DEF items, source
        <5> QED BY <4>4 DEF ItemsMean
      <4>8. every \in BOOLEAN /\ (every <=> e.type # "some") /\ \A x : HeldOf(x) \in BOOLEAN
        BY DEF Iterations, BodyMean
      <4>9. \A p, q \in BOOLEAN : Boolean(p) = Boolean(q) => p = q
        BY DEF Boolean
      <4>10. ItemsMean(e, source, env) \in BOOLEAN
        BY DEF ItemsMean
      <4>11. otherwise \notin Errors
        BY <4>8, VerdictOf, AnswerSets, Distinct DEF Verdicts
      <4>12. CASE settled = {}
        <5>1. \A i \in DOMAIN items : Held(i) = otherwise
          BY <4>12
        <5>2. \A i \in DOMAIN items : HeldOf(items[i]) = every
          <6> HIDE DEF items, Held, HeldOf, every
          <6> QED BY <4>5, <4>8, <4>9, <4>11, <5>1 DEF Agrees
        <5>3. ItemsMean(e, source, env) = every
          <6> HIDE DEF items, Held, HeldOf, every, source
          <6>1. CASE e.type = "some"
            <7>1. ~every /\ \A i \in DOMAIN items : ~HeldOf(items[i])
              BY <4>8, <5>2, <6>1
            <7>2. ~ItemsMean(e, source, env)
              BY <4>7, <6>1, <7>1
            <7> QED BY <4>8, <4>10, <7>1, <7>2
          <6>2. CASE e.type # "some"
            <7>1. every /\ \A i \in DOMAIN items : HeldOf(items[i])
              BY <4>8, <5>2, <6>2
            <7>2. ItemsMean(e, source, env)
              BY <4>7, <6>2, <7>1
            <7> QED BY <4>8, <4>10, <7>1, <7>2
          <6> QED BY <6>1, <6>2
        <5> HIDE DEF items, Held, HeldOf, every, source, settled
        <5> QED BY <4>2, <4>3, <4>12, <5>3 DEF Agrees
      <4>13. CASE settled # {}
        <5> DEFINE i == First(settled)
        <5>1. i \in settled
          <6> HIDE DEF settled
          <6> QED BY <4>6, <4>13, FirstPosition
        <5>2. i \in DOMAIN items /\ Held(i) # otherwise
          BY <5>1
        <5> HIDE DEF i
        <5>3. CASE Held(i) \in Errors
          BY <4>3, <4>13, <5>3 DEF Agrees, i
        <5>4. CASE Held(i) \notin Errors
          <6>1. HeldOf(items[i]) # every /\ Held(i) = Boolean(HeldOf(items[i]))
            <7> HIDE DEF items, Held, HeldOf, every
            <7> QED BY <4>5, <5>2, <5>4 DEF Agrees
          <6>2. ItemsMean(e, source, env) = HeldOf(items[i])
            <7> HIDE DEF items, Held, HeldOf, every, source
            <7> QED BY <4>7, <4>8, <4>10, <5>2, <6>1
          <6> HIDE DEF items, Held, HeldOf, every, source, settled
          <6> QED BY <4>2, <4>3, <4>13, <6>1, <6>2 DEF Agrees, i
        <5> QED BY <5>3, <5>4
      <4> QED BY <4>12, <4>13
    <3> QED BY <3>4, <3>5
  <2> QED BY <2>5, <2>6
<1> QED BY <1>1, <1>2

(* A call of which an argument is null could not compute.                  *)
LEMMA NullArgument ==
  ASSUME NEW name \in DOMAIN Arity, NEW args, NEW i \in 1 .. Arity[name], args[i] = Null
  PROVE  Dispatch(name, args) = Null
<1>1. Kind(args[i]) = "null"
  BY DEF Kind, Null
<1>2. CASE name = "count"
  <2>1. i = 1
    BY <1>2 DEF Arity
  <2> QED BY <1>1, <1>2, <2>1 DEF Dispatch
<1>3. CASE name # "count"
  <2>1. i \in 1 .. 2
    BY <1>3 DEF Arity
  <2> QED BY <1>1, <1>3, <2>1 DEF Dispatch
<1> QED BY <1>2, <1>3

LEMMA CallMeans ==
  ASSUME NEW deeper, NEW d, d >= MaxDepth \/ MeansLevel(deeper),
         NEW e \in Built, e.type = "call", NEW env \in Envs, NEW lifted \in BOOLEAN
  PROVE  Agrees(EvalCall(deeper, e, env, d, lifted), IF lifted THEN LiftedMean(e, env) ELSE OrNull(Mean(e, env)))
<1> DEFINE helper == IF lifted THEN "operand" ELSE "value"
           resolved == [i \in DOMAIN e.args |-> deeper.node[<<helper, e.args[i], env>>]]
           stopped == {i \in DOMAIN e.args : Stops(resolved[i])}
           Arg(i) == Mean(e.args[i], env)
           args == [i \in DOMAIN e.args |-> Arg(i)]
           missing == \E i \in DOMAIN e.args : Arg(i) = Undefined
           called == EvalCall(deeper, e, env, d, lifted)
           whole == Mean(e, env)
<1>1. CASE d >= MaxDepth
  BY <1>1, AnswerSets DEF EvalCall, Within, Agrees
<1>2. CASE ~(d >= MaxDepth)
  <2>1. called = (IF stopped = {} THEN Dispatch(e.name, resolved) ELSE resolved[First(stopped)])
    BY <1>2 DEF EvalCall, Within
  <2>2. /\ e.name \in DOMAIN Arity /\ DOMAIN e.args = 1 .. Arity[e.name] /\ DOMAIN e.args \in SUBSET Nat
        /\ \A i \in DOMAIN e.args : e.args[i] \in Built
    BY ArgumentFields
  <2>3. ASSUME NEW i \in DOMAIN e.args
        PROVE  /\ lifted => Agrees(resolved[i], Arg(i))
               /\ ~lifted => Agrees(resolved[i], OrNull(Arg(i))) /\ resolved[i] \in JsonValues \cup Errors
    BY <1>2, <2>2 DEF MeansLevel, TypedLevel, TypedNodes, MeansNodes, Fits, Helpers, Answering, Expected
  <2>4. whole = IF missing THEN Undefined
                ELSE IF Dispatch(e.name, args) = Null THEN Undefined ELSE Dispatch(e.name, args)
    BY MeanShape
  <2>5. \A i \in DOMAIN e.args : Arg(i) \in Defined
    BY <2>2, MeanTyped
  <2>6. missing \/ Dispatch(e.name, args) \in JsonValues
    <3> SUFFICES ASSUME ~missing PROVE Dispatch(e.name, args) \in JsonValues
      OBVIOUS
    <3>1. \A i \in 1 .. Arity[e.name] : args[i] \in JsonValues
      BY <2>2, <2>5 DEF Defined
    <3> HIDE DEF args
    <3> QED BY <2>2, <3>1, DispatchTyped
  <2>7. OrNull(whole) = IF missing THEN Null ELSE Dispatch(e.name, args)
    <3> HIDE DEF missing, args, whole
    <3> QED BY <2>4, <2>6, AnswerSets DEF OrNull
  <2>8. LiftedMean(e, env) = IF missing THEN Undefined ELSE Dispatch(e.name, args)
    <3>1. LiftedMean(e, env) = IF missing THEN Undefined ELSE OrNull(whole)
      BY DEF LiftedMean
    <3> HIDE DEF missing, args, whole
    <3> QED BY <2>7, <3>1
  <2>9. CASE stopped = {}
    <3>1. \A i \in DOMAIN e.args : ~Stops(resolved[i])
      BY <2>9
    <3>2. \A i \in DOMAIN e.args : Arg(i) # Undefined => resolved[i] = Arg(i)
      <4> HIDE DEF resolved, Arg
      <4> QED BY <2>3, <3>1 DEF Agrees, Stops, OrNull
    <3>3. ASSUME NEW i \in DOMAIN e.args, Arg(i) = Undefined PROVE ~lifted /\ resolved[i] = Null
      <4> HIDE DEF resolved, Arg
      <4> QED BY <2>3, <3>1, <3>3 DEF Agrees, Stops, OrNull
    <3>4. CASE missing
      <4>1. PICK i \in DOMAIN e.args : Arg(i) = Undefined
        BY <3>4
      <4>2. ~lifted /\ resolved[i] = Null
        BY <3>3, <4>1
      <4> HIDE DEF resolved
      <4>3. Dispatch(e.name, resolved) = Null
        BY <2>2, <4>2, NullArgument
      <4> HIDE DEF missing, stopped, args
      <4> QED BY <2>1, <2>7, <2>9, <3>4, <4>2, <4>3 DEF Agrees
    <3>5. CASE ~missing
      <4>1. resolved = args
        BY <3>2, <3>5
      <4> HIDE DEF missing, stopped, resolved, args
      <4> QED BY <2>1, <2>7, <2>8, <2>9, <3>5, <4>1 DEF Agrees
    <3> QED BY <3>4, <3>5
  <2>10. CASE stopped # {}
    <3> DEFINE i == First(stopped)
    <3>1. i \in stopped
      <4> stopped \in SUBSET Nat
        BY <2>2
      <4> HIDE DEF stopped
      <4> QED BY <2>10, FirstPosition
    <3>2. i \in DOMAIN e.args /\ Stops(resolved[i]) /\ called = resolved[i]
      BY <2>1, <2>10, <3>1
    <3>3. CASE resolved[i] \in Errors
      BY <3>2, <3>3 DEF Agrees
    <3>4. CASE resolved[i] \notin Errors
      <4> HIDE DEF i, resolved, Arg, args
      <4>1. resolved[i] = Undefined
        BY <3>2, <3>4 DEF Stops
      <4>2. lifted /\ Arg(i) = Undefined
        BY <2>3, <3>2, <3>4, <4>1, AnswerSets DEF Agrees
      <4>3. missing
        BY <3>2, <4>2
      <4> HIDE DEF missing
      <4> QED BY <2>8, <3>2, <4>1, <4>2, <4>3 DEF Agrees
    <3> QED BY <3>3, <3>4
  <2> QED BY <2>9, <2>10
<1> QED BY <1>1, <1>2

(* What is made of an answer is made of the meaning.                       *)
LEMMA AgreesOn ==
  ASSUME NEW r, NEW v, Agrees(r, v)
  PROVE  /\ Agrees(OrNull(r), OrNull(v)) /\ Agrees(OrFalse(r), OrFalse(v))
         /\ Agrees(Holds(r), Holds(v)) /\ Agrees(Negated(r), Negated(v))
<1>1. CASE r \in Errors
  <2>1. r # Undefined
    BY <1>1, AnswerSets
  <2>2. OrNull(r) = r /\ OrFalse(r) = r /\ Holds(r) = r /\ Negated(r) = r
    BY <1>1, <2>1 DEF OrNull, OrFalse, Holds, Negated, Then, Stops
  <2> QED BY <1>1, <2>2 DEF Agrees
<1>2. CASE r = v
  BY <1>2 DEF Agrees
<1> QED BY <1>1, <1>2 DEF Agrees

(* Whether a meaning is true, and the verdict on it.                       *)
LEMMA TruthOf ==
  ASSUME NEW v \in Defined
  PROVE  /\ True(v) \in BOOLEAN
         /\ OrFalse(Holds(v)) = Boolean(True(v)) /\ OrFalse(Holds(OrNull(v))) = Boolean(True(v))
         /\ v \in Verdicts \cup {Undefined} => OrFalse(v) = Boolean(True(v))
         /\ Negated(v) = IF v = Undefined THEN Undefined ELSE Boolean(~True(v))
         /\ Negated(OrNull(v)) = Boolean(~True(v))
         /\ Negated(Boolean(True(v))) = Boolean(~True(v))
<1> DEFINE yes == TRUE
           no == FALSE
<1>0. yes \in BOOLEAN /\ no \in BOOLEAN /\ yes /\ ~no /\ \A p \in BOOLEAN : p = yes \/ p = no
  OBVIOUS
<1>1. /\ {Null, Boolean(yes), Boolean(no)} \subseteq JsonValues /\ Boolean(yes) # Boolean(no)
      /\ Null \notin {Boolean(yes), Boolean(no)} /\ Undefined \notin JsonValues
      /\ \A x : Truthy(x) <=> x # Boolean(no) /\ x # Null
      /\ Verdicts = {Boolean(yes), Boolean(no)}
      /\ \A x : OrFalse(x) = IF x = Undefined THEN Boolean(no) ELSE x
  BY Distinct, AnswerSets DEF Truthy, Verdicts, OrFalse
<1>2. \A x \in JsonValues : ~Stops(x)
  BY AnswerSets
<1>3. \A x \in JsonValues : Holds(x) = Boolean(Truthy(x)) /\ Negated(x) = Boolean(~Truthy(x))
  BY <1>2 DEF Holds, Negated, Then
<1>4. Holds(Undefined) = Undefined /\ Negated(Undefined) = Undefined
  BY DEF Holds, Negated, Then, Stops
<1>5. \A x : Truthy(x) \in BOOLEAN /\ (~Truthy(x)) \in BOOLEAN
  BY DEF Truthy
<1>6. \A p \in BOOLEAN : Boolean(p) \in JsonValues
  BY <1>0, <1>1
<1>7. True(v) \in BOOLEAN /\ (~True(v)) \in BOOLEAN /\ True(v) = (v # Undefined /\ Truthy(v))
  BY DEF True
<1> HIDE DEF yes, no
<1>8. Truthy(Boolean(yes)) = yes /\ Truthy(Boolean(no)) = no
  BY <1>0, <1>1, <1>5
<1>9. CASE v = Undefined
  <2>1. True(v) = no /\ (~True(v)) = yes /\ ~Truthy(Null) /\ Truthy(Null) = no /\ (~Truthy(Null)) = yes
    BY <1>0, <1>1, <1>5, <1>7, <1>9
  <2>2. OrNull(v) = Null
    BY <1>9 DEF OrNull
  <2>3. Boolean(True(v)) = Boolean(no) /\ Boolean(~True(v)) = Boolean(yes)
    BY <2>1
  <2>4. Holds(OrNull(v)) = Boolean(no) /\ Negated(OrNull(v)) = Boolean(yes)
    BY <1>1, <1>3, <2>1, <2>2
  <2>5. Negated(Boolean(no)) = Boolean(yes)
    <3>1. (~Truthy(Boolean(no))) = yes
      BY <1>0, <1>5, <1>8
    <3> QED BY <1>1, <1>3, <3>1
  <2>6. OrFalse(Holds(v)) = Boolean(no) /\ OrFalse(Boolean(no)) = Boolean(no) /\ OrFalse(v) = Boolean(no)
    BY <1>1, <1>4, <1>9
  <2>7. Negated(v) = Undefined
    BY <1>4, <1>9
  <2> QED BY <1>7, <1>9, <2>3, <2>4, <2>5, <2>6, <2>7
<1>10. CASE v # Undefined
  <2>1. v \in JsonValues /\ OrNull(v) = v
    BY <1>10 DEF Defined, OrNull
  <2>2. True(v) = Truthy(v) /\ (~True(v)) = (~Truthy(v))
    BY <1>5, <1>7, <1>10
  <2>3. Holds(v) = Boolean(True(v)) /\ Negated(v) = Boolean(~True(v))
    BY <1>3, <2>1, <2>2
  <2>4. Boolean(True(v)) \in JsonValues /\ OrFalse(Boolean(True(v))) = Boolean(True(v))
    BY <1>1, <1>6, <1>7
  <2>5. Truthy(Boolean(True(v))) = True(v)
    BY <1>0, <1>7, <1>8
  <2>6. (~Truthy(Boolean(True(v)))) = (~True(v))
    BY <1>5, <1>7, <2>5
  <2>7. Negated(Boolean(True(v))) = Boolean(~True(v))
    BY <1>3, <2>4, <2>6
  <2>8. v \in Verdicts => OrFalse(v) = v /\ v = Boolean(True(v))
    BY <1>1, <1>8, <1>10, <2>2
  <2> QED BY <1>7, <1>10, <2>1, <2>3, <2>4, <2>7, <2>8
<1> QED BY <1>9, <1>10

(* What is no value, ref or call means true or false when it is defined.   *)
LEMMA MeanVerdict ==
  ASSUME NEW e \in Built, NEW env \in Envs, e.type \in {"compare", "in", "not"} \cup Iterations
  PROVE  Mean(e, env) \in Verdicts \cup {Undefined}
<1>1. CASE e.type = "compare"
  <2>1. e.op \in {"eq", "neq", "lt", "lte", "gt", "gte"}
    BY <1>1, BuiltParts, NodesAssumption DEF NodeOK
  <2>2. Relates(e.op, Mean(e.left, env), Mean(e.right, env)) \in BOOLEAN
    BY <2>1, RelatesBoolean
  <2> QED BY <1>1, <2>2, MeanShape, VerdictOf
<1>2. CASE e.type = "in"
  <2>1. Found(Mean(e.left, env), Mean(e.right, env)) \in BOOLEAN
    BY DEF Found
  <2> QED BY <1>2, <2>1, MeanShape, VerdictOf
<1>3. CASE e.type = "not"
  <2> DEFINE p == ~True(Mean(e.expr, env))
  <2>1. p \in BOOLEAN
    BY DEF True
  <2>2. Mean(e, env) \in {Undefined, Boolean(p)}
    BY <1>3, MeanShape DEF NotMean
  <2> HIDE DEF p
  <2> QED BY <2>1, <2>2, VerdictOf
<1>4. CASE e.type \in Iterations
  <2>1. ItemsMean(e, Mean(e.source, env), env) \in BOOLEAN
    BY DEF ItemsMean
  <2> QED BY <1>4, <2>1, MeanShape, VerdictOf
<1> QED BY <1>1, <1>2, <1>3, <1>4

LEMMA ValueMeans ==
  ASSUME NEW deeper, NEW d, d >= MaxDepth \/ MeansLevel(deeper),
         NEW e \in Built, NEW env \in Envs
  PROVE  Agrees(ResolveValue(deeper, e, env, d), OrNull(Mean(e, env)))
<1>1. CASE d >= MaxDepth
  BY <1>1, AnswerSets DEF ResolveValue, Within, Agrees
<1>2. CASE ~(d >= MaxDepth)
  <2> USE DEF Iterations
  <2>1. MeansNodes(deeper)
    BY <1>2 DEF MeansLevel
  <2>2. CASE e.type = "value"
    <3>1. ResolveValue(deeper, e, env, d) = e.value
      BY <1>2, <2>2 DEF ResolveValue, Within
    <3>2. OrNull(Mean(e, env)) = e.value
      <4>1. Mean(e, env) = e.value
        BY <2>2, MeanShape
      <4>2. e.value \in JsonValues
        BY <2>2, NodeTypes
      <4> QED BY <4>1, <4>2, AnswerSets DEF OrNull
    <3> QED BY <3>1, <3>2 DEF Agrees
  <2>3. CASE e.type = "ref"
    <3>1. ResolveValue(deeper, e, env, d) = OrNull(ResolveRef(e.path, env))
      BY <1>2, <2>3 DEF ResolveValue, Within
    <3> QED BY <2>3, <3>1, MeanShape DEF Agrees
  <2>4. CASE e.type = "compare"
    <3>1. ResolveValue(deeper, e, env, d) = OrNull(deeper.node[<<"compare", e, env>>])
      BY <1>2, <2>4 DEF ResolveValue, Within
    <3>2. Agrees(deeper.node[<<"compare", e, env>>], Mean(e, env))
      BY <2>1, <2>4 DEF MeansNodes, Fits, Helpers, Expected
    <3> QED BY <3>1, <3>2, AgreesOn
  <2>5. CASE e.type = "not"
    <3>1. ResolveValue(deeper, e, env, d) = OrNull(deeper.node[<<"negation", e.expr, env>>])
      BY <1>2, <2>5 DEF ResolveValue, Within
    <3>2. Agrees(deeper.node[<<"negation", e.expr, env>>], NotMean(e.expr, env))
      BY <2>1, <2>5, NodeTypes DEF MeansNodes, Fits, Helpers, Expected
    <3>3. Mean(e, env) = NotMean(e.expr, env)
      BY <2>5, MeanShape
    <3> QED BY <3>1, <3>2, <3>3, AgreesOn
  <2>6. CASE e.type \in Iterations
    <3>1. ResolveValue(deeper, e, env, d) = OrNull(deeper.node[<<"iteration", e, env>>])
      BY <1>2, <2>6 DEF ResolveValue, Within
    <3>2. Agrees(deeper.node[<<"iteration", e, env>>], Mean(e, env))
      BY <2>1, <2>6 DEF MeansNodes, Fits, Helpers, Expected
    <3> QED BY <3>1, <3>2, AgreesOn
  <2>7. CASE e.type = "call"
    <3>1. ResolveValue(deeper, e, env, d) = deeper.node[<<"call", e, env>>]
      BY <1>2, <2>7 DEF ResolveValue, Within
    <3>2. Agrees(deeper.node[<<"call", e, env>>], OrNull(Mean(e, env)))
      BY <2>1, <2>7 DEF MeansNodes, Fits, Helpers, Expected
    <3> QED BY <3>1, <3>2
  <2>8. CASE e.type = "in"
    <3>1. ResolveValue(deeper, e, env, d) = OrNull(deeper.node[<<"member", e, env>>])
      BY <1>2, <2>8 DEF ResolveValue, Within
    <3>2. Agrees(deeper.node[<<"member", e, env>>], Mean(e, env))
      BY <2>1, <2>8 DEF MeansNodes, Fits, Helpers, Expected
    <3> QED BY <3>1, <3>2, AgreesOn
  <2>9. CASE e.type = "assign"
    <3>1. ResolveValue(deeper, e, env, d) = Error("AssignOutsideBody")
      BY <1>2, <2>9 DEF ResolveValue, Within
    <3> QED BY <3>1 DEF Errors, Agrees
  <2> QED BY <2>2, <2>3, <2>4, <2>5, <2>6, <2>7, <2>8, <2>9, NodeTypes
<1> QED BY <1>1, <1>2

LEMMA TruthMeans ==
  ASSUME NEW deeper, NEW d, d >= MaxDepth \/ MeansLevel(deeper),
         NEW e \in Built, NEW env \in Envs
  PROVE  Agrees(EvalExprBool(deeper, e, env, d), Boolean(True(Mean(e, env))))
<1> DEFINE Answered(r) == EvalExprBool(deeper, e, env, d) = OrFalse(r)
           v == Mean(e, env)
           verdict == Boolean(True(v))
<1>1. CASE d >= MaxDepth
  BY <1>1, AnswerSets DEF EvalExprBool, Within, Agrees
<1>2. CASE ~(d >= MaxDepth)
  <2> USE DEF Iterations
  <2>1. MeansNodes(deeper) /\ v \in Defined
    BY <1>2, MeanTyped DEF MeansLevel
  <2>2. ASSUME NEW r, Agrees(r, v), Answered(r), v \in Verdicts \cup {Undefined}
        PROVE  Agrees(EvalExprBool(deeper, e, env, d), verdict)
    <3>1. Agrees(OrFalse(r), OrFalse(v)) /\ OrFalse(v) = verdict
      BY <2>1, <2>2, AgreesOn, TruthOf
    <3> HIDE DEF v, verdict
    <3> QED BY <2>2, <3>1
  <2>3. CASE e.type = "value"
    <3>1. Answered(Boolean(Truthy(e.value)))
      BY <1>2, <2>3 DEF EvalExprBool, Within
    <3>2. v = e.value /\ v \in JsonValues /\ v # Undefined
      <4>1. v = e.value
        BY <2>3, MeanShape
      <4>2. e.value \in JsonValues
        BY <2>3, NodeTypes
      <4> HIDE DEF v
      <4> QED BY <4>1, <4>2, AnswerSets
    <3>3. Holds(v) = Boolean(Truthy(v))
      BY <3>2, AnswerSets DEF Holds, Then
    <3>4. OrFalse(Holds(v)) = verdict
      BY <2>1, TruthOf
    <3> QED BY <3>1, <3>2, <3>3, <3>4 DEF Agrees
  <2>4. CASE e.type = "ref"
    <3>1. Answered(Holds(ResolveRef(e.path, env)))
      BY <1>2, <2>4 DEF EvalExprBool, Within
    <3>2. v = ResolveRef(e.path, env)
      BY <2>4, MeanShape
    <3> QED BY <2>1, <3>1, <3>2, TruthOf DEF Agrees
  <2>5. CASE e.type = "compare"
    <3>1. Answered(deeper.node[<<"compare", e, env>>])
      BY <1>2, <2>5 DEF EvalExprBool, Within
    <3>2. Agrees(deeper.node[<<"compare", e, env>>], v)
      BY <2>1, <2>5 DEF MeansNodes, Fits, Helpers, Expected
    <3> QED BY <2>2, <2>5, <3>1, <3>2, MeanVerdict
  <2>6. CASE e.type = "not"
    <3>1. Answered(deeper.node[<<"negation", e.expr, env>>])
      BY <1>2, <2>6 DEF EvalExprBool, Within
    <3>2. Agrees(deeper.node[<<"negation", e.expr, env>>], NotMean(e.expr, env))
      BY <2>1, <2>6, NodeTypes DEF MeansNodes, Fits, Helpers, Expected
    <3>3. v = NotMean(e.expr, env)
      BY <2>6, MeanShape
    <3> QED BY <2>2, <2>6, <3>1, <3>2, <3>3, MeanVerdict
  <2>7. CASE e.type \in Iterations
    <3>1. Answered(deeper.node[<<"iteration", e, env>>])
      BY <1>2, <2>7 DEF EvalExprBool, Within
    <3>2. Agrees(deeper.node[<<"iteration", e, env>>], v)
      BY <2>1, <2>7 DEF MeansNodes, Fits, Helpers, Expected
    <3> QED BY <2>2, <2>7, <3>1, <3>2, MeanVerdict
  <2>8. CASE e.type = "call"
    <3> DEFINE r == deeper.node[<<"call", e, env>>]
    <3>1. Answered(Holds(r))
      BY <1>2, <2>8 DEF EvalExprBool, Within
    <3>2. Agrees(r, OrNull(v))
      BY <2>1, <2>8 DEF MeansNodes, Fits, Helpers, Expected
    <3>3. Agrees(OrFalse(Holds(r)), OrFalse(Holds(OrNull(v)))) /\ OrFalse(Holds(OrNull(v))) = verdict
      <4>1. Agrees(Holds(r), Holds(OrNull(v)))
        BY <3>2, AgreesOn
      <4> QED BY <2>1, <4>1, AgreesOn, TruthOf
    <3> HIDE DEF r
    <3> QED BY <3>1, <3>3
  <2>9. CASE e.type = "in"
    <3>1. Answered(deeper.node[<<"member", e, env>>])
      BY <1>2, <2>9 DEF EvalExprBool, Within
    <3>2. Agrees(deeper.node[<<"member", e, env>>], v)
      BY <2>1, <2>9 DEF MeansNodes, Fits, Helpers, Expected
    <3> QED BY <2>2, <2>9, <3>1, <3>2, MeanVerdict
  <2>10. CASE e.type = "assign"
    <3>1. Answered(Error("AssignOutsideBody"))
      BY <1>2, <2>10 DEF EvalExprBool, Within
    <3>2. Error("AssignOutsideBody") \in Errors /\ Error("AssignOutsideBody") # Undefined
      BY AnswerSets DEF Errors
    <3> QED BY <3>1, <3>2 DEF Agrees, OrFalse
  <2> QED BY <2>3, <2>4, <2>5, <2>6, <2>7, <2>8, <2>9, <2>10, NodeTypes
<1> QED BY <1>1, <1>2

LEMMA NegateCompareMeans ==
  ASSUME NEW deeper, MeansLevel(deeper), NEW e \in Built, e.type = "compare", NEW env \in Envs
  PROVE  Agrees(NegateCompare(deeper, e, env), NotMean(e, env))
<1> DEFINE l == deeper.node[<<"operand", e.left, env>>]
           r == deeper.node[<<"operand", e.right, env>>]
           lifted == {s \in {e.left, e.right} : RefsLifted(e.op) \/ s.type # "ref"}
           missing == (l = Undefined /\ e.left \in lifted) \/ (r = Undefined /\ e.right \in lifted)
           compared == CompareValues(e.op, l, r)
           yes == Boolean(TRUE)
           v == Mean(e, env)
<1>1. e.left \in Built /\ e.right \in Built /\ e.op \in {"eq", "neq", "lt", "lte", "gt", "gte"}
  BY BuiltParts, Under, NodesAssumption DEF NodeOK
<1>2. Agrees(l, Mean(e.left, env)) /\ Agrees(r, Mean(e.right, env))
  BY <1>1 DEF MeansLevel, MeansNodes, Fits, Helpers, Expected
<1>3. NegateCompare(deeper, e, env) =
        IF l \in Errors THEN l
        ELSE IF r \in Errors THEN r
        ELSE IF l = Undefined \/ r = Undefined THEN IF missing THEN Undefined ELSE yes
        ELSE Negated(compared)
  BY DEF NegateCompare
<1>4. Lifted[e] = lifted
  <2>1. Lifted[e] = LiftedBy(Lifted, e)
    BY LiftedUnfolded, NodeTypes
  <2> QED BY <2>1 DEF LiftedBy, RefsLifted, Iterations
<1>5. v = IF Mean(e.left, env) = Undefined \/ Mean(e.right, env) = Undefined THEN Undefined
          ELSE Boolean(Relates(e.op, Mean(e.left, env), Mean(e.right, env)))
  BY MeanShape
<1>6. v \in Defined /\ Relates(e.op, l, r) \in BOOLEAN
  BY <1>1, MeanTyped, RelatesBoolean
<1>7. Negated(v) = IF v = Undefined THEN Undefined ELSE Boolean(~True(v))
  BY <1>6, TruthOf
<1>8. Agrees(compared, Boolean(Relates(e.op, l, r)))
  BY <1>1, CompareAgrees
<1>9. v = Undefined => Boolean(~True(v)) = yes
  <2> HAVE v = Undefined
  <2>1. (~True(v)) = TRUE
    BY DEF True
  <2> QED BY <2>1
<1>10. NotMean(e, env) = IF \E t \in lifted : Mean(t, env) = Undefined THEN Undefined ELSE Boolean(~True(v))
  BY <1>4 DEF NotMean
<1> HIDE DEF l, r, yes, compared
<1>11. CASE l \in Errors \/ r \in Errors
  BY <1>3, <1>11 DEF Agrees
<1>12. CASE ~(l \in Errors \/ r \in Errors)
  <2>1. l = Mean(e.left, env) /\ r = Mean(e.right, env)
    BY <1>2, <1>12 DEF Agrees
  <2>2. missing <=> \E t \in lifted : Mean(t, env) = Undefined
    BY <2>1
  <2> HIDE DEF lifted, v
  <2>3. CASE l = Undefined \/ r = Undefined
    <3>1. v = Undefined
      BY <1>5, <2>1, <2>3
    <3>2. CASE missing
      <4> HIDE DEF missing
      <4> QED BY <1>3, <1>10, <1>12, <2>2, <2>3, <3>2 DEF Agrees
    <3>3. CASE ~missing
      <4> HIDE DEF missing
      <4> QED BY <1>3, <1>9, <1>10, <1>12, <2>2, <2>3, <3>1, <3>3 DEF Agrees
    <3> QED BY <3>2, <3>3
  <2>4. CASE ~(l = Undefined \/ r = Undefined)
    <3>1. v = Boolean(Relates(e.op, l, r)) /\ v # Undefined
      BY <1>5, <1>6, <2>1, <2>4, VerdictOf, AnswerSets
    <3>2. Agrees(Negated(compared), Negated(v))
      BY <1>8, <3>1, AgreesOn
    <3>3. ~missing
      BY <2>4
    <3> HIDE DEF missing
    <3> QED BY <1>3, <1>7, <1>10, <1>12, <2>2, <2>4, <3>1, <3>2, <3>3
  <2> QED BY <2>3, <2>4
<1> QED BY <1>11, <1>12

(* A call that could not compute means undefined, never null.              *)
LEMMA CallNotNull ==
  ASSUME NEW e \in Built, NEW env \in Envs, e.type = "call"
  PROVE  Mean(e, env) # Null
<1> DEFINE args == [i \in DOMAIN e.args |-> Mean(e.args[i], env)]
           called == Dispatch(e.name, args)
           missing == \E i \in DOMAIN e.args : Mean(e.args[i], env) = Undefined
<1>1. Mean(e, env) = IF missing THEN Undefined ELSE IF called = Null THEN Undefined ELSE called
  BY MeanShape
<1> HIDE DEF called, missing
<1> QED BY <1>1, AnswerSets

(* The terms lifted out of an expression, by its type.                     *)
LEMMA LiftedShape ==
  ASSUME NEW e \in Built
  PROVE  /\ e.type = "call" => Lifted[e] = {e.args[i] : i \in DOMAIN e.args}
         /\ e.type = "not" => Lifted[e] = Lifted[e.expr]
         /\ e.type \in Iterations \cup {"in"} => Lifted[e] = {e}
         /\ e.type \in {"value", "ref", "assign"} => Lifted[e] = {}
<1>1. Lifted[e] = LiftedBy(Lifted, e)
  BY LiftedUnfolded, NodeTypes
<1> QED BY <1>1 DEF LiftedBy, Iterations

LEMMA NegationMeans ==
  ASSUME NEW deeper, NEW d, d >= MaxDepth \/ MeansLevel(deeper),
         NEW e \in Built, NEW env \in Envs
  PROVE  Agrees(EvalNegation(deeper, e, env, d), NotMean(e, env))
<1> DEFINE Answered(r) == EvalNegation(deeper, e, env, d) = Negated(r)
           v == Mean(e, env)
           missing == \E t \in Lifted[e] : Mean(t, env) = Undefined
           denied == Boolean(~True(v))
<1>1. CASE d >= MaxDepth
  BY <1>1, AnswerSets DEF EvalNegation, Within, Agrees
<1>2. CASE ~(d >= MaxDepth)
  <2> USE DEF Iterations
  <2>1. MeansNodes(deeper) /\ v \in Defined
    BY <1>2, MeanTyped DEF MeansLevel
  <2>2. NotMean(e, env) = IF missing THEN Undefined ELSE denied
    BY DEF NotMean
  <2>3. /\ Negated(v) = IF v = Undefined THEN Undefined ELSE denied
        /\ Negated(OrNull(v)) = denied /\ Negated(Boolean(True(v))) = denied
    BY <2>1, TruthOf
  <2>4. ASSUME NEW r, NEW x, Agrees(r, x), Answered(r), Negated(x) = NotMean(e, env)
        PROVE  Agrees(EvalNegation(deeper, e, env, d), NotMean(e, env))
    <3>1. Agrees(Negated(r), Negated(x))
      BY <2>4, AgreesOn
    <3> QED BY <2>4, <3>1
  <2>5. CASE e.type = "call"
    <3>1. Answered(deeper.node[<<"lifted_call", e, env>>])
      BY <1>2, <2>5 DEF EvalNegation, Within
    <3>2. Agrees(deeper.node[<<"lifted_call", e, env>>], LiftedMean(e, env))
      BY <2>1, <2>5 DEF MeansNodes, Fits, Helpers, Expected
    <3>3. missing <=> \E i \in DOMAIN e.args : Mean(e.args[i], env) = Undefined
      BY <2>5, LiftedShape
    <3>4. LiftedMean(e, env) = IF missing THEN Undefined ELSE OrNull(v)
      BY <3>3 DEF LiftedMean
    <3>5. Negated(Undefined) = Undefined
      BY DEF Negated, Then, Stops
    <3>6. Negated(LiftedMean(e, env)) = NotMean(e, env)
      <4> HIDE DEF missing, v, denied
      <4> QED BY <2>2, <2>3, <3>4, <3>5
    <3> QED BY <2>4, <3>1, <3>2, <3>6
  <2>6. ASSUME e.type \in {"in"} \cup Iterations PROVE Negated(v) = NotMean(e, env)
    <3>1. missing <=> v = Undefined
      BY <2>6, LiftedShape
    <3> HIDE DEF missing, v, denied
    <3> QED BY <2>2, <2>3, <3>1
  <2>7. CASE e.type = "in"
    <3>1. Answered(deeper.node[<<"member", e, env>>])
      BY <1>2, <2>7 DEF EvalNegation, Within
    <3>2. Agrees(deeper.node[<<"member", e, env>>], v)
      BY <2>1, <2>7 DEF MeansNodes, Fits, Helpers, Expected
    <3> QED BY <2>4, <2>6, <2>7, <3>1, <3>2
  <2>8. CASE e.type = "compare"
    <3>1. EvalNegation(deeper, e, env, d) = NegateCompare(deeper, e, env)
      BY <1>2, <2>8 DEF EvalNegation, Within
    <3> QED BY <1>2, <2>8, <3>1, NegateCompareMeans
  <2>9. CASE e.type = "not"
    <3>1. Answered(deeper.node[<<"negation", e.expr, env>>])
      BY <1>2, <2>9 DEF EvalNegation, Within
    <3>2. Agrees(deeper.node[<<"negation", e.expr, env>>], NotMean(e.expr, env))
      BY <2>1, <2>9, NodeTypes DEF MeansNodes, Fits, Helpers, Expected
    <3>3. v = NotMean(e.expr, env)
      BY <2>9, MeanShape
    <3>4. missing <=> v = Undefined
      <4> DEFINE p == ~True(Mean(e.expr, env))
      <4>1. p \in BOOLEAN
        BY DEF True
      <4>2. v = IF missing THEN Undefined ELSE Boolean(p)
        BY <2>9, <3>3, LiftedShape DEF NotMean
      <4> HIDE DEF p, missing
      <4> QED BY <4>1, <4>2, VerdictOf, AnswerSets
    <3>5. Negated(v) = NotMean(e, env)
      <4> HIDE DEF missing, v, denied
      <4> QED BY <2>2, <2>3, <3>4
    <3> QED BY <2>4, <3>1, <3>2, <3>3, <3>5
  <2>10. CASE e.type \in Iterations
    <3>1. Answered(deeper.node[<<"iteration", e, env>>])
      BY <1>2, <2>10 DEF EvalNegation, Within
    <3>2. Agrees(deeper.node[<<"iteration", e, env>>], v)
      BY <2>1, <2>10 DEF MeansNodes, Fits, Helpers, Expected
    <3> QED BY <2>4, <2>6, <2>10, <3>1, <3>2
  <2>11. CASE e.type \in {"value", "ref", "assign"}
    <3>1. Answered(EvalExprBool(deeper, e, env, d))
      BY <1>2, <2>11 DEF EvalNegation, Within
    <3>2. Agrees(EvalExprBool(deeper, e, env, d), Boolean(True(v)))
      BY <1>2, TruthMeans
    <3>3. ~missing
      BY <2>11, LiftedShape
    <3>4. Negated(Boolean(True(v))) = NotMean(e, env)
      <4> HIDE DEF missing, v, denied
      <4> QED BY <2>2, <2>3, <3>3
    <3> QED BY <2>4, <3>1, <3>2, <3>4
  <2> QED BY <2>5, <2>7, <2>8, <2>9, <2>10, <2>11, NodeTypes
<1> QED BY <1>1, <1>2

LEMMA OperandMeans ==
  ASSUME NEW deeper, NEW d, d >= MaxDepth \/ MeansLevel(deeper),
         NEW e \in Built, NEW env \in Envs
  PROVE  Agrees(ResolveDefined(deeper, e, env, d), Mean(e, env))
<1> USE DEF Iterations
<1>1. CASE e.type = "ref"
  BY <1>1, MeanShape DEF ResolveDefined, Agrees
<1>2. CASE e.type = "compare"
  BY <1>2, CompareMeans DEF ResolveDefined
<1>3. CASE e.type = "not"
  <2>1. ResolveDefined(deeper, e, env, d) = EvalNegation(deeper, e.expr, env, d)
    BY <1>3 DEF ResolveDefined
  <2>2. Mean(e, env) = NotMean(e.expr, env) /\ e.expr \in Built
    BY <1>3, MeanShape, NodeTypes
  <2> QED BY <2>1, <2>2, NegationMeans
<1>4. CASE e.type \in Iterations
  BY <1>4, IterationMeans DEF ResolveDefined
<1>5. CASE e.type = "in"
  BY <1>5, MemberMeans DEF ResolveDefined
<1>6. CASE e.type = "call"
  <2> DEFINE lifted == TRUE
             r == EvalCall(deeper, e, env, d, lifted)
             missing == \E i \in DOMAIN e.args : Mean(e.args[i], env) = Undefined
  <2>1. ResolveDefined(deeper, e, env, d) = IF r = Null THEN Undefined ELSE r
    BY <1>6 DEF ResolveDefined
  <2>2. lifted \in BOOLEAN /\ lifted
    OBVIOUS
  <2> HIDE DEF lifted
  <2>3. Agrees(r, LiftedMean(e, env))
    BY <1>6, <2>2, CallMeans
  <2>4. LiftedMean(e, env) = IF missing THEN Undefined ELSE OrNull(Mean(e, env))
    BY DEF LiftedMean
  <2>5. missing => Mean(e, env) = Undefined
    BY <1>6, MeanShape
  <2>6. Mean(e, env) # Null
    BY <1>6, CallNotNull
  <2>7. Null # Undefined /\ Null \notin Errors
    BY AnswerSets, ValueShape
  <2> HIDE DEF r, missing
  <2> QED BY <2>1, <2>3, <2>4, <2>5, <2>6, <2>7 DEF Agrees, OrNull
<1>7. CASE e.type = "value"
  <2>1. ResolveDefined(deeper, e, env, d) = ResolveValue(deeper, e, env, d)
    BY <1>7 DEF ResolveDefined
  <2>2. Mean(e, env) = e.value
    BY <1>7, MeanShape
  <2>3. OrNull(Mean(e, env)) = Mean(e, env)
    BY <1>7, <2>2, NodeTypes, AnswerSets DEF OrNull
  <2> QED BY <2>1, <2>3, ValueMeans
<1>8. CASE e.type = "assign"
  <2>1. ResolveDefined(deeper, e, env, d) = ResolveValue(deeper, e, env, d)
    BY <1>8 DEF ResolveDefined
  <2>2. ResolveValue(deeper, e, env, d) \in {TooDeep, Error("AssignOutsideBody")}
    BY <1>8 DEF ResolveValue, Within
  <2> QED BY <2>1, <2>2 DEF Agrees, Errors, TooDeep
<1> QED BY <1>1, <1>2, <1>3, <1>4, <1>5, <1>6, <1>7, <1>8, NodeTypes

LEMMA BoundMeans ==
  ASSUME NEW deeper, MeansLevel(deeper), NEW e \in Built, NEW env \in Envs
  PROVE  Agrees(BoundValue(deeper, e, env), Mean(e, env))
<1>1. CASE e.type = "value"
  BY <1>1, MeanShape DEF BoundValue, Agrees
<1>2. CASE e.type = "ref"
  BY <1>2, MeanShape DEF BoundValue, Agrees
<1>3. CASE e.type \notin {"value", "ref"}
  <2> DEFINE r == deeper.node[<<"value", e, env>>]
             v == Mean(e, env)
  <2>1. BoundValue(deeper, e, env) = IF r = Null THEN Undefined ELSE r
    BY <1>3 DEF BoundValue
  <2>2. Agrees(r, OrNull(v))
    BY DEF MeansLevel, MeansNodes, Fits, Helpers, Expected
  <2>3. v # Null
    <3>1. CASE e.type = "call"
      BY <3>1, CallNotNull
    <3>2. CASE e.type = "assign"
      BY <3>2, MeanShape, AnswerSets
    <3>3. CASE e.type \in {"compare", "in", "not"} \cup Iterations
      BY <3>3, MeanVerdict, AnswerSets
    <3> QED BY <1>3, <3>1, <3>2, <3>3, NodeTypes
  <2>4. Null # Undefined /\ Null \notin Errors
    BY AnswerSets, ValueShape
  <2> HIDE DEF r, v
  <2> QED BY <2>1, <2>2, <2>3, <2>4 DEF Agrees, OrNull, v
<1> QED BY <1>1, <1>2, <1>3

LEMMA BodyMeans ==
  ASSUME NEW deeper, NEW d, d >= MaxDepth \/ MeansLevel(deeper),
         NEW stmts \in Bodies, NEW from \in 1 .. Len(stmts) + 1, NEW env \in Envs
  PROVE  Agrees(EvalBody(deeper, stmts, from, env, d), Boolean(BodyMean(stmts, from, env)))
<1> DEFINE bindings == Bindings(stmts, from)
           next == First(bindings)
           conditions == Conditions(stmts, from)
           Held(i) == EvalExprBool(deeper, stmts[i], env, d)
           held == EvalConditions(deeper, stmts, conditions, env, d)
           e == stmts[next].value
           var == stmts[next].var
           bound == BoundValue(deeper, e, env)
           rest == deeper.body[<<stmts, next + 1, Push(env, var, bound)>>]
           whole == EvalBody(deeper, stmts, from, env, d)
           meant == BodyMean(stmts, from, env)
           hold == \A i \in conditions : True(Mean(stmts[i], env))
           onward == Mean(e, env) # Undefined /\ BodyMean(stmts, next + 1, Push(env, var, Mean(e, env)))
           yes == Boolean(TRUE)
           no == Boolean(FALSE)
<1>1. CASE d >= MaxDepth
  BY <1>1, AnswerSets DEF EvalBody, Within, Agrees
<1>2. CASE ~(d >= MaxDepth)
  <2>1. whole = (IF held # yes \/ bindings = {} THEN held
                 ELSE OrFalse(IF Stops(bound) THEN bound ELSE rest))
    BY <1>2 DEF EvalBody, Within, Then, Conditions
  <2>2. meant <=> hold /\ (bindings # {} => onward)
    BY BodyMeanShape
  <2>3. from \in Nat \ {0} /\ Len(stmts) \in Nat /\ stmts \in Seq(Nodes)
    BY DEF Bodies
  <2>4. conditions \in SUBSET Nat /\ \A i \in conditions : stmts[i] \in Built
    BY <2>3, BodyShape DEF Bodies
  <2>5. \A i \in conditions : Agrees(Held(i), Boolean(True(Mean(stmts[i], env))))
    BY <1>2, <2>4, TruthMeans
  <2>6. /\ meant \in BOOLEAN /\ \A v : True(v) \in BOOLEAN
        /\ \A p \in BOOLEAN : Boolean(p) = IF p THEN yes ELSE no
        /\ yes # no /\ yes \notin Errors /\ no \notin Errors
    <3>1. \A p \in BOOLEAN : Boolean(p) = IF p THEN yes ELSE no
      BY DEF Boolean
    <3>2. yes # no /\ yes \notin Errors /\ no \notin Errors
      BY Distinct
    <3>3. meant \in BOOLEAN /\ \A v : True(v) \in BOOLEAN
      BY DEF BodyMean, True
    <3> HIDE DEF yes, no, meant
    <3> QED BY <3>1, <3>2, <3>3
  <2>7. held \in Errors \/ held = (IF hold THEN yes ELSE no)
    <3>1. Settle(deeper, stmts, conditions, env, d)
      BY <2>4, ConditionsSettle
    <3>2. \/ held = yes /\ \A i \in conditions : Held(i) = yes
          \/ \E i \in conditions : held = Held(i) /\ Held(i) # yes
      BY <3>1 DEF Settle
    <3> HIDE DEF held, Held, conditions, yes, no
    <3>3. CASE held = yes /\ \A i \in conditions : Held(i) = yes
      <4>1. \A i \in conditions : True(Mean(stmts[i], env))
        BY <2>5, <2>6, <3>3 DEF Agrees
      <4> QED BY <3>3, <4>1
    <3>4. CASE \E i \in conditions : held = Held(i) /\ Held(i) # yes
      <4>1. PICK i \in conditions : held = Held(i) /\ Held(i) # yes
        BY <3>4
      <4>2. held \in Errors \/ (held = no /\ ~True(Mean(stmts[i], env)))
        BY <2>5, <2>6, <4>1 DEF Agrees
      <4> QED BY <4>1, <4>2
    <3> QED BY <3>2, <3>3, <3>4
  <2>8. ASSUME bindings # {}
        PROVE  LET then == OrFalse(IF Stops(bound) THEN bound ELSE rest)
               IN  then \in Errors \/ then = (IF onward THEN yes ELSE no)
    <3>1. stmts[next] \in Built /\ stmts[next].type = "assign" /\ next + 1 \in 1 .. Len(stmts) + 1
      BY <2>3, <2>8, BodyShape, NextPosition
    <3>2. e \in Built /\ var \in Strings
      BY <3>1, NodeTypes
    <3>3. bound \in Results /\ Agrees(bound, Mean(e, env))
      BY <1>2, <3>2, BoundValueTyped, BoundMeans DEF MeansLevel
    <3>4. ASSUME ~Stops(bound) PROVE Agrees(rest, Boolean(BodyMean(stmts, next + 1, Push(env, var, bound))))
      <4>1. bound \in JsonValues
        BY <3>3, <3>4, AnswerSets
      <4>2. Push(env, var, bound) \in Envs
        BY <3>2, <4>1, PushEnv
      <4> HIDE DEF next, bound, var
      <4> QED BY <1>2, <3>1, <4>2 DEF MeansLevel, MeansBodies
    <3>5. \A r \in Errors : OrFalse(r) = r
      BY AnswerSets DEF OrFalse
    <3>6. OrFalse(Undefined) = no
      BY DEF OrFalse
    <3>7. yes # Undefined /\ no # Undefined
      BY Distinct
    <3> DEFINE reached == BodyMean(stmts, next + 1, Push(env, var, bound))
    <3>8. reached \in BOOLEAN
      BY DEF BodyMean
    <3>9. CASE bound \in Errors
      <4> HIDE DEF bound, rest
      <4> QED BY <3>5, <3>9 DEF Stops
    <3>10. CASE bound = Undefined
      <4>1. ~onward
        <5>1. Mean(e, env) = Undefined
          BY <3>3, <3>10, AnswerSets DEF Agrees
        <5> QED BY <5>1
      <4> HIDE DEF bound, rest, onward, no, yes
      <4> QED BY <3>6, <3>10, <4>1 DEF Stops
    <3>11. CASE ~Stops(bound)
      <4>1. bound = Mean(e, env) /\ Mean(e, env) # Undefined
        BY <3>3, <3>11 DEF Stops, Agrees
      <4>2. onward = reached
        BY <3>8, <4>1
      <4>3. rest \in Errors \/ rest = IF reached THEN yes ELSE no
        <5> HIDE DEF rest, reached, yes, no
        <5> QED BY <2>6, <3>4, <3>8, <3>11 DEF Agrees, reached
      <4> HIDE DEF bound, rest, onward, reached, yes, no
      <4>4. OrFalse(IF Stops(bound) THEN bound ELSE rest) = rest
        BY <3>5, <3>7, <3>11, <4>3 DEF OrFalse
      <4> QED BY <4>2, <4>3, <4>4
    <3> QED BY <3>9, <3>10, <3>11 DEF Stops
  <2> DEFINE then == OrFalse(IF Stops(bound) THEN bound ELSE rest)
  <2>9. bindings # {} => then \in Errors \/ then = (IF onward THEN yes ELSE no)
    BY <2>8
  <2>10. whole \in Errors \/ whole = IF meant THEN yes ELSE no
    <3> HIDE DEF whole, held, then, bindings, onward, hold, meant, yes, no
    <3>1. whole = (IF held # yes \/ bindings = {} THEN held ELSE then)
      BY <2>1 DEF then
    <3> QED BY <2>2, <2>6, <2>7, <2>9, <3>1
  <2> HIDE DEF yes, no
  <2> QED BY <2>6, <2>10 DEF Agrees
<1> QED BY <1>1, <1>2

LEMMA LevelMeans ==
  ASSUME NEW deeper, NEW d, d >= MaxDepth \/ MeansLevel(deeper)
  PROVE  MeansLevel(Level(deeper, d))
<1>1. TypedLevel(Level(deeper, d))
  BY LevelTyped DEF MeansLevel
<1>2. ASSUME NEW helper \in Helpers, NEW e \in Built, NEW env \in Envs, Fits(helper, e)
      PROVE  Agrees(Level(deeper, d).node[<<helper, e, env>>], Expected(helper, e, env))
  <2>1. Level(deeper, d).node[<<helper, e, env>>] = EvalNode(deeper, helper, e, env, d)
    BY LevelApplied, NodeTypes
  <2>2. CASE helper = "operand"
    BY <2>1, <2>2, OperandMeans DEF EvalNode, Expected
  <2>3. CASE helper = "value"
    BY <2>1, <2>3, ValueMeans DEF EvalNode, Expected
  <2>4. CASE helper = "compare"
    BY <1>2, <2>1, <2>4, CompareMeans DEF EvalNode, Expected, Fits
  <2>5. CASE helper = "member"
    BY <1>2, <2>1, <2>5, MemberMeans DEF EvalNode, Expected, Fits
  <2>6. CASE helper = "iteration"
    BY <1>2, <2>1, <2>6, IterationMeans DEF EvalNode, Expected, Fits
  <2>7. CASE helper = "call"
    <3> DEFINE lifted == FALSE
    <3>1. e.type = "call" /\ lifted \in BOOLEAN /\ ~lifted
      BY <1>2, <2>7 DEF Fits
    <3>2. EvalNode(deeper, helper, e, env, d) = EvalCall(deeper, e, env, d, lifted)
      BY <2>7 DEF EvalNode
    <3> HIDE DEF lifted
    <3>3. Agrees(EvalCall(deeper, e, env, d, lifted), OrNull(Mean(e, env)))
      BY <3>1, CallMeans
    <3> QED BY <2>1, <2>7, <3>2, <3>3 DEF Expected
  <2>8. CASE helper = "lifted_call"
    <3> DEFINE lifted == TRUE
    <3>1. e.type = "call" /\ lifted \in BOOLEAN /\ lifted
      BY <1>2, <2>8 DEF Fits
    <3>2. EvalNode(deeper, helper, e, env, d) = EvalCall(deeper, e, env, d, lifted)
      BY <2>8 DEF EvalNode
    <3> HIDE DEF lifted
    <3>3. Agrees(EvalCall(deeper, e, env, d, lifted), LiftedMean(e, env))
      BY <3>1, CallMeans
    <3> QED BY <2>1, <2>8, <3>2, <3>3 DEF Expected
  <2>9. CASE helper = "negation"
    BY <2>1, <2>9, NegationMeans DEF EvalNode, Expected
  <2> QED BY <2>2, <2>3, <2>4, <2>5, <2>6, <2>7, <2>8, <2>9 DEF Helpers
<1>3. ASSUME NEW stmts \in Bodies, NEW from \in 1 .. Len(stmts) + 1, NEW env \in Envs
      PROVE  Agrees(Level(deeper, d).body[<<stmts, from, env>>], Boolean(BodyMean(stmts, from, env)))
  <2>1. stmts \in Seq(Nodes) /\ from \in Nat \ {0}
    BY DEF Bodies
  <2>2. Level(deeper, d).body[<<stmts, from, env>>] = EvalBody(deeper, stmts, from, env, d)
    BY <2>1, LevelApplied
  <2> QED BY <2>2, BodyMeans
<1> QED BY <1>1, <1>2, <1>3 DEF MeansLevel, MeansNodes, MeansBodies

LEMMA EvalMeans ==
  \A d \in 0 .. MaxDepth : MeansLevel(Eval[d])
<1> DEFINE S == {d \in 0 .. MaxDepth : MeansLevel(Eval[d])}
<1>0. MaxDepth \in Nat
  BY EvaluatorAssumption
<1>1. MaxDepth \in S
  BY <1>0, EvalUnfolded, LevelMeans
<1>2. ASSUME NEW d \in 0 .. MaxDepth, d < MaxDepth, d + 1 \in S PROVE d \in S
  <2>1. Deeper(Eval, d) = Eval[d + 1]
    BY <1>0, <1>2 DEF Deeper
  <2> QED BY <1>2, <2>1, EvalUnfolded, LevelMeans
<1> HIDE DEF S
<1>3. 0 .. MaxDepth \subseteq S
  <2> S \subseteq 0 .. MaxDepth BY DEF S
  <2> QED BY <1>1, <1>2, FromTheCap
<1> QED BY <1>3 DEF S

(* A rule that is not refused allows when its body and its value hold.     *)
LEMMA RuleMeans ==
  ASSUME NEW stmts, NEW answer, <<stmts, answer>> \in Rules, NEW doc \in JsonValues,
         EvalRule(stmts, answer, doc) \in {"allow", "deny"}
  PROVE  EvalRule(stmts, answer, doc) = "allow" <=> RuleAllows(stmts, answer, doc, FALSE)
<1> DEFINE env == StartEnv(doc)
           held == Eval[0].body[<<stmts, 1, env>>]
           result == Eval[0].node[<<"value", answer, env>>]
           decided == ResultOf(stmts, answer, doc)
           yes == Boolean(TRUE)
           no == Boolean(FALSE)
           bodyMeans == BodyMean(stmts, 1, env)
           v == Mean(answer, env)
<1>1. env \in Envs /\ stmts \in Bodies /\ (answer # NoValue => answer \in Built) /\ 1 \in 1 .. Len(stmts) + 1
  BY RuleParts, StartTyped, BodyShape
<1>2. MeansLevel(Eval[0])
  BY EvalMeans, EvaluatorAssumption
<1>3. RuleAllows(stmts, answer, doc, FALSE) <=> bodyMeans /\ (answer # NoValue => True(v))
  <2>1. BodyHolds(Meaning, stmts, env, FALSE) <=> bodyMeans
    BY DEF BodyHolds, BodyMean, Strict
  <2>2. IsTrue(Meaning[answer][<<env, FALSE>>], FALSE) <=> True(v)
    BY DEF IsTrue, True, Truthy, Mean, Strict
  <2> QED BY <2>1, <2>2 DEF RuleAllows, StartEnv
<1>4. decided \notin Errors /\ (EvalRule(stmts, answer, doc) = "allow" <=> decided = yes)
  <2>1. decided \in Errors => Content(decided) \notin {"allow", "deny"}
    BY AnswerNames
  <2> HIDE DEF decided
  <2> QED BY <2>1, RuleAnswer DEF decided
<1>5. decided = IF Stops(held) THEN held
                ELSE IF held # yes \/ answer = NoValue THEN held ELSE Holds(result)
  BY DEF ResultOf, RuleResult, Then
<1>6. held \in Verdicts \cup Errors /\ Agrees(held, Boolean(bodyMeans))
  BY <1>1, <1>2 DEF MeansLevel, TypedLevel, TypedBodies, MeansBodies
<1>7. /\ \A p \in BOOLEAN : Boolean(p) = IF p THEN yes ELSE no
      /\ yes # no /\ yes \notin Errors /\ no \notin Errors /\ ~Stops(yes) /\ ~Stops(no)
  <2>1. \A p \in BOOLEAN : Boolean(p) = IF p THEN yes ELSE no
    BY DEF Boolean
  <2>2. yes # no /\ yes \notin Errors /\ no \notin Errors
    BY Distinct
  <2>3. ~Stops(yes) /\ ~Stops(no)
    BY AnswerSets DEF Verdicts
  <2> HIDE DEF yes, no
  <2> QED BY <2>1, <2>2, <2>3
<1>8. bodyMeans \in BOOLEAN /\ True(v) \in BOOLEAN
  BY DEF BodyMean, True
<1>9. ASSUME answer # NoValue PROVE Holds(result) \in Errors \/ Holds(result) = Boolean(True(v))
  <2>1. Agrees(result, OrNull(v)) /\ result \in JsonValues \cup Errors
    BY <1>1, <1>2, <1>9 DEF MeansLevel, TypedLevel, TypedNodes, MeansNodes, Fits, Helpers, Expected, Answering
  <2>2. v \in Defined
    BY <1>1, <1>9, MeanTyped
  <2>3. OrFalse(Holds(OrNull(v))) = Boolean(True(v))
    BY <2>2, TruthOf
  <2>4. OrNull(v) \in JsonValues
    BY <2>2, AnswerSets DEF OrNull, Defined
  <2>5. Holds(OrNull(v)) = Boolean(Truthy(OrNull(v))) /\ Truthy(OrNull(v)) \in BOOLEAN
    <3>1. ~Stops(OrNull(v))
      BY <2>4, AnswerSets
    <3> QED BY <3>1 DEF Holds, Then, Truthy
  <2>6. Boolean(Truthy(OrNull(v))) # Undefined
    BY <2>5, VerdictOf, AnswerSets
  <2>7. Holds(OrNull(v)) = Boolean(True(v))
    BY <2>3, <2>5, <2>6 DEF OrFalse
  <2>8. Agrees(Holds(result), Holds(OrNull(v)))
    BY <2>1, AgreesOn
  <2> QED BY <2>7, <2>8 DEF Agrees
<1>10. held \notin Errors => held = (IF bodyMeans THEN yes ELSE no)
  BY <1>6, <1>7, <1>8 DEF Agrees
<1>11. answer # NoValue => Holds(result) \in Errors \/ Holds(result) = (IF True(v) THEN yes ELSE no)
  BY <1>7, <1>8, <1>9
<1>12. held \in Errors => decided = held
  BY <1>5 DEF Stops
<1> HIDE DEF held, result, decided, yes, no, bodyMeans, v
<1>13. held = IF bodyMeans THEN yes ELSE no
  BY <1>4, <1>10, <1>12
<1>14. decided = IF held # yes \/ answer = NoValue THEN held ELSE Holds(result)
  BY <1>5, <1>7, <1>13
<1>15. decided = yes <=> bodyMeans /\ (answer # NoValue => True(v))
  <2>1. CASE ~bodyMeans \/ answer = NoValue
    BY <1>7, <1>13, <1>14, <2>1
  <2>2. CASE bodyMeans /\ answer # NoValue
    <3>1. decided = Holds(result)
      BY <1>13, <1>14, <2>2
    <3> QED BY <1>4, <1>7, <1>11, <2>2, <3>1
  <2> QED BY <2>1, <2>2
<1> QED BY <1>3, <1>4, <1>15

LEMMA DecidesInvariant ==
  IInv => DecidesMeaning
<1> SUFFICES ASSUME IInv, Decided
             PROVE  outcome = "allow" <=> RuleAllows(body, value, input, FALSE)
  BY DEF DecidesMeaning
<1>1. <<body, value>> \in Rules /\ input \in JsonValues /\ outcome = EvalRule(body, value, input)
  BY Evaluated
<1>2. EvalRule(body, value, input) \in {"allow", "deny"}
  BY <1>1 DEF Decided
<1> QED BY <1>1, <1>2, RuleMeans, Zenon

(* A decision is what the policy means: the evaluator's depth cap, its     *)
(* order of evaluation and its errors refuse policies on some inputs, and  *)
(* never decide them otherwise (eval.zig:302, 327-377, 405-440).           *)
THEOREM DecisionsMeanIt ==
  Spec => []DecidesMeaning
BY DecidesInvariant, Invariance, PTL
==============================================================================
