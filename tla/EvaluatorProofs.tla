--------------------------- MODULE EvaluatorProofs ---------------------------
(***************************************************************************)
(* The expression evaluator, for any expressions, values, documents and    *)
(* any cap on its depth. Expressions have a height, paths a length and     *)
(* levels a distance to the cap: a function that recurs on what is lower   *)
(* has a solution (RecursionSolved), so that Parts, Walk, Lifted, Levels   *)
(* and Eval have the values they are written to have. A fact about the     *)
(* evaluator is one of its levels: it holds of what a level makes of each  *)
(* node and each body when it holds of the level below, one lemma per      *)
(* helper, and so of all from the cap up to the first (FromTheCap). Proved *)
(* that way are the type of every answer, that an answer depends on the    *)
(* document through the paths of the refs alone, and that only a costly    *)
(* expression hits the cap. IInv ties the answer that is kept to the       *)
(* evaluator.                                                              *)
(***************************************************************************)
EXTENDS Evaluator, FiniteSetTheorems, WellFoundedInduction, TLAPS

-----------------------------------------------------------------------------
(* Recursion and induction over what has a height.                         *)

(* A nonempty set of naturals has a least element.                         *)
LEMMA LeastNatural ==
  ASSUME NEW T \in SUBSET Nat, T # {}
  PROVE  \E x \in T : \A y \in T : x <= y
<1>1. IsWellFoundedOn(OpToRel(<, Nat), Nat)
  BY NatLessThanWellFounded
<1>2. \E x \in T : \A y \in T : <<y, x>> \notin OpToRel(<, Nat)
  BY <1>1, WFMin
<1>3. \E x \in T : \A y \in T : ~(y < x)
  BY <1>2 DEF OpToRel
<1> QED BY <1>3

(* What holds of zero, and of the successor of what it holds of, holds of  *)
(* every natural.                                                          *)
LEMMA NaturalsFrom ==
  ASSUME NEW T, 0 \in T, \A n \in Nat : n \in T => n + 1 \in T
  PROVE  Nat \subseteq T
<1> SUFFICES ASSUME Nat \ T # {} PROVE FALSE OBVIOUS
<1>1. PICK x \in Nat \ T : \A y \in Nat \ T : x <= y
  BY LeastNatural
<1> QED BY <1>1, x - 1 \in Nat \/ x = 0

(* What holds of an element whenever it holds of all lower ones holds of   *)
(* all.                                                                    *)
LEMMA ByHeight ==
  ASSUME NEW S, NEW h \in [S -> Nat], NEW T,
         \A s \in S : (\A t \in S : h[t] < h[s] => t \in T) => s \in T
  PROVE  S \subseteq T
<1> SUFFICES ASSUME NEW u \in S, u \notin T PROVE FALSE OBVIOUS
<1> DEFINE Bad == {h[s] : s \in S \ T}
<1>1. PICK x \in Bad : \A y \in Bad : x <= y
  <2>1. h[u] \in Bad /\ Bad \in SUBSET Nat OBVIOUS
  <2> QED BY <2>1, LeastNatural
<1>2. PICK s \in S \ T : x = h[s]
  BY <1>1
<1>3. \A t \in S : h[t] < h[s] => t \in T
  BY <1>1, <1>2
<1> QED BY <1>2, <1>3

(* A recursive definition whose right-hand side reads the function only on *)
(* what is lower has a solution.                                           *)
Solves(step, h, f, n) == \A s \in DOMAIN h : h[s] < n => f[s] = step[<<f, s>>]

Local(step, S, X, h) ==
  \A s \in S : \A f, g \in [S -> X] :
    (\A t \in S : h[t] < h[s] => f[t] = g[t]) => step[<<f, s>>] = step[<<g, s>>]

LEMMA SolutionsAgree ==
  ASSUME NEW S, NEW X, NEW h \in [S -> Nat], NEW step, Local(step, S, X, h),
         NEW n \in Nat, NEW f \in [S -> X], NEW g \in [S -> X],
         Solves(step, h, f, n), Solves(step, h, g, n)
  PROVE  \A s \in S : h[s] < n => f[s] = g[s]
<1> DEFINE T == {s \in S : h[s] < n => f[s] = g[s]}
<1>1. \A s \in S : (\A t \in S : h[t] < h[s] => t \in T) => s \in T
  <2> SUFFICES ASSUME NEW s \in S, \A t \in S : h[t] < h[s] => t \in T, h[s] < n
               PROVE  f[s] = g[s]
    OBVIOUS
  <2>1. \A t \in S : h[t] < h[s] => f[t] = g[t]
    OBVIOUS
  <2> QED BY <2>1 DEF Local, Solves
<1> HIDE DEF T
<1>2. S \subseteq T
  BY <1>1, ByHeight
<1> QED BY <1>2 DEF T

Solutions(step, S, X) == {f \in [S -> X] : \A s \in S : f[s] = step[<<f, s>>]}

LEMMA RecursionSolved ==
  ASSUME NEW S, NEW X, X # {}, NEW h \in [S -> Nat], NEW step \in [[S -> X] \X S -> X],
         Local(step, S, X, h)
  PROVE  Solutions(step, S, X) # {}
<1> DEFINE T == {n \in Nat : \E f \in [S -> X] : Solves(step, h, f, n)}
<1>1. Nat \subseteq T
  <2>1. 0 \in T
    <3> PICK x \in X : TRUE OBVIOUS
    <3>1. [s \in S |-> x] \in [S -> X] OBVIOUS
    <3>2. Solves(step, h, [s \in S |-> x], 0) BY DEF Solves
    <3> QED BY <3>1, <3>2
  <2>2. \A n \in Nat : n \in T => n + 1 \in T
    <3> SUFFICES ASSUME NEW n \in Nat, NEW f \in [S -> X], Solves(step, h, f, n)
                 PROVE  \E g \in [S -> X] : Solves(step, h, g, n + 1)
      OBVIOUS
    <3> DEFINE g == [s \in S |-> IF h[s] < n THEN f[s] ELSE step[<<f, s>>]]
    <3>1. g \in [S -> X] OBVIOUS
    <3>2. Solves(step, h, g, n + 1)
      <4> SUFFICES ASSUME NEW s \in S, h[s] < n + 1 PROVE g[s] = step[<<g, s>>]
        BY DEF Solves
      <4>1. \A t \in S : h[t] < h[s] => f[t] = g[t]
        OBVIOUS
      <4>2. step[<<f, s>>] = step[<<g, s>>]
        BY <3>1, <4>1 DEF Local
      <4>3. g[s] = step[<<f, s>>]
        BY DEF Solves
      <4> QED BY <4>2, <4>3
    <3> QED BY <3>1, <3>2
  <2> HIDE DEF T
  <2> QED BY <2>1, <2>2, NaturalsFrom
<1> DEFINE F(n) == CHOOSE f \in [S -> X] : Solves(step, h, f, n)
           whole == [s \in S |-> F(h[s] + 1)[s]]
<1>2. ASSUME NEW n \in Nat PROVE F(n) \in [S -> X] /\ Solves(step, h, F(n), n)
  BY <1>1
<1> HIDE DEF F, T
<1>3. ASSUME NEW s \in S PROVE h[s] + 1 \in Nat /\ whole[s] \in X
  BY <1>2
<1>4. whole \in [S -> X]
  BY <1>3
<1>5. ASSUME NEW s \in S PROVE whole[s] = step[<<whole, s>>]
  <2> DEFINE f == F(h[s] + 1)
  <2>1. f \in [S -> X] /\ Solves(step, h, f, h[s] + 1)
    BY <1>2, <1>3
  <2>4. f[s] = step[<<f, s>>]
    <3> HIDE DEF f
    <3> QED BY <2>1, <1>3 DEF Solves
  <2>2. ASSUME NEW t \in S, h[t] < h[s] PROVE f[t] = whole[t]
    <3> DEFINE m == h[t] + 1
    <3>1. m \in Nat /\ Solves(step, h, F(m), m) /\ F(m) \in [S -> X] /\ h[t] < m /\ m <= h[s]
      BY <1>2, <1>3, <2>2
    <3> HIDE DEF m, f
    <3>2. Solves(step, h, f, m)
      BY <2>1, <3>1 DEF Solves
    <3>3. f[t] = F(m)[t]
      BY <2>1, <3>1, <3>2, SolutionsAgree
    <3> QED BY <3>3 DEF m
  <2> HIDE DEF f
  <2>3. step[<<f, s>>] = step[<<whole, s>>]
    BY <1>4, <2>1, <2>2 DEF Local
  <2> QED BY <2>3, <2>4 DEF f
<1> QED BY <1>4, <1>5 DEF Solutions

-----------------------------------------------------------------------------
(* The recursive definitions of the model have the values they are written *)
(* to have.                                                                *)

(* What is nested in a node is a node, of a lower height.                  *)
LEMMA ChildrenLower ==
  ASSUME NEW e \in Nodes
  PROVE  /\ Height(e) \in Nat
         /\ \A c \in Children(e) : c \in Nodes /\ Height(c) \in Nat /\ Height(c) < Height(e)
BY NodesAssumption DEF NodeOK

Heights == [e \in Nodes |-> Height(e)]

LEMMA HeightsNatural ==
  /\ Heights \in [Nodes -> Nat]
  /\ \A e \in Nodes : Heights[e] = Height(e)
BY ChildrenLower DEF Heights

(* Parts: the parts of an expression are nodes, itself and the parts of    *)
(* what is right under it.                                                 *)
LEMMA PartsUnfolded ==
  /\ Parts = [e \in Nodes |-> PartsBy(Parts, e)]
  /\ Parts \in [Nodes -> SUBSET Nodes]
<1> DEFINE X == SUBSET Nodes
           step == [p \in [Nodes -> X] \X Nodes |-> PartsBy(p[1], p[2])]
<1>1. ASSUME NEW f \in [Nodes -> X], NEW e \in Nodes PROVE PartsBy(f, e) \in X
  BY ChildrenLower DEF PartsBy
<1>2. step \in [[Nodes -> X] \X Nodes -> X]
  BY <1>1
<1>3. ASSUME NEW f \in [Nodes -> X], NEW e \in Nodes PROVE step[<<f, e>>] = PartsBy(f, e)
  OBVIOUS
<1> HIDE DEF step
<1>4. Local(step, Nodes, X, Heights)
  <2> SUFFICES ASSUME NEW e \in Nodes, NEW f \in [Nodes -> X], NEW g \in [Nodes -> X],
                      \A c \in Nodes : Heights[c] < Heights[e] => f[c] = g[c]
               PROVE  PartsBy(f, e) = PartsBy(g, e)
    BY <1>3 DEF Local
  <2>1. \A c \in Children(e) : f[c] = g[c]
    BY ChildrenLower, HeightsNatural
  <2> QED BY <2>1 DEF PartsBy
<1>5. Solutions(step, Nodes, X) # {}
  <2>1. X # {} /\ Heights \in [Nodes -> Nat]
    BY HeightsNatural
  <2> HIDE DEF X
  <2> QED BY <1>2, <1>4, <2>1, RecursionSolved
<1>6. \E f : f = [e \in Nodes |-> PartsBy(f, e)]
  <2> PICK f \in [Nodes -> X] : \A e \in Nodes : f[e] = step[<<f, e>>]
    BY <1>5 DEF Solutions
  <2>1. \A e \in Nodes : f[e] = PartsBy(f, e)
    BY <1>3
  <2>2. f = [e \in Nodes |-> PartsBy(f, e)]
    BY <2>1
  <2> QED BY <2>2
<1>7. Parts = [e \in Nodes |-> PartsBy(Parts, e)]
  BY <1>6 DEF Parts
<1>8. Nodes \subseteq {e \in Nodes : Parts[e] \in X}
  <2> DEFINE T == {e \in Nodes : Parts[e] \in X}
  <2>1. \A e \in Nodes : (\A c \in Nodes : Heights[c] < Heights[e] => c \in T) => e \in T
    <3> SUFFICES ASSUME NEW e \in Nodes, \A c \in Nodes : Heights[c] < Heights[e] => c \in T
                 PROVE  PartsBy(Parts, e) \in X
      BY <1>7
    <3>1. \A c \in Children(e) : Parts[c] \in X
      BY ChildrenLower, HeightsNatural
    <3> QED BY <3>1 DEF PartsBy
  <2> HIDE DEF T
  <2>2. Nodes \subseteq T
    BY <2>1, HeightsNatural, ByHeight
  <2> QED BY <2>2 DEF T
<1> QED BY <1>7, <1>8

-----------------------------------------------------------------------------
(* What operators on values answer.                                        *)

LEMMA FirstPosition ==
  ASSUME NEW S \in SUBSET Nat, S # {}
  PROVE  First(S) \in S /\ \A j \in S : First(S) <= j
BY LeastNatural DEF First

LEMMA LastPosition ==
  ASSUME NEW n \in Nat, NEW S \in SUBSET (1 .. n), S # {}
  PROVE  LET i == CHOOSE i \in S : \A j \in S : j <= i IN i \in S /\ \A j \in S : j <= i
<1> DEFINE T == {n - i : i \in S}
<1>1. T \in SUBSET Nat /\ T # {}
  <2>1. \A i \in S : n - i \in Nat
    OBVIOUS
  <2>2. PICK i \in S : TRUE
    OBVIOUS
  <2>3. n - i \in T
    OBVIOUS
  <2> QED BY <2>1, <2>3
<1>2. PICK x \in T : \A y \in T : x <= y
  BY <1>1, LeastNatural
<1>3. PICK i \in S : x = n - i
  BY <1>2
<1>4. \A j \in S : j <= i
  BY <1>2, <1>3
<1> QED BY <1>3, <1>4

Defined == JsonValues \cup {Undefined}
Results == Defined \cup Errors

Kinds == {"null", "boolean", "number", "string", "array", "set", "object"}

(* A value is a pair of a kind and its content, unlike what is no value.   *)
LEMMA ValueShape ==
  ASSUME NEW v \in JsonValues
  PROVE  /\ WellFormed(v) /\ Kind(v) \in Kinds
         /\ v # Undefined /\ v \notin Errors
<1>1. WellFormed(v)
  BY ValuesAssumption
<1>2. v = <<Kind(v), Content(v)>> /\ Kind(v) \in Kinds
  BY <1>1 DEF WellFormed, Kinds
<1>3. ASSUME v = Undefined PROVE FALSE
  BY <1>2, <1>3 DEF Undefined, Kind, Kinds
<1>4. ASSUME v \in Errors PROVE FALSE
  BY <1>2, <1>4 DEF Errors, Error, Kind, Kinds
<1> QED BY <1>1, <1>2, <1>3, <1>4

LEMMA Contents ==
  ASSUME NEW v \in JsonValues
  PROVE  /\ Kind(v) \in {"array", "set"} => Content(v) \in Seq(JsonValues)
         /\ Kind(v) = "object" =>
              /\ Content(v) \in Seq([key : Strings, value : JsonValues])
              /\ \A i \in DOMAIN Content(v) : String(Content(v)[i].key) \in JsonValues
         /\ Kind(v) = "string" => Content(v) \in Strings
         /\ Kind(v) \in {"string", "array", "set", "object"} => Number(Len(Content(v))) \in JsonValues
BY ValuesAssumption DEF WellFormed

LEMMA Elem ==
  ASSUME NEW X, NEW s \in Seq(X)
  PROVE  /\ Len(s) \in Nat /\ DOMAIN s = 1 .. Len(s)
         /\ \A i \in DOMAIN s : s[i] \in X
OBVIOUS

(* What a failed call, a missing path and a value are told apart by.       *)
LEMMA Distinct ==
  /\ Boolean(TRUE) # Boolean(FALSE) /\ Null \notin {Boolean(TRUE), Boolean(FALSE)}
  /\ {Null, Boolean(TRUE), Boolean(FALSE)} \subseteq JsonValues
  /\ Undefined \notin Errors /\ TooDeep \in Errors
  /\ Undefined \notin {Null, Boolean(TRUE), Boolean(FALSE)}
  /\ \A x \in {Null, Boolean(TRUE), Boolean(FALSE)} : x \notin Errors
<1>1. {Null, Boolean(TRUE), Boolean(FALSE)} \subseteq JsonValues
  BY ValuesAssumption
<1>2. Undefined \notin Errors /\ TooDeep \in Errors
  BY DEF Undefined, Errors, Error, TooDeep
<1>3. Boolean(TRUE) # Boolean(FALSE) /\ Null \notin {Boolean(TRUE), Boolean(FALSE)}
  BY DEF Boolean, Null
<1> QED BY <1>1, <1>2, <1>3, ValueShape

LEMMA LookupDefined ==
  ASSUME NEW members \in Seq([key : Strings, value : JsonValues]), NEW k
  PROVE  LookupMember(members, k) \in Defined
<1> DEFINE named == {i \in DOMAIN members : members[i].key = k}
<1>1. CASE named = {}
  BY <1>1 DEF LookupMember, Defined
<1>2. CASE named # {}
  <2> DEFINE i == CHOOSE i \in named : \A j \in named : j <= i
  <2>1. Len(members) \in Nat /\ named \in SUBSET (1 .. Len(members))
    OBVIOUS
  <2>2. i \in named
    <3> HIDE DEF named
    <3> QED BY <1>2, <2>1, LastPosition
  <2>3. members[i] \in [key : Strings, value : JsonValues]
    <3>1. \A j \in DOMAIN members : members[j] \in [key : Strings, value : JsonValues]
      BY Elem
    <3>2. i \in DOMAIN members
      BY <2>2
    <3> HIDE DEF i
    <3> QED BY <3>1, <3>2
  <2>4. LookupMember(members, k) = members[i].value
    BY <1>2 DEF LookupMember
  <2> QED BY <2>3, <2>4 DEF Defined
<1> QED BY <1>1, <1>2

(* One segment of a path leads from a value to a value or nowhere.         *)
LEMMA StepDefined ==
  ASSUME NEW v \in JsonValues, NEW segment \in Segments
  PROVE  Step(v, segment) \in Defined
<1>1. CASE segment[1] = "key" /\ Kind(v) = "object"
  <2>1. Step(v, segment) = LookupMember(Content(v), segment[2])
    BY <1>1 DEF Step
  <2> QED BY <1>1, <2>1, Contents, LookupDefined
<1>2. CASE segment[1] = "index" /\ Kind(v) = "array" /\ segment[2] < Len(Content(v))
  <2>1. Step(v, segment) = Content(v)[segment[2] + 1]
    BY <1>2 DEF Step
  <2>2. Content(v) \in Seq(JsonValues) /\ segment[2] \in Nat
    BY <1>2, Contents DEF Segments
  <2> QED BY <1>2, <2>1, <2>2 DEF Defined
<1>3. CASE /\ ~(segment[1] = "key" /\ Kind(v) = "object")
           /\ ~(segment[1] = "index" /\ Kind(v) = "array" /\ segment[2] < Len(Content(v)))
  BY <1>3 DEF Step, Defined
<1> QED BY <1>1, <1>2, <1>3

-----------------------------------------------------------------------------
(* Walk: a path from a value ends at a value or nowhere, one segment at a  *)
(* time.                                                                   *)
Journeys == Defined \X Seq(Segments)

LEMMA NextStep ==
  ASSUME NEW c \in Journeys, c[2] # << >>, c[1] # Undefined
  PROVE  /\ <<Step(c[1], Head(c[2])), Tail(c[2])>> \in Journeys
         /\ Len(Tail(c[2])) \in Nat /\ Len(Tail(c[2])) < Len(c[2])
<1>1. c[1] \in JsonValues /\ c[2] \in Seq(Segments)
  BY DEF Journeys, Defined
<1>2. Head(c[2]) \in Segments /\ Tail(c[2]) \in Seq(Segments) /\ Len(Tail(c[2])) = Len(c[2]) - 1
  <2> DEFINE p == c[2]
  <2>1. p \in Seq(Segments) /\ p # << >>
    BY <1>1
  <2> HIDE DEF p
  <2>2. Head(p) \in Segments /\ Tail(p) \in Seq(Segments) /\ Len(Tail(p)) = Len(p) - 1
    BY <2>1
  <2> QED BY <2>2 DEF p
<1>3. Step(c[1], Head(c[2])) \in Defined
  BY <1>1, <1>2, StepDefined
<1>4. Len(c[2]) \in Nat /\ Len(Tail(c[2])) \in Nat
  BY <1>1, <1>2
<1>5. Len(Tail(c[2])) < Len(c[2])
  BY <1>2, <1>4
<1>6. <<Step(c[1], Head(c[2])), Tail(c[2])>> \in Journeys
  BY <1>2, <1>3 DEF Journeys
<1> QED BY <1>4, <1>5, <1>6

LEMMA WalkUnfolded ==
  /\ Walk = [c \in Journeys |-> WalkBy(Walk, c[1], c[2])]
  /\ Walk \in [Journeys -> Defined]
<1> DEFINE X == Defined
           step == [p \in [Journeys -> X] \X Journeys |-> WalkBy(p[1], p[2][1], p[2][2])]
           length == [c \in Journeys |-> Len(c[2])]
<1>0. length \in [Journeys -> Nat] /\ X # {}
  BY DEF Journeys, Defined
<1>1. ASSUME NEW f \in [Journeys -> X], NEW c \in Journeys PROVE WalkBy(f, c[1], c[2]) \in X
  <2>1. c[1] \in Defined
    BY DEF Journeys
  <2> QED BY <2>1, NextStep DEF WalkBy
<1>2. step \in [[Journeys -> X] \X Journeys -> X]
  BY <1>1
<1>3. ASSUME NEW f \in [Journeys -> X], NEW c \in Journeys
      PROVE  step[<<f, c>>] = WalkBy(f, c[1], c[2])
  OBVIOUS
<1> HIDE DEF step
<1>4. Local(step, Journeys, X, length)
  <2> SUFFICES ASSUME NEW c \in Journeys, NEW f \in [Journeys -> X], NEW g \in [Journeys -> X],
                      \A t \in Journeys : length[t] < length[c] => f[t] = g[t]
               PROVE  WalkBy(f, c[1], c[2]) = WalkBy(g, c[1], c[2])
    BY <1>3 DEF Local
  <2>1. CASE c[2] = << >> \/ c[1] = Undefined
    BY <2>1 DEF WalkBy
  <2>2. CASE c[2] # << >> /\ c[1] # Undefined
    BY <2>2, NextStep DEF WalkBy
  <2> QED BY <2>1, <2>2
<1>5. Solutions(step, Journeys, X) # {}
  <2> HIDE DEF X, length
  <2> QED BY <1>0, <1>2, <1>4, RecursionSolved
<1>6. \E f : f = [c \in Journeys |-> WalkBy(f, c[1], c[2])]
  <2> PICK f \in [Journeys -> X] : \A c \in Journeys : f[c] = step[<<f, c>>]
    BY <1>5 DEF Solutions
  <2>1. \A c \in Journeys : f[c] = WalkBy(f, c[1], c[2])
    BY <1>3
  <2>2. f = [c \in Journeys |-> WalkBy(f, c[1], c[2])]
    BY <2>1
  <2> QED BY <2>2
<1>7. Walk = [c \in Journeys |-> WalkBy(Walk, c[1], c[2])]
  BY <1>6 DEF Walk, Journeys, Defined
<1>8. Journeys \subseteq {c \in Journeys : Walk[c] \in X}
  <2> DEFINE T == {c \in Journeys : Walk[c] \in X}
  <2>1. \A c \in Journeys : (\A t \in Journeys : length[t] < length[c] => t \in T) => c \in T
    <3> SUFFICES ASSUME NEW c \in Journeys, \A t \in Journeys : length[t] < length[c] => t \in T
                 PROVE  WalkBy(Walk, c[1], c[2]) \in X
      BY <1>7
    <3>1. c[1] \in Defined
      BY DEF Journeys
    <3> QED BY <3>1, NextStep DEF WalkBy
  <2> HIDE DEF T, length
  <2>2. Journeys \subseteq T
    BY <1>0, <2>1, ByHeight
  <2> QED BY <2>2 DEF T
<1> QED BY <1>7, <1>8

-----------------------------------------------------------------------------
(* The nodes right under a node, by its type.                              *)
LEMMA Under ==
  ASSUME NEW e \in Nodes
  PROVE  /\ e.type \in {"value", "ref", "compare", "in", "not", "assign", "call"} \cup Iterations
         /\ e.type \in {"compare", "in"} => Children(e) = {e.left, e.right}
         /\ e.type = "not" => Children(e) = {e.expr}
         /\ e.type = "assign" => Children(e) = {e.value}
         /\ e.type = "call" => Children(e) = {e.args[i] : i \in DOMAIN e.args}
         /\ e.type \in Iterations =>
              Children(e) = {e.source} \cup {e.body[i] : i \in DOMAIN e.body}
BY NodesAssumption DEF NodeOK, Children, Iterations

(* Parts of parts are parts.                                               *)
LEMMA PartsOfParts ==
  ASSUME NEW e \in Nodes
  PROVE  /\ e \in Parts[e]
         /\ \A c \in Children(e) : Parts[c] \subseteq Parts[e]
         /\ \A n \in Parts[e] : n \in Nodes
<1>1. Parts[e] = {e} \cup UNION {Parts[c] : c \in Children(e)}
  BY PartsUnfolded DEF PartsBy
<1>2. \A n \in Parts[e] : n \in Nodes
  BY PartsUnfolded
<1> QED BY <1>1, <1>2

(* What is nested in an expression that builds, builds.                    *)
LEMMA BuiltParts ==
  ASSUME NEW e \in Built
  PROVE  /\ e \in Nodes /\ BuildNodeOK(e)
         /\ \A c \in Children(e) : c \in Built /\ Height(c) \in Nat /\ Height(c) < Height(e)
BY PartsOfParts, ChildrenLower DEF Built, BuildExprOK

(* Lifted: the subterms lifted out of an expression are parts of it.       *)
LEMMA LiftedUnfolded ==
  /\ Lifted = [e \in Nodes |-> LiftedBy(Lifted, e)]
  /\ Lifted \in [Nodes -> SUBSET Nodes]
<1> DEFINE X == SUBSET Nodes
           step == [p \in [Nodes -> X] \X Nodes |-> LiftedBy(p[1], p[2])]
<1>1. ASSUME NEW f \in [Nodes -> X], NEW e \in Nodes PROVE LiftedBy(f, e) \in X
  BY ChildrenLower, Under DEF LiftedBy, Iterations
<1>2. step \in [[Nodes -> X] \X Nodes -> X]
  BY <1>1
<1>3. ASSUME NEW f \in [Nodes -> X], NEW e \in Nodes PROVE step[<<f, e>>] = LiftedBy(f, e)
  OBVIOUS
<1> HIDE DEF step
<1>4. Local(step, Nodes, X, Heights)
  <2> SUFFICES ASSUME NEW e \in Nodes, NEW f \in [Nodes -> X], NEW g \in [Nodes -> X],
                      \A c \in Nodes : Heights[c] < Heights[e] => f[c] = g[c]
               PROVE  LiftedBy(f, e) = LiftedBy(g, e)
    BY <1>3 DEF Local
  <2>1. \A c \in Children(e) : f[c] = g[c]
    BY ChildrenLower, HeightsNatural
  <2> QED BY <2>1, Under DEF LiftedBy, Iterations
<1>5. Solutions(step, Nodes, X) # {}
  <2>1. X # {} /\ Heights \in [Nodes -> Nat]
    BY HeightsNatural
  <2> HIDE DEF X
  <2> QED BY <1>2, <1>4, <2>1, RecursionSolved
<1>6. \E f : f = [e \in Nodes |-> LiftedBy(f, e)]
  <2> PICK f \in [Nodes -> X] : \A e \in Nodes : f[e] = step[<<f, e>>]
    BY <1>5 DEF Solutions
  <2>1. \A e \in Nodes : f[e] = LiftedBy(f, e)
    BY <1>3
  <2>2. f = [e \in Nodes |-> LiftedBy(f, e)]
    BY <2>1
  <2> QED BY <2>2
<1>7. Lifted = [e \in Nodes |-> LiftedBy(Lifted, e)]
  BY <1>6 DEF Lifted
<1>8. Nodes \subseteq {e \in Nodes : Lifted[e] \in X}
  <2> DEFINE T == {e \in Nodes : Lifted[e] \in X}
  <2>1. \A e \in Nodes : (\A c \in Nodes : Heights[c] < Heights[e] => c \in T) => e \in T
    <3> SUFFICES ASSUME NEW e \in Nodes, \A c \in Nodes : Heights[c] < Heights[e] => c \in T
                 PROVE  LiftedBy(Lifted, e) \in X
      BY <1>7
    <3>1. \A c \in Children(e) : c \in Nodes /\ Lifted[c] \in X
      BY ChildrenLower, HeightsNatural
    <3> QED BY <3>1, Under DEF LiftedBy, Iterations
  <2> HIDE DEF T
  <2>2. Nodes \subseteq T
    BY <2>1, HeightsNatural, ByHeight
  <2> QED BY <2>2 DEF T
<1> QED BY <1>7, <1>8

LEMMA LiftedAreParts ==
  ASSUME NEW e \in Built
  PROVE  \A t \in Lifted[e] : t \in Built /\ Height(t) \in Nat /\ Height(t) <= Height(e)
<1> DEFINE Fine(n) == \A t \in Lifted[n] : t \in Built /\ Height(t) \in Nat /\ Height(t) <= Height(n)
           T == {n \in Nodes : n \in Built => Fine(n)}
<1>1. \A n \in Nodes : (\A c \in Nodes : Heights[c] < Heights[n] => c \in T) => n \in T
  <2> SUFFICES ASSUME NEW n \in Nodes, \A c \in Nodes : Heights[c] < Heights[n] => c \in T, n \in Built
               PROVE  Fine(n)
    OBVIOUS
  <2>1. Lifted[n] = LiftedBy(Lifted, n) /\ Height(n) \in Nat
    BY LiftedUnfolded, ChildrenLower
  <2>2. \A c \in Children(n) : c \in Built /\ Height(c) \in Nat /\ Height(c) < Height(n)
    BY BuiltParts
  <2>3. CASE n.type = "not"
    <3>1. Lifted[n] = Lifted[n.expr] /\ n.expr \in Children(n)
      BY <2>1, <2>3, Under DEF LiftedBy, Iterations
    <3>2. n.expr \in Nodes /\ Heights[n.expr] < Heights[n]
      BY <3>1, ChildrenLower, HeightsNatural
    <3>3. Fine(n.expr)
      BY <2>2, <3>1, <3>2
    <3> QED BY <2>1, <2>2, <3>1, <3>3
  <2>4. CASE n.type # "not"
    <3>1. Lifted[n] \subseteq Children(n) \cup {n}
      BY <2>1, <2>4, Under DEF LiftedBy, Iterations
    <3> QED BY <2>1, <2>2, <3>1
  <2> QED BY <2>3, <2>4
<1> HIDE DEF T
<1>2. Nodes \subseteq T
  BY <1>1, HeightsNatural, ByHeight
<1> QED BY <1>2, BuiltParts DEF T

-----------------------------------------------------------------------------
(* Levels: the bound on the levels of an expression is a natural above all *)
(* that it is the highest of.                                              *)
LEMMA HighestIsBound ==
  ASSUME NEW S \in SUBSET Nat, NEW b \in Nat, \A m \in S : m <= b
  PROVE  Highest(S) \in Nat /\ \A m \in S : m <= Highest(S)
<1> DEFINE T == {b - m : m \in S \cup {0}}
<1>1. T \in SUBSET Nat /\ T # {}
  <2>1. \A m \in S \cup {0} : b - m \in Nat
    OBVIOUS
  <2>2. b - 0 \in T
    OBVIOUS
  <2> QED BY <2>1, <2>2
<1>2. PICK x \in T : \A y \in T : x <= y
  BY <1>1, LeastNatural
<1>3. PICK n \in S \cup {0} : x = b - n
  BY <1>2
<1>4. \A m \in S : m <= n
  <2> SUFFICES ASSUME NEW m \in S PROVE m <= n
    OBVIOUS
  <2>1. b - n <= b - m
    BY <1>2, <1>3
  <2> QED BY <2>1
<1> HIDE DEF T
<1>5. Highest(S) \in S \cup {0} /\ \A m \in S : m <= Highest(S)
  BY <1>4 DEF Highest
<1>6. S \cup {0} \subseteq Nat
  OBVIOUS
<1> QED BY <1>5, <1>6

LEMMA SequenceBounded ==
  ASSUME NEW n \in Nat, NEW f \in [1 .. n -> Nat]
  PROVE  \E b \in Nat : \A i \in 1 .. n : f[i] <= b
<1> DEFINE Bounded(g, k) == \E b \in Nat : \A i \in 1 .. k : g[i] <= b
           T == {k \in Nat : k <= n => Bounded(f, k)}
<1>1. 0 \in T
  OBVIOUS
<1>2. \A k \in Nat : k \in T => k + 1 \in T
  <2> SUFFICES ASSUME NEW k \in Nat, k \in T, k + 1 <= n PROVE Bounded(f, k + 1)
    <3> HIDE DEF Bounded
    <3> QED OBVIOUS
  <2>1. PICK b \in Nat : \A i \in 1 .. k : f[i] <= b
    <3> k <= n OBVIOUS
    <3> QED OBVIOUS
  <2>2. f[k + 1] \in Nat
    OBVIOUS
  <2>3. \A i \in 1 .. k + 1 : f[i] <= b + f[k + 1]
    BY <2>1, <2>2
  <2> QED BY <2>2, <2>3
<1> HIDE DEF T
<1>3. n \in T
  BY <1>1, <1>2, NaturalsFrom
<1> QED BY <1>3 DEF T

(* The assignments before a statement are counted by a natural.            *)
Before(stmts, from, i) == {j \in from .. i - 1 : stmts[j].type = "assign"}

LEMMA BeforeCounted ==
  ASSUME NEW stmts, NEW from \in Nat, NEW i \in Nat
  PROVE  IsFiniteSet(Before(stmts, from, i)) /\ Cardinality(Before(stmts, from, i)) \in Nat
<1>1. IsFiniteSet(from .. i - 1)
  BY FS_Interval
<1>2. IsFiniteSet(Before(stmts, from, i))
  BY <1>1, FS_Subset DEF Before
<1> QED BY <1>2, FS_CardinalityType

LEMMA LevelsOfBodyBound ==
  ASSUME NEW stmts, NEW n \in Nat, DOMAIN stmts = 1 .. n, NEW levels,
         \A i \in 1 .. n : levels[stmts[i]] \in Nat
  PROVE  /\ LevelsOfBody(levels, stmts) \in Nat
         /\ \A i \in 1 .. n :
              Cardinality(Before(stmts, 1, i)) + levels[stmts[i]] <= LevelsOfBody(levels, stmts)
<1> DEFINE f == [i \in 1 .. n |-> Cardinality(Before(stmts, 1, i)) + levels[stmts[i]]]
           S == {f[i] : i \in 1 .. n}
<1>1. f \in [1 .. n -> Nat]
  BY BeforeCounted
<1>2. LevelsOfBody(levels, stmts) = Highest(S)
  <2>1. S = {Cardinality(Before(stmts, 1, i)) + levels[stmts[i]] : i \in DOMAIN stmts}
    OBVIOUS
  <2> HIDE DEF S
  <2> QED BY <2>1 DEF LevelsOfBody, Before
<1>3. PICK b \in Nat : \A i \in 1 .. n : f[i] <= b
  <2> HIDE DEF f
  <2> QED BY <1>1, SequenceBounded
<1>4. Highest(S) \in Nat /\ \A m \in S : m <= Highest(S)
  <2> S \in SUBSET Nat /\ \A m \in S : m <= b
    <3> HIDE DEF f
    <3> QED BY <1>1, <1>3
  <2> HIDE DEF S
  <2> QED BY HighestIsBound
<1> QED BY <1>2, <1>4

LEMMA LevelsTyped ==
  ASSUME NEW f, NEW e \in Nodes, \A c \in Children(e) : f[c] \in Nat
  PROVE  LevelsBy(f, e) \in Nat
<1> USE DEF Iterations
<1>1. CASE e.type \in {"value", "ref"}
  BY <1>1 DEF LevelsBy
<1>2. CASE e.type \in {"compare", "in"}
  <2>1. f[e.left] \in Nat /\ f[e.right] \in Nat
    BY <1>2, Under
  <2>2. Highest({f[e.left], f[e.right]}) \in Nat
    <3>1. f[e.left] + f[e.right] \in Nat /\ \A m \in {f[e.left], f[e.right]} : m <= f[e.left] + f[e.right]
      BY <2>1
    <3> QED BY <2>1, <3>1, HighestIsBound
  <2> QED BY <1>2, <2>2 DEF LevelsBy
<1>3. CASE e.type = "not"
  BY <1>3, Under DEF LevelsBy
<1>4. CASE e.type = "assign"
  BY <1>4, Under DEF LevelsBy
<1>5. CASE e.type = "call"
  <2> DEFINE g == [i \in 1 .. Len(e.args) |-> f[e.args[i]]]
             S == {f[e.args[i]] : i \in DOMAIN e.args}
  <2>1. Len(e.args) \in Nat /\ DOMAIN e.args = 1 .. Len(e.args)
    BY <1>5, NodesAssumption DEF NodeOK
  <2>2. \A i \in DOMAIN e.args : f[e.args[i]] \in Nat
    BY <1>5, Under
  <2>3. g \in [1 .. Len(e.args) -> Nat]
    BY <2>1, <2>2
  <2>4. PICK b \in Nat : \A i \in 1 .. Len(e.args) : g[i] <= b
    <3> HIDE DEF g
    <3> QED BY <2>1, <2>3, SequenceBounded
  <2>5. S \in SUBSET Nat /\ \A m \in S : m <= b
    BY <2>1, <2>2, <2>4
  <2>6. Highest(S) \in Nat
    <3> HIDE DEF S
    <3> QED BY <2>5, HighestIsBound
  <2> QED BY <1>5, <2>6 DEF LevelsBy
<1>6. CASE e.type \in Iterations
  <2>1. f[e.source] \in Nat /\ \A i \in DOMAIN e.body : f[e.body[i]] \in Nat
    BY <1>6, Under
  <2>2. Len(e.body) \in Nat /\ DOMAIN e.body = 1 .. Len(e.body)
    BY <1>6, NodesAssumption DEF NodeOK
  <2>3. LevelsOfBody(f, e.body) \in Nat
    BY <2>1, <2>2, LevelsOfBodyBound
  <2>4. Highest({f[e.source], LevelsOfBody(f, e.body)}) \in Nat
    <3>1. /\ f[e.source] + LevelsOfBody(f, e.body) \in Nat
          /\ \A m \in {f[e.source], LevelsOfBody(f, e.body)} : m <= f[e.source] + LevelsOfBody(f, e.body)
      BY <2>1, <2>3
    <3> QED BY <2>1, <2>3, <3>1, HighestIsBound
  <2> QED BY <1>6, <2>4 DEF LevelsBy
<1> QED BY <1>1, <1>2, <1>3, <1>4, <1>5, <1>6, Under

LEMMA LevelsUnfolded ==
  /\ Levels = [e \in Nodes |-> LevelsBy(Levels, e)]
  /\ Levels \in [Nodes -> Nat]
<1> DEFINE X == Nat
           step == [p \in [Nodes -> X] \X Nodes |-> LevelsBy(p[1], p[2])]
<1>1. ASSUME NEW f \in [Nodes -> X], NEW e \in Nodes PROVE LevelsBy(f, e) \in X
  BY ChildrenLower, LevelsTyped
<1>2. step \in [[Nodes -> X] \X Nodes -> X]
  BY <1>1
<1>3. ASSUME NEW f \in [Nodes -> X], NEW e \in Nodes PROVE step[<<f, e>>] = LevelsBy(f, e)
  OBVIOUS
<1> HIDE DEF step
<1>4. Local(step, Nodes, X, Heights)
  <2> SUFFICES ASSUME NEW e \in Nodes, NEW f \in [Nodes -> X], NEW g \in [Nodes -> X],
                      \A c \in Nodes : Heights[c] < Heights[e] => f[c] = g[c]
               PROVE  LevelsBy(f, e) = LevelsBy(g, e)
    BY <1>3 DEF Local
  <2>1. \A c \in Children(e) : f[c] = g[c]
    BY ChildrenLower, HeightsNatural
  <2>2. CASE e.type = "call"
    <3>1. \A i \in DOMAIN e.args : f[e.args[i]] = g[e.args[i]]
      BY <2>1, <2>2, Under
    <3>2. {f[e.args[i]] : i \in DOMAIN e.args} = {g[e.args[i]] : i \in DOMAIN e.args}
      BY <3>1
    <3> QED BY <2>2, <3>2 DEF LevelsBy, Iterations
  <2>3. CASE e.type \in Iterations
    <3>1. f[e.source] = g[e.source] /\ \A i \in DOMAIN e.body : f[e.body[i]] = g[e.body[i]]
      BY <2>1, <2>3, Under
    <3>2. LevelsOfBody(f, e.body) = LevelsOfBody(g, e.body)
      BY <3>1 DEF LevelsOfBody
    <3> QED BY <2>3, <3>1, <3>2 DEF LevelsBy, Iterations
  <2>4. CASE e.type \in {"value", "ref", "compare", "in", "not", "assign"}
    BY <2>1, <2>4, Under DEF LevelsBy, Iterations
  <2> QED BY <2>2, <2>3, <2>4, Under
<1>5. Solutions(step, Nodes, X) # {}
  <2>1. X # {} /\ Heights \in [Nodes -> Nat]
    BY HeightsNatural
  <2> HIDE DEF X
  <2> QED BY <1>2, <1>4, <2>1, RecursionSolved
<1>6. \E f : f = [e \in Nodes |-> LevelsBy(f, e)]
  <2> PICK f \in [Nodes -> X] : \A e \in Nodes : f[e] = step[<<f, e>>]
    BY <1>5 DEF Solutions
  <2>1. \A e \in Nodes : f[e] = LevelsBy(f, e)
    BY <1>3
  <2>2. f = [e \in Nodes |-> LevelsBy(f, e)]
    BY <2>1
  <2> QED BY <2>2
<1>7. Levels = [e \in Nodes |-> LevelsBy(Levels, e)]
  BY <1>6 DEF Levels
<1>8. Nodes \subseteq {e \in Nodes : Levels[e] \in X}
  <2> DEFINE T == {e \in Nodes : Levels[e] \in X}
  <2>1. \A e \in Nodes : (\A c \in Nodes : Heights[c] < Heights[e] => c \in T) => e \in T
    <3> SUFFICES ASSUME NEW e \in Nodes, \A c \in Nodes : Heights[c] < Heights[e] => c \in T
                 PROVE  LevelsBy(Levels, e) \in X
      BY <1>7
    <3>1. \A c \in Children(e) : Levels[c] \in X
      BY ChildrenLower, HeightsNatural
    <3> QED BY <3>1, LevelsTyped
  <2> HIDE DEF T
  <2>2. Nodes \subseteq T
    BY <2>1, HeightsNatural, ByHeight
  <2> QED BY <2>2 DEF T
<1> QED BY <1>7, <1>8

-----------------------------------------------------------------------------
(* Eval: each depth evaluates with the next one, down to the cap.          *)
Deeper(eval, d) == IF d = MaxDepth THEN << >> ELSE eval[d + 1]

LEMMA EvalUnfolded ==
  \A d \in 0 .. MaxDepth : Eval[d] = Level(Deeper(Eval, d), d)
<1> MaxDepth \in Nat
  BY EvaluatorAssumption
<1> DEFINE S == 0 .. MaxDepth
           From(f, k) == \A d \in S : d >= MaxDepth - k => f[d] = Level(Deeper(f, d), d)
           T == {k \in Nat : \E f : f = [d \in S |-> f[d]] /\ From(f, k)}
<1>1. 0 \in T
  <2> DEFINE f == [d \in S |-> Level(<< >>, d)]
  <2>1. f = [d \in S |-> f[d]]
    OBVIOUS
  <2>2. From(f, 0)
    <3> SUFFICES ASSUME NEW d \in S, d >= MaxDepth PROVE f[d] = Level(Deeper(f, d), d)
      OBVIOUS
    <3> d = MaxDepth
      OBVIOUS
    <3> QED BY DEF Deeper
  <2> HIDE DEF f, From
  <2> QED BY <2>1, <2>2
<1>2. \A k \in Nat : k \in T => k + 1 \in T
  <2> SUFFICES ASSUME NEW k \in Nat, k \in T PROVE k + 1 \in T
    OBVIOUS
  <2> PICK f : f = [d \in S |-> f[d]] /\ From(f, k)
    OBVIOUS
  <2> DEFINE g == [d \in S |-> IF d >= MaxDepth - k THEN f[d] ELSE Level(Deeper(f, d), d)]
  <2>1. g = [d \in S |-> g[d]]
    OBVIOUS
  <2>2. ASSUME NEW d \in S, d >= MaxDepth - (k + 1) PROVE g[d] = Level(Deeper(g, d), d)
    <3>1. g[d] = Level(Deeper(f, d), d)
      OBVIOUS
    <3>2. d # MaxDepth => d + 1 \in S /\ d + 1 >= MaxDepth - k
      BY <2>2
    <3>3. Deeper(f, d) = Deeper(g, d)
      BY <3>2 DEF Deeper
    <3> QED BY <3>1, <3>3
  <2>3. From(g, k + 1)
    <3> HIDE DEF g
    <3> QED BY <2>2
  <2> HIDE DEF g, From
  <2> QED BY <2>1, <2>3
<1> HIDE DEF T
<1>3. MaxDepth \in T
  BY <1>1, <1>2, NaturalsFrom
<1>4. PICK f : f = [d \in S |-> f[d]] /\ From(f, MaxDepth)
  BY <1>3 DEF T
<1>5. f = [d \in S |-> Level(IF d = MaxDepth THEN << >> ELSE f[d + 1], d)]
  BY <1>4 DEF Deeper
<1>6. Eval = [d \in S |-> Level(IF d = MaxDepth THEN << >> ELSE Eval[d + 1], d)]
  BY <1>5 DEF Eval
<1> QED BY <1>6 DEF Deeper

-----------------------------------------------------------------------------
(* The operators that the evaluator is made of, on values and scopes.      *)
Verdicts == {Boolean(TRUE), Boolean(FALSE)}

LEMMA VerdictOf ==
  ASSUME NEW p \in BOOLEAN
  PROVE  Boolean(p) \in Verdicts /\ (Boolean(p) = Boolean(TRUE) <=> p)
BY DEF Verdicts, Boolean

LEMMA EnvFields ==
  ASSUME NEW env \in Envs
  PROVE  /\ env.input \in JsonValues
         /\ Len(env.scope) \in Nat /\ DOMAIN env.scope = 1 .. Len(env.scope)
         /\ \A i \in DOMAIN env.scope : env.scope[i].name \in Strings /\ env.scope[i].bound \in JsonValues
<1>1. env.input \in JsonValues /\ env.scope \in Seq([name : Strings, bound : JsonValues])
  BY DEF Envs
<1>2. \A i \in DOMAIN env.scope : env.scope[i] \in [name : Strings, bound : JsonValues]
  BY <1>1, Elem
<1> QED BY <1>1, <1>2

LEMMA PushEnv ==
  ASSUME NEW env \in Envs, NEW var \in Strings, NEW v \in JsonValues
  PROVE  /\ Push(env, var, v) \in Envs
         /\ Push(env, var, v).input = env.input
         /\ Push(env, var, v).scope = <<Frame(var, v)>> \o env.scope
<1> DEFINE R == [name : Strings, bound : JsonValues]
<1>1. Frame(var, v) \in R
  BY DEF Frame
<1>2. env.scope \in Seq(R) /\ env \in [input : JsonValues, scope : Seq(R)]
  BY DEF Envs
<1> HIDE DEF R
<1>3. <<Frame(var, v)>> \o env.scope \in Seq(R)
  BY <1>1, <1>2
<1> QED BY <1>2, <1>3 DEF Push, Envs, R

LEMMA RefPath ==
  ASSUME NEW e \in Nodes, BuildNodeOK(e), e.type = "ref"
  PROVE  e.path \in Seq(Segments)
<1>1. e.path \in Seq(({"key"} \X Strings) \cup ({"index"} \X Int))
  BY NodesAssumption DEF NodeOK
<1>2. \A i \in DOMAIN e.path : e.path[i] \in ({"key"} \X Strings) \cup ({"index"} \X Int)
  BY <1>1, Elem
<1>3. \A i \in DOMAIN e.path : SegmentOK(e.path[i])
  BY DEF BuildNodeOK, Iterations
<1>4. \A i \in DOMAIN e.path : e.path[i] \in Segments
  BY <1>2, <1>3 DEF SegmentOK, Segments
<1>5. Len(e.path) \in Nat /\ DOMAIN e.path = 1 .. Len(e.path) /\ e.path = [i \in 1 .. Len(e.path) |-> e.path[i]]
  BY <1>1
<1> QED BY <1>4, <1>5

LEMMA TailPath ==
  ASSUME NEW path \in Seq(Segments), path # << >>
  PROVE  Tail(path) \in Seq(Segments) /\ path[1] \in Segments /\ Head(path) = path[1]
OBVIOUS

LEMMA RefDefined ==
  ASSUME NEW path \in Seq(Segments), NEW env \in Envs
  PROVE  ResolveRef(path, env) \in Defined
<1> DEFINE named == {i \in DOMAIN env.scope : IsKey(path[1], env.scope[i].name)}
<1>1. ASSUME NEW v \in JsonValues, NEW p \in Seq(Segments) PROVE Walk[<<v, p>>] \in Defined
  <2> <<v, p>> \in Journeys
    BY DEF Journeys, Defined
  <2> QED BY WalkUnfolded
<1>2. env.input \in JsonValues
  BY EnvFields
<1>3. CASE path = << >>
  BY <1>3 DEF ResolveRef, Defined
<1>4. CASE path # << >> /\ named = {}
  BY <1>1, <1>2, <1>4, TailPath DEF ResolveRef
<1>5. CASE path # << >> /\ named # {}
  <2>1. First(named) \in DOMAIN env.scope
    <3> named \in SUBSET Nat
      BY EnvFields
    <3> QED BY <1>5, FirstPosition
  <2>2. env.scope[First(named)].bound \in JsonValues
    BY <2>1, EnvFields
  <2> QED BY <1>1, <1>2, <1>5, <2>2, TailPath DEF ResolveRef
<1> QED BY <1>3, <1>4, <1>5

(* The items of a value are values.                                        *)
LEMMA ItemsAreValues ==
  ASSUME NEW v \in JsonValues, HasItems(v), NEW kind
  PROVE  /\ \E n \in Nat : DOMAIN ItemsOf(v, kind) = 1 .. n
         /\ \A i \in DOMAIN ItemsOf(v, kind) : ItemsOf(v, kind)[i] \in JsonValues
<1>1. CASE Kind(v) = "object"
  <2>1. Content(v) \in Seq([key : Strings, value : JsonValues])
    BY <1>1, Contents
  <2>2. \A i \in DOMAIN Content(v) : Content(v)[i] \in [key : Strings, value : JsonValues]
    BY <2>1, Elem
  <2>3. Len(Content(v)) \in Nat /\ DOMAIN Content(v) = 1 .. Len(Content(v))
    BY <2>1, Elem
  <2>4. DOMAIN ItemsOf(v, kind) = DOMAIN Content(v)
    BY <1>1 DEF ItemsOf
  <2>5. ASSUME NEW i \in DOMAIN Content(v) PROVE ItemsOf(v, kind)[i] \in JsonValues
    <3>1. ItemsOf(v, kind)[i] \in {String(Content(v)[i].key), Content(v)[i].value}
      BY <1>1 DEF ItemsOf
    <3> QED BY <1>1, <2>2, <3>1, Contents
  <2> QED BY <2>3, <2>4, <2>5
<1>2. CASE Kind(v) # "object"
  <2>1. Content(v) \in Seq(JsonValues) /\ ItemsOf(v, kind) = Content(v)
    BY <1>2, Contents DEF HasItems, ItemsOf
  <2> QED BY <2>1, Elem
<1> QED BY <1>1, <1>2

LEMMA EqualIsBoolean ==
  ASSUME NEW a, NEW b
  PROVE  ValueEquals(a, b) \in BOOLEAN
BY DEF ValueEquals, EqualBy

LEMMA CompareTyped ==
  ASSUME NEW op \in {"eq", "neq", "lt", "lte", "gt", "gte"}, NEW a, NEW b
  PROVE  CompareValues(op, a, b) \in Verdicts \cup {Error("UnorderedComparison")}
<1> DEFINE order == ValueCompare(a, b)
           equals == ValueEquals(a, b)
<1>1. equals \in BOOLEAN
  BY EqualIsBoolean
<1>2. \A p \in BOOLEAN : Boolean(p) \in Verdicts
  BY VerdictOf
<1>3. (order < 0) \in BOOLEAN /\ (order <= 0) \in BOOLEAN /\ (order > 0) \in BOOLEAN /\ (order >= 0) \in BOOLEAN
  OBVIOUS
<1>4. (~equals) \in BOOLEAN
  OBVIOUS
<1> HIDE DEF order, equals
<1> QED BY <1>1, <1>2, <1>3, <1>4 DEF CompareValues, order, equals

(* A call that builds answers with a value.                                *)
LEMMA DispatchTyped ==
  ASSUME NEW name \in DOMAIN Arity, NEW args, \A i \in 1 .. Arity[name] : args[i] \in JsonValues
  PROVE  Dispatch(name, args) \in JsonValues
<1> USE Distinct
<1>1. name \in {"startswith", "endswith", "contains", "count"}
  BY DEF Arity
<1>2. CASE name = "count"
  <2>1. args[1] \in JsonValues
    BY <1>2 DEF Arity
  <2> QED BY <1>2, <2>1, Contents DEF Dispatch
<1>3. CASE name # "count"
  <2> DEFINE p == CASE name = "startswith" -> IsPrefix(Content(args[2]), Content(args[1]))
                    [] name = "endswith"   -> IsSuffix(Content(args[2]), Content(args[1]))
                    [] name = "contains"   -> Occurs(Content(args[1]), Content(args[2]))
  <2>1. p \in BOOLEAN
    <3>1. CASE name = "startswith" BY <3>1 DEF IsPrefix
    <3>2. CASE name = "endswith" BY <3>2 DEF IsSuffix, IsPrefix
    <3>3. CASE name = "contains" BY <3>3 DEF Occurs
    <3> QED BY <1>1, <1>3, <3>1, <3>2, <3>3
  <2>2. Dispatch(name, args) \in {Null, Boolean(p)}
    BY <1>3 DEF Dispatch
  <2> HIDE DEF p
  <2> QED BY <2>1, <2>2, VerdictOf DEF Verdicts
<1> QED BY <1>2, <1>3

-----------------------------------------------------------------------------
(* Every evaluation answers with a value, with undefined or with an error, *)
(* and a body with true, false or an error.                                *)
Outcomes == Verdicts \cup {Undefined} \cup Errors

Fits(helper, e) ==
  /\ helper \in Helpers
  /\ helper = "compare" => e.type = "compare"
  /\ helper = "member" => e.type = "in"
  /\ helper = "iteration" => e.type \in Iterations
  /\ helper \in {"call", "lifted_call"} => e.type = "call"

Answering(helper) ==
  IF helper \in {"value", "call"} THEN JsonValues \cup Errors
  ELSE IF helper \in {"operand", "lifted_call"} THEN Results
  ELSE Outcomes

Bodies == {b \in Seq(Nodes) : \A i \in DOMAIN b : b[i] \in Built}

TypedNodes(level) ==
  \A helper \in Helpers : \A e \in Built : \A env \in Envs :
    Fits(helper, e) => level.node[<<helper, e, env>>] \in Answering(helper)

TypedBodies(level) ==
  \A stmts \in Bodies : \A from \in Nat \ {0} : \A env \in Envs :
    level.body[<<stmts, from, env>>] \in Verdicts \cup Errors

TypedLevel(level) == TypedNodes(level) /\ TypedBodies(level)

LEMMA LevelApplied ==
  ASSUME NEW deeper, NEW d
  PROVE  /\ \A helper \in Helpers : \A e \in Nodes : \A env \in Envs :
              Level(deeper, d).node[<<helper, e, env>>] = EvalNode(deeper, helper, e, env, d)
         /\ \A stmts \in Seq(Nodes) : \A from \in Nat \ {0} : \A env \in Envs :
              Level(deeper, d).body[<<stmts, from, env>>] = EvalBody(deeper, stmts, from, env, d)
BY DEF Level

LEMMA AnswerSets ==
  /\ Verdicts \subseteq JsonValues /\ TooDeep \in Errors /\ Undefined \notin Errors
  /\ Outcomes \subseteq Results
  /\ Null \in JsonValues /\ Null \notin Verdicts /\ Undefined \notin JsonValues
  /\ \A v \in JsonValues : ~Stops(v)
  /\ \A r \in Results : ~Stops(r) => r \in JsonValues
BY Distinct, ValueShape DEF Verdicts, Outcomes, Results, Defined, Stops

LEMMA TruthTyped ==
  ASSUME NEW r \in Results
  PROVE  Holds(r) \in Outcomes /\ Negated(r) \in Outcomes
<1>1. \A v : Truthy(v) \in BOOLEAN /\ (~Truthy(v)) \in BOOLEAN
  BY DEF Truthy
<1>2. \A v : Boolean(Truthy(v)) \in Verdicts /\ Boolean(~Truthy(v)) \in Verdicts
  BY <1>1, VerdictOf
<1>3. Stops(r) => r \in Outcomes
  BY DEF Stops, Outcomes
<1> QED BY <1>2, <1>3 DEF Holds, Negated, Then, Outcomes

LEMMA CompareNodeTyped ==
  ASSUME NEW deeper, NEW d, d >= MaxDepth \/ TypedLevel(deeper),
         NEW e \in Built, e.type = "compare", NEW env \in Envs
  PROVE  EvalCompare(deeper, e, env, d) \in Outcomes
<1> DEFINE l == deeper.node[<<"operand", e.left, env>>]
           r == deeper.node[<<"operand", e.right, env>>]
<1>1. CASE d >= MaxDepth
  BY <1>1, AnswerSets DEF EvalCompare, Within, Outcomes
<1>2. CASE ~(d >= MaxDepth)
  <2>1. e.left \in Built /\ e.right \in Built /\ e.op \in {"eq", "neq", "lt", "lte", "gt", "gte"}
    BY BuiltParts, Under, NodesAssumption DEF NodeOK
  <2>2. l \in Results /\ r \in Results
    BY <1>2, <2>1 DEF TypedLevel, TypedNodes, Fits, Helpers, Answering
  <2>3. CompareValues(e.op, l, r) \in Outcomes
    BY <2>1, CompareTyped DEF Outcomes, Errors
  <2>4. \A x \in {l, r} : Stops(x) => x \in Outcomes
    BY DEF Stops, Outcomes
  <2>5. EvalCompare(deeper, e, env, d) =
          (IF Stops(l) THEN l ELSE IF Stops(r) THEN r ELSE CompareValues(e.op, l, r))
    BY <1>2 DEF EvalCompare, Within, Then
  <2> HIDE DEF l, r
  <2> QED BY <2>3, <2>4, <2>5
<1> QED BY <1>1, <1>2

LEMMA MemberNodeTyped ==
  ASSUME NEW deeper, NEW d, d >= MaxDepth \/ TypedLevel(deeper),
         NEW e \in Built, e.type = "in", NEW env \in Envs
  PROVE  EvalMember(deeper, e, env, d) \in Outcomes
<1> DEFINE l == deeper.node[<<"operand", e.left, env>>]
           r == deeper.node[<<"operand", e.right, env>>]
           found == HasItems(r) /\ \E i \in DOMAIN ItemsOf(r, "values") : ValueEquals(l, ItemsOf(r, "values")[i])
<1>1. CASE d >= MaxDepth
  BY <1>1, AnswerSets DEF EvalMember, Within, Outcomes
<1>2. CASE ~(d >= MaxDepth)
  <2>1. e.left \in Built /\ e.right \in Built
    BY BuiltParts, Under
  <2>2. l \in Results /\ r \in Results
    BY <1>2, <2>1 DEF TypedLevel, TypedNodes, Fits, Helpers, Answering
  <2>3. Boolean(found) \in Outcomes
    <3>1. found \in BOOLEAN OBVIOUS
    <3> HIDE DEF found
    <3> QED BY <3>1, VerdictOf DEF Outcomes
  <2>4. \A x \in {l, r} : Stops(x) => x \in Outcomes
    BY DEF Stops, Outcomes
  <2>5. EvalMember(deeper, e, env, d) = (IF Stops(l) THEN l ELSE IF Stops(r) THEN r ELSE Boolean(found))
    BY <1>2 DEF EvalMember, Within, Then
  <2> HIDE DEF l, r, found
  <2> QED BY <2>3, <2>4, <2>5
<1> QED BY <1>1, <1>2

LEMMA ArgumentFields ==
  ASSUME NEW e \in Built, e.type = "call"
  PROVE  /\ e.name \in DOMAIN Arity /\ Len(e.args) = Arity[e.name] /\ Len(e.args) \in Nat
         /\ DOMAIN e.args = 1 .. Len(e.args) /\ \A i \in DOMAIN e.args : e.args[i] \in Built
<1>1. e.name \in DOMAIN Arity /\ Len(e.args) = Arity[e.name]
  BY BuiltParts DEF BuildNodeOK, Iterations
<1>2. Len(e.args) \in Nat /\ DOMAIN e.args = 1 .. Len(e.args)
  BY BuiltParts, NodesAssumption DEF NodeOK
<1>3. \A i \in DOMAIN e.args : e.args[i] \in Built
  BY BuiltParts, Under
<1> QED BY <1>1, <1>2, <1>3

LEMMA IterationFields ==
  ASSUME NEW e \in Built, e.type \in Iterations
  PROVE  /\ e.source \in Built /\ e.body \in Bodies /\ e.var \in Strings /\ e.kind \in {"keys", "values"}
<1>1. e.var \in Strings /\ e.kind \in {"keys", "values"} /\ e.body \in Seq(Nodes)
  BY BuiltParts, NodesAssumption DEF NodeOK
<1>2. e.source \in Built /\ \A i \in DOMAIN e.body : e.body[i] \in Built
  BY BuiltParts, Under
<1> QED BY <1>1, <1>2 DEF Bodies

LEMMA IterationNodeTyped ==
  ASSUME NEW deeper, NEW d, d >= MaxDepth \/ TypedLevel(deeper),
         NEW e \in Built, e.type \in Iterations, NEW env \in Envs
  PROVE  EvalIteration(deeper, e, env, d) \in Outcomes
<1> DEFINE source == deeper.node[<<"value", e.source, env>>]
           items == ItemsOf(source, e.kind)
           HeldBy(i) == deeper.body[<<e.body, 1, Push(env, e.var, items[i])>>]
           otherwise == Boolean(e.type = "every")
           settled == {i \in DOMAIN items : HeldBy(i) # otherwise}
<1>1. CASE d >= MaxDepth
  BY <1>1, AnswerSets DEF EvalIteration, Within, Outcomes
<1>2. CASE ~(d >= MaxDepth)
  <2>1. e.source \in Built /\ e.body \in Bodies /\ e.var \in Strings
    BY IterationFields
  <2>2. source \in JsonValues \cup Errors
    BY <1>2, <2>1 DEF TypedLevel, TypedNodes, Fits, Helpers, Answering
  <2>3. EvalIteration(deeper, e, env, d) =
          (IF Stops(source) THEN source
           ELSE IF HasItems(source) THEN EvalItems(deeper, e, items, env) ELSE Undefined)
    BY <1>2 DEF EvalIteration, Within, Then
  <2>4. EvalItems(deeper, e, items, env) = (IF settled = {} THEN otherwise ELSE HeldBy(First(settled)))
    BY DEF EvalItems
  <2>5. otherwise \in Outcomes
    BY VerdictOf DEF Outcomes
  <2>6. ASSUME source \in JsonValues, HasItems(source), NEW i \in DOMAIN items
        PROVE  HeldBy(i) \in Outcomes
    <3>1. items[i] \in JsonValues
      BY <2>6, ItemsAreValues
    <3>2. Push(env, e.var, items[i]) \in Envs
      BY <2>1, <3>1, PushEnv
    <3> QED BY <1>2, <2>1, <3>2 DEF TypedLevel, TypedBodies, Outcomes
  <2>7. ASSUME source \in JsonValues, HasItems(source), settled # {}
        PROVE  First(settled) \in DOMAIN items
    <3>1. settled \in SUBSET Nat
      BY <2>7, ItemsAreValues
    <3> HIDE DEF items, HeldBy, otherwise
    <3> QED BY <2>7, <3>1, FirstPosition
  <2>8. Stops(source) => source \in Outcomes
    BY DEF Stops, Outcomes
  <2>9. Undefined \in Outcomes
    BY DEF Outcomes
  <2>10. ~Stops(source) => source \in JsonValues
    BY <2>2 DEF Stops
  <2> HIDE DEF source, items, HeldBy, otherwise, settled
  <2> QED BY <2>3, <2>4, <2>5, <2>6, <2>7, <2>8, <2>9, <2>10
<1> QED BY <1>1, <1>2

LEMMA CallNodeTyped ==
  ASSUME NEW deeper, NEW d, d >= MaxDepth \/ TypedLevel(deeper),
         NEW e \in Built, e.type = "call", NEW env \in Envs, NEW lifted \in BOOLEAN
  PROVE  /\ EvalCall(deeper, e, env, d, lifted) \in Results
         /\ ~lifted => EvalCall(deeper, e, env, d, lifted) \in JsonValues \cup Errors
<1> DEFINE helper == IF lifted THEN "operand" ELSE "value"
           resolved == [i \in DOMAIN e.args |-> deeper.node[<<helper, e.args[i], env>>]]
           stopped == {i \in DOMAIN e.args : Stops(resolved[i])}
<1>1. CASE d >= MaxDepth
  BY <1>1, AnswerSets DEF EvalCall, Within, Results
<1>2. CASE ~(d >= MaxDepth)
  <2>1. EvalCall(deeper, e, env, d, lifted) =
          (IF stopped = {} THEN Dispatch(e.name, resolved) ELSE resolved[First(stopped)])
    BY <1>2 DEF EvalCall, Within
  <2>2. \A i \in DOMAIN e.args : resolved[i] \in Answering(helper)
    BY <1>2, ArgumentFields DEF TypedLevel, TypedNodes, Fits, Helpers
  <2>3. \A i \in DOMAIN e.args : resolved[i] \in Results /\ (~lifted => resolved[i] \in JsonValues \cup Errors)
    BY <2>2 DEF Answering, Results, Defined
  <2>4. CASE stopped = {}
    <3>1. \A i \in DOMAIN e.args : resolved[i] \in JsonValues
      <4> HIDE DEF resolved
      <4> QED BY <2>3, <2>4, AnswerSets
    <3>2. Dispatch(e.name, resolved) \in JsonValues
      <4> HIDE DEF resolved
      <4> QED BY <3>1, ArgumentFields, DispatchTyped
    <3> QED BY <2>1, <2>4, <3>2 DEF Results, Defined
  <2>5. CASE stopped # {}
    <3>1. stopped \in SUBSET Nat
      BY ArgumentFields
    <3>2. First(stopped) \in DOMAIN e.args
      <4> HIDE DEF resolved
      <4> QED BY <2>5, <3>1, FirstPosition
    <3> HIDE DEF resolved, stopped
    <3> QED BY <2>1, <2>3, <2>5, <3>2
  <2> QED BY <2>4, <2>5
<1> QED BY <1>1, <1>2

LEMMA OrTyped ==
  ASSUME NEW r \in Outcomes
  PROVE  /\ OrNull(r) \in JsonValues \cup Errors
         /\ OrFalse(r) \in Verdicts \cup Errors
BY AnswerSets, VerdictOf DEF OrNull, OrFalse, Outcomes

LEMMA NodeTypes ==
  ASSUME NEW e \in Built
  PROVE  /\ e \in Nodes
         /\ e.type \in {"value", "ref", "compare", "not", "call", "in", "assign"} \cup Iterations
         /\ e.type = "value" => e.value \in JsonValues
         /\ e.type = "not" => e.expr \in Built
         /\ e.type = "assign" => e.value \in Built /\ e.var \in Strings
         /\ e.type = "ref" => e.path \in Seq(Segments)
BY BuiltParts, Under, RefPath, NodesAssumption DEF NodeOK

LEMMA ResolveValueTyped ==
  ASSUME NEW deeper, NEW d, d >= MaxDepth \/ TypedLevel(deeper),
         NEW e \in Built, NEW env \in Envs
  PROVE  ResolveValue(deeper, e, env, d) \in JsonValues \cup Errors
<1>1. CASE d >= MaxDepth
  BY <1>1, AnswerSets DEF ResolveValue, Within
<1>2. CASE ~(d >= MaxDepth)
  <2> USE DEF Iterations
  <2>1. TypedNodes(deeper)
    BY <1>2 DEF TypedLevel
  <2>2. CASE e.type = "value"
    <3>1. ResolveValue(deeper, e, env, d) = e.value
      BY <1>2, <2>2 DEF ResolveValue, Within
    <3> QED BY <2>2, <3>1, NodeTypes
  <2>3. CASE e.type = "ref"
    <3>1. ResolveValue(deeper, e, env, d) = OrNull(ResolveRef(e.path, env))
      BY <1>2, <2>3 DEF ResolveValue, Within
    <3>2. ResolveRef(e.path, env) \in Defined
      BY <2>3, NodeTypes, RefDefined
    <3> QED BY <3>1, <3>2, AnswerSets DEF OrNull, Defined
  <2>4. CASE e.type = "compare"
    <3>1. ResolveValue(deeper, e, env, d) = OrNull(deeper.node[<<"compare", e, env>>])
      BY <1>2, <2>4 DEF ResolveValue, Within
    <3>2. deeper.node[<<"compare", e, env>>] \in Outcomes
      BY <2>1, <2>4 DEF TypedNodes, Fits, Helpers, Answering
    <3> QED BY <3>1, <3>2, OrTyped
  <2>5. CASE e.type = "not"
    <3>1. ResolveValue(deeper, e, env, d) = OrNull(deeper.node[<<"negation", e.expr, env>>])
      BY <1>2, <2>5 DEF ResolveValue, Within
    <3>2. deeper.node[<<"negation", e.expr, env>>] \in Outcomes
      BY <2>1, <2>5, NodeTypes DEF TypedNodes, Fits, Helpers, Answering
    <3> QED BY <3>1, <3>2, OrTyped
  <2>6. CASE e.type \in Iterations
    <3>1. ResolveValue(deeper, e, env, d) = OrNull(deeper.node[<<"iteration", e, env>>])
      BY <1>2, <2>6 DEF ResolveValue, Within
    <3>2. deeper.node[<<"iteration", e, env>>] \in Outcomes
      BY <2>1, <2>6 DEF TypedNodes, Fits, Helpers, Answering
    <3> QED BY <3>1, <3>2, OrTyped
  <2>7. CASE e.type = "call"
    <3>1. ResolveValue(deeper, e, env, d) = deeper.node[<<"call", e, env>>]
      BY <1>2, <2>7 DEF ResolveValue, Within
    <3>2. deeper.node[<<"call", e, env>>] \in JsonValues \cup Errors
      BY <2>1, <2>7 DEF TypedNodes, Fits, Helpers, Answering
    <3> QED BY <3>1, <3>2
  <2>8. CASE e.type = "in"
    <3>1. ResolveValue(deeper, e, env, d) = OrNull(deeper.node[<<"member", e, env>>])
      BY <1>2, <2>8 DEF ResolveValue, Within
    <3>2. deeper.node[<<"member", e, env>>] \in Outcomes
      BY <2>1, <2>8 DEF TypedNodes, Fits, Helpers, Answering
    <3> QED BY <3>1, <3>2, OrTyped
  <2>9. CASE e.type = "assign"
    <3>1. ResolveValue(deeper, e, env, d) = Error("AssignOutsideBody")
      BY <1>2, <2>9 DEF ResolveValue, Within
    <3> QED BY <3>1 DEF Errors
  <2> QED BY <2>2, <2>3, <2>4, <2>5, <2>6, <2>7, <2>8, <2>9, NodeTypes
<1> QED BY <1>1, <1>2

LEMMA EvalExprBoolTyped ==
  ASSUME NEW deeper, NEW d, d >= MaxDepth \/ TypedLevel(deeper),
         NEW e \in Built, NEW env \in Envs
  PROVE  EvalExprBool(deeper, e, env, d) \in Verdicts \cup Errors
<1> DEFINE Answered(r) == EvalExprBool(deeper, e, env, d) = OrFalse(r)
<1>1. CASE d >= MaxDepth
  BY <1>1, AnswerSets DEF EvalExprBool, Within
<1>2. CASE ~(d >= MaxDepth)
  <2> USE DEF Iterations
  <2>1. TypedNodes(deeper)
    BY <1>2 DEF TypedLevel
  <2>2. ASSUME NEW r \in Outcomes, Answered(r) PROVE EvalExprBool(deeper, e, env, d) \in Verdicts \cup Errors
    BY <2>2, OrTyped
  <2>3. CASE e.type = "value"
    <3>1. Truthy(e.value) \in BOOLEAN
      BY DEF Truthy
    <3>2. Boolean(Truthy(e.value)) \in Outcomes
      BY <3>1, VerdictOf DEF Outcomes
    <3>3. Answered(Boolean(Truthy(e.value)))
      BY <1>2, <2>3 DEF EvalExprBool, Within
    <3> QED BY <2>2, <3>2, <3>3
  <2>4. CASE e.type = "ref"
    <3>1. ResolveRef(e.path, env) \in Results
      BY <2>4, NodeTypes, RefDefined DEF Results
    <3>2. Answered(Holds(ResolveRef(e.path, env)))
      BY <1>2, <2>4 DEF EvalExprBool, Within
    <3> QED BY <2>2, <3>1, <3>2, TruthTyped
  <2>5. CASE e.type = "compare"
    <3>1. Answered(deeper.node[<<"compare", e, env>>])
      BY <1>2, <2>5 DEF EvalExprBool, Within
    <3>2. deeper.node[<<"compare", e, env>>] \in Outcomes
      BY <2>1, <2>5 DEF TypedNodes, Fits, Helpers, Answering
    <3> QED BY <2>2, <3>1, <3>2
  <2>6. CASE e.type = "not"
    <3>1. Answered(deeper.node[<<"negation", e.expr, env>>])
      BY <1>2, <2>6 DEF EvalExprBool, Within
    <3>2. deeper.node[<<"negation", e.expr, env>>] \in Outcomes
      BY <2>1, <2>6, NodeTypes DEF TypedNodes, Fits, Helpers, Answering
    <3> QED BY <2>2, <3>1, <3>2
  <2>7. CASE e.type \in Iterations
    <3>1. Answered(deeper.node[<<"iteration", e, env>>])
      BY <1>2, <2>7 DEF EvalExprBool, Within
    <3>2. deeper.node[<<"iteration", e, env>>] \in Outcomes
      BY <2>1, <2>7 DEF TypedNodes, Fits, Helpers, Answering
    <3> QED BY <2>2, <3>1, <3>2
  <2>8. CASE e.type = "call"
    <3>1. Answered(Holds(deeper.node[<<"call", e, env>>]))
      BY <1>2, <2>8 DEF EvalExprBool, Within
    <3>2. deeper.node[<<"call", e, env>>] \in Results
      BY <2>1, <2>8 DEF TypedNodes, Fits, Helpers, Answering, Results, Defined
    <3> QED BY <2>2, <3>1, <3>2, TruthTyped
  <2>9. CASE e.type = "in"
    <3>1. Answered(deeper.node[<<"member", e, env>>])
      BY <1>2, <2>9 DEF EvalExprBool, Within
    <3>2. deeper.node[<<"member", e, env>>] \in Outcomes
      BY <2>1, <2>9 DEF TypedNodes, Fits, Helpers, Answering
    <3> QED BY <2>2, <3>1, <3>2
  <2>10. CASE e.type = "assign"
    <3>1. Answered(Error("AssignOutsideBody"))
      BY <1>2, <2>10 DEF EvalExprBool, Within
    <3>2. Error("AssignOutsideBody") \in Outcomes
      BY DEF Errors, Outcomes
    <3> QED BY <2>2, <3>1, <3>2
  <2> QED BY <2>3, <2>4, <2>5, <2>6, <2>7, <2>8, <2>9, <2>10, NodeTypes
<1> QED BY <1>1, <1>2

LEMMA NegateCompareTyped ==
  ASSUME NEW deeper, TypedLevel(deeper), NEW e \in Built, e.type = "compare", NEW env \in Envs
  PROVE  NegateCompare(deeper, e, env) \in Outcomes
<1> DEFINE l == deeper.node[<<"operand", e.left, env>>]
           r == deeper.node[<<"operand", e.right, env>>]
           compared == CompareValues(e.op, l, r)
<1>1. e.left \in Built /\ e.right \in Built /\ e.op \in {"eq", "neq", "lt", "lte", "gt", "gte"}
  BY BuiltParts, Under, NodesAssumption DEF NodeOK
<1>2. compared \in Results
  BY <1>1, CompareTyped, AnswerSets DEF Results, Defined, Errors
<1>3. Negated(compared) \in Outcomes
  BY <1>2, TruthTyped
<1>4. NegateCompare(deeper, e, env) \in ({l, r} \cap Errors) \cup {Undefined, Boolean(TRUE), Negated(compared)}
  BY DEF NegateCompare
<1> HIDE DEF l, r, compared
<1> QED BY <1>3, <1>4, VerdictOf DEF Outcomes

LEMMA EvalNegationTyped ==
  ASSUME NEW deeper, NEW d, d >= MaxDepth \/ TypedLevel(deeper),
         NEW e \in Built, NEW env \in Envs
  PROVE  EvalNegation(deeper, e, env, d) \in Outcomes
<1> DEFINE Answered(r) == EvalNegation(deeper, e, env, d) = Negated(r)
<1>1. CASE d >= MaxDepth
  BY <1>1, AnswerSets DEF EvalNegation, Within, Outcomes
<1>2. CASE ~(d >= MaxDepth)
  <2> USE DEF Iterations
  <2>1. TypedNodes(deeper)
    BY <1>2 DEF TypedLevel
  <2>2. ASSUME NEW r \in Results, Answered(r) PROVE EvalNegation(deeper, e, env, d) \in Outcomes
    BY <2>2, TruthTyped
  <2>3. CASE e.type = "call"
    <3>1. Answered(deeper.node[<<"lifted_call", e, env>>])
      BY <1>2, <2>3 DEF EvalNegation, Within
    <3>2. deeper.node[<<"lifted_call", e, env>>] \in Results
      BY <2>1, <2>3 DEF TypedNodes, Fits, Helpers, Answering
    <3> QED BY <2>2, <3>1, <3>2
  <2>4. CASE e.type = "in"
    <3>1. Answered(deeper.node[<<"member", e, env>>])
      BY <1>2, <2>4 DEF EvalNegation, Within
    <3>2. deeper.node[<<"member", e, env>>] \in Outcomes
      BY <2>1, <2>4 DEF TypedNodes, Fits, Helpers, Answering
    <3> QED BY <2>2, <3>1, <3>2, AnswerSets
  <2>5. CASE e.type = "compare"
    <3>1. EvalNegation(deeper, e, env, d) = NegateCompare(deeper, e, env)
      BY <1>2, <2>5 DEF EvalNegation, Within
    <3> QED BY <1>2, <2>5, <3>1, NegateCompareTyped
  <2>6. CASE e.type = "not"
    <3>1. Answered(deeper.node[<<"negation", e.expr, env>>])
      BY <1>2, <2>6 DEF EvalNegation, Within
    <3>2. deeper.node[<<"negation", e.expr, env>>] \in Outcomes
      BY <2>1, <2>6, NodeTypes DEF TypedNodes, Fits, Helpers, Answering
    <3> QED BY <2>2, <3>1, <3>2, AnswerSets
  <2>7. CASE e.type \in Iterations
    <3>1. Answered(deeper.node[<<"iteration", e, env>>])
      BY <1>2, <2>7 DEF EvalNegation, Within
    <3>2. deeper.node[<<"iteration", e, env>>] \in Outcomes
      BY <2>1, <2>7 DEF TypedNodes, Fits, Helpers, Answering
    <3> QED BY <2>2, <3>1, <3>2, AnswerSets
  <2>8. CASE e.type \in {"value", "ref", "assign"}
    <3>1. Answered(EvalExprBool(deeper, e, env, d))
      BY <1>2, <2>8 DEF EvalNegation, Within
    <3>2. EvalExprBool(deeper, e, env, d) \in Results
      BY <1>2, EvalExprBoolTyped, AnswerSets DEF Results, Defined
    <3> QED BY <2>2, <3>1, <3>2
  <2> QED BY <2>3, <2>4, <2>5, <2>6, <2>7, <2>8, NodeTypes
<1> QED BY <1>1, <1>2

LEMMA ResolveDefinedTyped ==
  ASSUME NEW deeper, NEW d, d >= MaxDepth \/ TypedLevel(deeper),
         NEW e \in Built, NEW env \in Envs
  PROVE  ResolveDefined(deeper, e, env, d) \in Results
<1> USE DEF Iterations
<1>1. CASE e.type = "ref"
  BY <1>1, NodeTypes, RefDefined DEF ResolveDefined, Results
<1>2. CASE e.type = "compare"
  BY <1>2, CompareNodeTyped, AnswerSets DEF ResolveDefined
<1>3. CASE e.type = "not"
  BY <1>3, NodeTypes, EvalNegationTyped, AnswerSets DEF ResolveDefined
<1>4. CASE e.type \in Iterations
  BY <1>4, IterationNodeTyped, AnswerSets DEF ResolveDefined
<1>5. CASE e.type = "in"
  BY <1>5, MemberNodeTyped, AnswerSets DEF ResolveDefined
<1>6. CASE e.type = "call"
  <2>1. ResolveDefined(deeper, e, env, d) \in {Undefined, EvalCall(deeper, e, env, d, TRUE)}
    BY <1>6 DEF ResolveDefined
  <2>2. EvalCall(deeper, e, env, d, TRUE) \in Results
    BY <1>6, CallNodeTyped
  <2> QED BY <2>1, <2>2 DEF Results, Defined
<1>7. CASE e.type \in {"value", "assign"}
  <2>1. ResolveDefined(deeper, e, env, d) = ResolveValue(deeper, e, env, d)
    BY <1>7 DEF ResolveDefined
  <2> QED BY <2>1, ResolveValueTyped DEF Results, Defined
<1> QED BY <1>1, <1>2, <1>3, <1>4, <1>5, <1>6, <1>7, NodeTypes

LEMMA BoundValueTyped ==
  ASSUME NEW deeper, TypedLevel(deeper), NEW e \in Built, NEW env \in Envs
  PROVE  BoundValue(deeper, e, env) \in Results
<1>1. CASE e.type = "value"
  BY <1>1, NodeTypes DEF BoundValue, Results, Defined
<1>2. CASE e.type = "ref"
  BY <1>2, NodeTypes, RefDefined DEF BoundValue, Results
<1>3. CASE e.type \notin {"value", "ref"}
  <2>1. BoundValue(deeper, e, env) \in {Undefined, deeper.node[<<"value", e, env>>]}
    BY <1>3 DEF BoundValue
  <2>2. deeper.node[<<"value", e, env>>] \in JsonValues \cup Errors
    BY DEF TypedLevel, TypedNodes, Fits, Helpers, Answering
  <2> QED BY <2>1, <2>2 DEF Results, Defined
<1> QED BY <1>1, <1>2, <1>3

(* The conditions looked at before a binding, and the binding after them.  *)
Conditions(stmts, from) ==
  from .. (IF Bindings(stmts, from) = {} THEN Len(stmts) ELSE First(Bindings(stmts, from)) - 1)

LEMMA BodyShape ==
  ASSUME NEW stmts \in Bodies, NEW from \in Nat \ {0}
  PROVE  /\ Len(stmts) \in Nat /\ DOMAIN stmts = 1 .. Len(stmts)
         /\ Bindings(stmts, from) \in SUBSET Nat /\ Bindings(stmts, from) \subseteq DOMAIN stmts
         /\ Conditions(stmts, from) \in SUBSET Nat /\ Conditions(stmts, from) \subseteq DOMAIN stmts
         /\ \A i \in Conditions(stmts, from) : stmts[i].type # "assign"
         /\ Bindings(stmts, from) # {} =>
              LET next == First(Bindings(stmts, from))
              IN  /\ next \in DOMAIN stmts /\ from <= next /\ next + 1 \in Nat \ {0}
                  /\ stmts[next] \in Built /\ stmts[next].type = "assign"
<1> DEFINE next == First(Bindings(stmts, from))
<1>1. Len(stmts) \in Nat /\ DOMAIN stmts = 1 .. Len(stmts) /\ \A i \in DOMAIN stmts : stmts[i] \in Built
  BY DEF Bodies
<1>2. Bindings(stmts, from) \in SUBSET Nat /\ Bindings(stmts, from) \subseteq DOMAIN stmts
  BY <1>1 DEF Bindings
<1>3. ASSUME Bindings(stmts, from) # {}
      PROVE  next \in Bindings(stmts, from) /\ \A j \in Bindings(stmts, from) : next <= j
  BY <1>2, <1>3, FirstPosition
<1>4. \A i \in from .. Len(stmts) : i \in Bindings(stmts, from) <=> stmts[i].type = "assign"
  BY DEF Bindings
<1>5. CASE Bindings(stmts, from) = {}
  <2>1. Conditions(stmts, from) = from .. Len(stmts)
    BY <1>5 DEF Conditions
  <2> QED BY <1>1, <1>2, <1>4, <1>5, <2>1
<1>6. CASE Bindings(stmts, from) # {}
  <2>1. Conditions(stmts, from) = from .. next - 1
    BY <1>6 DEF Conditions
  <2>2. next \in from .. Len(stmts) /\ stmts[next].type = "assign"
    BY <1>3, <1>6 DEF Bindings
  <2> HIDE DEF next
  <2>3. \A i \in Conditions(stmts, from) : i \in from .. Len(stmts) /\ i \notin Bindings(stmts, from)
    BY <1>1, <1>3, <1>6, <2>1, <2>2
  <2>4. Conditions(stmts, from) \subseteq DOMAIN stmts /\ Conditions(stmts, from) \in SUBSET Nat
    BY <1>1, <2>3
  <2>5. next \in DOMAIN stmts /\ from <= next /\ next + 1 \in Nat \ {0}
    BY <1>1, <2>2
  <2> USE DEF next
  <2> QED BY <1>1, <1>2, <1>4, <1>6, <2>2, <2>3, <2>4, <2>5
<1> QED BY <1>5, <1>6

(* The conditions hold, or the first that does not answers for the body.   *)
Settle(deeper, stmts, positions, env, d) ==
  \/ /\ EvalConditions(deeper, stmts, positions, env, d) = Boolean(TRUE)
     /\ \A i \in positions : EvalExprBool(deeper, stmts[i], env, d) = Boolean(TRUE)
  \/ \E i \in positions :
       /\ EvalConditions(deeper, stmts, positions, env, d) = EvalExprBool(deeper, stmts[i], env, d)
       /\ EvalExprBool(deeper, stmts[i], env, d) # Boolean(TRUE)
       /\ \A j \in positions : j < i => EvalExprBool(deeper, stmts[j], env, d) = Boolean(TRUE)

LEMMA ConditionsSettle ==
  ASSUME NEW deeper, NEW d, NEW stmts, NEW positions \in SUBSET Nat, NEW env
  PROVE  Settle(deeper, stmts, positions, env, d)
<1> DEFINE Held(i) == EvalExprBool(deeper, stmts[i], env, d)
           stopped == {i \in positions : Held(i) # Boolean(TRUE)}
<1>1. EvalConditions(deeper, stmts, positions, env, d) = (IF stopped = {} THEN Boolean(TRUE) ELSE Held(First(stopped)))
  BY DEF EvalConditions
<1>2. ASSUME stopped # {}
      PROVE  First(stopped) \in stopped /\ \A j \in stopped : First(stopped) <= j
  <2> stopped \in SUBSET Nat
    OBVIOUS
  <2> HIDE DEF stopped
  <2> QED BY <1>2, FirstPosition
<1>3. CASE stopped = {}
  BY <1>1, <1>3 DEF Settle
<1>4. CASE stopped # {}
  <2>1. First(stopped) \in positions /\ Held(First(stopped)) # Boolean(TRUE)
    BY <1>2, <1>4
  <2>2. \A j \in positions : j < First(stopped) => Held(j) = Boolean(TRUE)
    <3>1. \A j \in positions : j < First(stopped) => j \notin stopped
      <4> First(stopped) \in Nat
        BY <2>1
      <4> HIDE DEF stopped
      <4> QED BY <1>2, <1>4
    <3> QED BY <3>1
  <2> HIDE DEF Held
  <2> QED BY <1>1, <1>4, <2>1, <2>2 DEF Held, Settle
<1> QED BY <1>3, <1>4

LEMMA EvalBodyTyped ==
  ASSUME NEW deeper, NEW d, d >= MaxDepth \/ TypedLevel(deeper),
         NEW stmts \in Bodies, NEW from \in Nat \ {0}, NEW env \in Envs
  PROVE  EvalBody(deeper, stmts, from, env, d) \in Verdicts \cup Errors
<1> DEFINE bindings == Bindings(stmts, from)
           next == First(bindings)
           held == EvalConditions(deeper, stmts, Conditions(stmts, from), env, d)
           bound == BoundValue(deeper, stmts[next].value, env)
           rest == deeper.body[<<stmts, next + 1, Push(env, stmts[next].var, bound)>>]
<1>1. CASE d >= MaxDepth
  BY <1>1, AnswerSets DEF EvalBody, Within
<1>2. CASE ~(d >= MaxDepth)
  <2>1. EvalBody(deeper, stmts, from, env, d) =
          (IF held # Boolean(TRUE) \/ bindings = {} THEN held
           ELSE OrFalse(IF Stops(bound) THEN bound ELSE rest))
    BY <1>2 DEF EvalBody, Within, Then, Conditions
  <2>2. held \in Verdicts \cup Errors
    <3>1. \A i \in Conditions(stmts, from) : stmts[i] \in Built
      BY BodyShape DEF Bodies
    <3>2. \A i \in Conditions(stmts, from) : EvalExprBool(deeper, stmts[i], env, d) \in Verdicts \cup Errors
      BY <3>1, EvalExprBoolTyped
    <3>3. Conditions(stmts, from) \in SUBSET Nat
      BY BodyShape
    <3>4. Settle(deeper, stmts, Conditions(stmts, from), env, d)
      BY <3>3, ConditionsSettle
    <3> QED BY <3>2, <3>4 DEF Verdicts, Settle
  <2>3. CASE bindings = {}
    BY <2>1, <2>2, <2>3
  <2>4. CASE bindings # {}
    <3>1. stmts[next] \in Built /\ stmts[next].type = "assign" /\ next + 1 \in Nat \ {0}
      BY <2>4, BodyShape
    <3>2. stmts[next].value \in Built /\ stmts[next].var \in Strings
      BY <3>1, NodeTypes
    <3>3. bound \in Results
      BY <1>2, <3>2, BoundValueTyped
    <3>4. ASSUME ~Stops(bound) PROVE rest \in Verdicts \cup Errors
      <4>1. bound \in JsonValues
        BY <3>3, <3>4, AnswerSets
      <4>2. Push(env, stmts[next].var, bound) \in Envs
        BY <3>2, <4>1, PushEnv
      <4> HIDE DEF next, bound
      <4> QED BY <1>2, <3>1, <4>2 DEF TypedLevel, TypedBodies
    <3>5. (IF Stops(bound) THEN bound ELSE rest) \in Outcomes
      <4> HIDE DEF bound, rest
      <4> QED BY <3>4 DEF Stops, Outcomes
    <3> HIDE DEF bound, rest, held, next, bindings
    <3> QED BY <2>1, <2>2, <3>5, OrTyped
  <2> QED BY <2>3, <2>4
<1> QED BY <1>1, <1>2

LEMMA LevelTyped ==
  ASSUME NEW deeper, NEW d, d >= MaxDepth \/ TypedLevel(deeper)
  PROVE  TypedLevel(Level(deeper, d))
<1>1. ASSUME NEW helper \in Helpers, NEW e \in Built, NEW env \in Envs, Fits(helper, e)
      PROVE  Level(deeper, d).node[<<helper, e, env>>] \in Answering(helper)
  <2>1. Level(deeper, d).node[<<helper, e, env>>] = EvalNode(deeper, helper, e, env, d)
    BY LevelApplied, NodeTypes
  <2>2. CASE helper = "operand"
    BY <2>1, <2>2, ResolveDefinedTyped DEF EvalNode, Answering
  <2>3. CASE helper = "value"
    BY <2>1, <2>3, ResolveValueTyped DEF EvalNode, Answering
  <2>4. CASE helper = "compare"
    BY <1>1, <2>1, <2>4, CompareNodeTyped DEF EvalNode, Answering, Fits
  <2>5. CASE helper = "member"
    BY <1>1, <2>1, <2>5, MemberNodeTyped DEF EvalNode, Answering, Fits
  <2>6. CASE helper = "iteration"
    BY <1>1, <2>1, <2>6, IterationNodeTyped DEF EvalNode, Answering, Fits
  <2>7. CASE helper = "call"
    <3>1. e.type = "call"
      BY <1>1, <2>7 DEF Fits
    <3>2. EvalCall(deeper, e, env, d, FALSE) \in JsonValues \cup Errors
      BY <3>1, CallNodeTyped
    <3>3. EvalNode(deeper, helper, e, env, d) = EvalCall(deeper, e, env, d, FALSE)
      BY <2>7 DEF EvalNode
    <3> QED BY <2>1, <2>7, <3>2, <3>3 DEF Answering
  <2>8. CASE helper = "lifted_call"
    <3>1. e.type = "call"
      BY <1>1, <2>8 DEF Fits
    <3>2. EvalCall(deeper, e, env, d, TRUE) \in Results
      BY <3>1, CallNodeTyped
    <3>3. EvalNode(deeper, helper, e, env, d) = EvalCall(deeper, e, env, d, TRUE)
      BY <2>8 DEF EvalNode
    <3> QED BY <2>1, <2>8, <3>2, <3>3 DEF Answering
  <2>9. CASE helper = "negation"
    BY <2>1, <2>9, EvalNegationTyped DEF EvalNode, Answering
  <2> QED BY <2>2, <2>3, <2>4, <2>5, <2>6, <2>7, <2>8, <2>9 DEF Helpers
<1>2. ASSUME NEW stmts \in Bodies, NEW from \in Nat \ {0}, NEW env \in Envs
      PROVE  Level(deeper, d).body[<<stmts, from, env>>] \in Verdicts \cup Errors
  <2>1. stmts \in Seq(Nodes)
    BY DEF Bodies
  <2>2. Level(deeper, d).body[<<stmts, from, env>>] = EvalBody(deeper, stmts, from, env, d)
    BY <2>1, LevelApplied
  <2> QED BY <2>2, EvalBodyTyped
<1> QED BY <1>1, <1>2 DEF TypedLevel, TypedNodes, TypedBodies

(* From the cap upwards, a property of each depth that the next depth has. *)
LEMMA FromTheCap ==
  ASSUME NEW S, S \subseteq 0 .. MaxDepth,
         MaxDepth \in S, \A d \in 0 .. MaxDepth : d < MaxDepth /\ d + 1 \in S => d \in S
  PROVE  0 .. MaxDepth \subseteq S
<1> DEFINE T == {k \in Nat : k <= MaxDepth => MaxDepth - k \in S}
<1>0. MaxDepth \in Nat
  BY EvaluatorAssumption
<1>1. 0 \in T
  BY <1>0
<1>2. \A k \in Nat : k \in T => k + 1 \in T
  <2> SUFFICES ASSUME NEW k \in Nat, k \in T, k + 1 <= MaxDepth PROVE MaxDepth - (k + 1) \in S
    OBVIOUS
  <2>1. MaxDepth - k \in S /\ MaxDepth - k = (MaxDepth - (k + 1)) + 1
    BY <1>0
  <2>2. MaxDepth - (k + 1) \in 0 .. MaxDepth /\ MaxDepth - (k + 1) < MaxDepth
    BY <1>0
  <2> QED BY <2>1, <2>2
<1> HIDE DEF T
<1>3. \A k \in Nat : k \in T
  BY <1>1, <1>2, NaturalsFrom
<1>4. ASSUME NEW d \in 0 .. MaxDepth PROVE d \in S
  <2>1. MaxDepth - d \in T /\ MaxDepth - d \in Nat /\ MaxDepth - (MaxDepth - d) = d
    BY <1>0, <1>3
  <2> QED BY <1>0, <2>1 DEF T
<1> QED BY <1>4

LEMMA EvalTyped ==
  \A d \in 0 .. MaxDepth : TypedLevel(Eval[d])
<1> DEFINE S == {d \in 0 .. MaxDepth : TypedLevel(Eval[d])}
<1>0. MaxDepth \in Nat
  BY EvaluatorAssumption
<1>1. MaxDepth \in S
  BY <1>0, EvalUnfolded, LevelTyped
<1>2. ASSUME NEW d \in 0 .. MaxDepth, d < MaxDepth, d + 1 \in S PROVE d \in S
  <2>1. Deeper(Eval, d) = Eval[d + 1]
    BY <1>0, <1>2 DEF Deeper
  <2> QED BY <1>2, <2>1, EvalUnfolded, LevelTyped
<1> HIDE DEF S
<1>3. 0 .. MaxDepth \subseteq S
  <2> S \subseteq 0 .. MaxDepth BY DEF S
  <2> QED BY <1>1, <1>2, FromTheCap
<1> QED BY <1>3 DEF S

-----------------------------------------------------------------------------
(* Rules that build, and what a decision of one depends on.                *)
Rules == {r \in Seq(Statements) \X (RuleValues \cup {NoValue}) : BuildRuleOK(r[1], r[2])}

StartEnv(doc) == [input |-> doc, scope |-> << >>]

ResultOf(stmts, answer, doc) == RuleResult(Eval[0], stmts, answer, StartEnv(doc))

LEMMA RuleParts ==
  ASSUME NEW stmts, NEW answer, <<stmts, answer>> \in Rules
  PROVE  stmts \in Bodies /\ (answer # NoValue => answer \in Built)
<1>1. stmts \in Seq(Statements) /\ answer \in RuleValues \cup {NoValue} /\ BuildRuleOK(stmts, answer)
  BY DEF Rules
<1>2. \A i \in DOMAIN stmts : stmts[i] \in Statements
  BY <1>1, Elem
<1>3. \A i \in DOMAIN stmts : stmts[i] \in Built
  BY <1>1, <1>2, EvaluatorAssumption DEF BuildRuleOK, Built
<1>4. stmts \in Seq(Nodes)
  <2>1. Statements \subseteq Nodes
    BY EvaluatorAssumption
  <2> QED BY <1>1, <2>1
<1>5. answer # NoValue => answer \in Built
  BY <1>1, EvaluatorAssumption DEF BuildRuleOK, Built
<1> QED BY <1>3, <1>4, <1>5 DEF Bodies

LEMMA StartTyped ==
  ASSUME NEW doc \in JsonValues
  PROVE  StartEnv(doc) \in Envs /\ StartEnv(doc).input = doc /\ StartEnv(doc).scope = << >>
<1>1. << >> \in Seq([name : Strings, bound : JsonValues])
  OBVIOUS
<1> QED BY <1>1 DEF StartEnv, Envs

LEMMA RuleResultTyped ==
  ASSUME NEW stmts, NEW answer, <<stmts, answer>> \in Rules, NEW doc \in JsonValues
  PROVE  ResultOf(stmts, answer, doc) \in Outcomes
<1> DEFINE held == Eval[0].body[<<stmts, 1, StartEnv(doc)>>]
           result == Eval[0].node[<<"value", answer, StartEnv(doc)>>]
<1>1. TypedLevel(Eval[0])
  BY EvalTyped, EvaluatorAssumption
<1>2. held \in Verdicts \cup Errors
  BY <1>1, RuleParts, StartTyped DEF TypedLevel, TypedBodies
<1>3. answer # NoValue => Holds(result) \in Outcomes
  <2> HAVE answer # NoValue
  <2>1. result \in JsonValues \cup Errors
    BY <1>1, RuleParts, StartTyped DEF TypedLevel, TypedNodes, Fits, Helpers, Answering
  <2> QED BY <2>1, TruthTyped DEF Results, Defined
<1>4. ResultOf(stmts, answer, doc) =
        (IF Stops(held) THEN held
         ELSE IF held # Boolean(TRUE) \/ answer = NoValue THEN held ELSE Holds(result))
  BY DEF ResultOf, RuleResult, Then
<1> HIDE DEF held, result
<1> QED BY <1>2, <1>3, <1>4 DEF Outcomes

LEMMA RuleAnswer ==
  ASSUME NEW stmts, NEW answer, NEW doc
  PROVE  EvalRule(stmts, answer, doc) =
           (IF ResultOf(stmts, answer, doc) \in Errors THEN Content(ResultOf(stmts, answer, doc))
            ELSE IF ResultOf(stmts, answer, doc) = Boolean(TRUE) THEN "allow" ELSE "deny")
BY DEF EvalRule, Decision, ResultOf, StartEnv

LEMMA RuleAnswerTyped ==
  ASSUME NEW stmts, NEW answer, NEW doc
  PROVE  EvalRule(stmts, answer, doc) \in Answers
BY RuleAnswer DEF Answers

LEMMA AnswerNames ==
  /\ Answers = {"allow", "deny", "EvalTooDeep", "UnorderedComparison", "AssignOutsideBody"}
  /\ \A r \in Errors : r = Error(Content(r)) /\ Content(r) \notin {"allow", "deny"}
<1> DEFINE names == {"EvalTooDeep", "UnorderedComparison", "AssignOutsideBody"}
<1>1. \A n : Content(Error(n)) = n
  BY DEF Error, Content
<1>2. Errors = {Error(n) : n \in names}
  BY DEF Errors
<1>3. {Content(r) : r \in Errors} = names
  <2> HIDE DEF names
  <2> QED BY <1>1, <1>2
<1> QED BY <1>1, <1>2, <1>3 DEF Answers

(* The inductive invariant: a rule that is evaluated is one that builds,   *)
(* and an answer is the answer of the evaluator on the input.              *)
IInv ==
  /\ TypeOK
  /\ outcome \in Answers \cup {"built"} => <<body, value>> \in Rules
  /\ outcome \in Answers => outcome = EvalRule(body, value, input)

LEMMA InvariantInit ==
  Init => IInv
<1> SUFFICES ASSUME Init PROVE IInv
  OBVIOUS
<1>1. << >> \in Seq(Statements) /\ Len(<< >>) = 0 /\ 0 <= MaxBody
  BY EvaluatorAssumption
<1>2. TypeOK
  BY <1>1, AnswerNames DEF Init, TypeOK
<1> QED BY <1>2, AnswerNames DEF IInv, Init

LEMMA InvariantNext ==
  IInv /\ [Next]_vars => IInv'
<1> SUFFICES ASSUME IInv, [Next]_vars PROVE IInv'
  OBVIOUS
<1>1. ASSUME NEW s \in Statements, WriteStatement(s) PROVE IInv'
  <2>1. body' \in Seq(Statements) /\ Len(body') = Len(body) + 1 /\ Len(body') <= MaxBody
    BY <1>1, EvaluatorAssumption DEF IInv, TypeOK, WriteStatement
  <2> QED BY <1>1, <2>1, AnswerNames DEF IInv, TypeOK, WriteStatement
<1>2. ASSUME NEW v \in RuleValues \cup {NoValue}, BuildRule(v) PROVE IInv'
  <2>1. outcome' \in {"built", "rejected"} /\ (outcome' = "built" => BuildRuleOK(body, v))
    BY <1>2 DEF BuildRule
  <2>2. outcome' = "built" => <<body', value'>> \in Rules
    BY <1>2, <2>1 DEF IInv, TypeOK, BuildRule, Rules
  <2> QED BY <1>2, <2>1, <2>2, AnswerNames DEF IInv, TypeOK, BuildRule
<1>3. ASSUME NEW doc \in Inputs, Evaluate(doc) PROVE IInv'
  <2>1. doc # Undefined
    BY EvaluatorAssumption, AnswerSets
  <2>2. EvalRule(body, value, doc) \in Answers
    BY RuleAnswerTyped
  <2> QED BY <1>3, <2>1, <2>2, AnswerNames DEF IInv, TypeOK, Evaluate
<1>4. CASE UNCHANGED vars
  BY <1>4 DEF vars, IInv, TypeOK
<1> QED BY <1>1, <1>2, <1>3, <1>4 DEF Next

(* The inductive invariant holds: every answer is the evaluator's, on a    *)
(* rule that policy_compile accepted.                                      *)
THEOREM Invariance ==
  Spec => []IInv
BY InvariantInit, InvariantNext, PTL DEF Spec

(* Type correctness: an evaluation of a rule that builds always answers,   *)
(* with a decision or with one of the errors of eval.zig.                  *)
THEOREM TypeCorrect ==
  Spec => []TypeOK
<1>1. IInv => TypeOK
  BY DEF IInv
<1> QED BY <1>1, Invariance, PTL

-----------------------------------------------------------------------------
(* An evaluation depends on the document through the paths of the refs     *)
(* alone: where two documents agree on those, it answers alike.            *)
On(env, doc) == [input |-> doc, scope |-> env.scope]

Agree(doc, other, path) ==
  path # << >> =>
    LET p == IF IsKey(path[1], InputKey) THEN Tail(path) ELSE path
    IN  Walk[<<doc, p>>] = Walk[<<other, p>>]

Alike(doc, other) ==
  {e \in Built : \A n \in Parts[e] : n.type = "ref" => Agree(doc, other, n.path)}

AlikeBodies(doc, other) == {b \in Bodies : \A i \in DOMAIN b : b[i] \in Alike(doc, other)}

AlikeLevel(level, doc, other) ==
  /\ TypedLevel(level)
  /\ \A helper \in Helpers : \A e \in Alike(doc, other) : \A env \in Envs :
       Fits(helper, e) =>
         level.node[<<helper, e, On(env, doc)>>] = level.node[<<helper, e, On(env, other)>>]
  /\ \A stmts \in AlikeBodies(doc, other) : \A from \in Nat \ {0} : \A env \in Envs :
       level.body[<<stmts, from, On(env, doc)>>] = level.body[<<stmts, from, On(env, other)>>]

LEMMA AlikeChildren ==
  ASSUME NEW doc, NEW other, NEW e \in Alike(doc, other)
  PROVE  /\ e \in Built /\ \A c \in Children(e) : c \in Alike(doc, other)
         /\ e.type = "ref" => Agree(doc, other, e.path)
<1>1. e \in Built /\ e \in Nodes /\ e \in Parts[e] /\ \A n \in Parts[e] : n.type = "ref" => Agree(doc, other, n.path)
  BY BuiltParts, PartsOfParts DEF Alike
<1>2. \A c \in Children(e) : c \in Built /\ Parts[c] \subseteq Parts[e]
  BY <1>1, BuiltParts, PartsOfParts
<1> QED BY <1>1, <1>2 DEF Alike

LEMMA OnEnv ==
  ASSUME NEW env \in Envs, NEW doc \in JsonValues
  PROVE  /\ On(env, doc) \in Envs
         /\ \A var \in Strings : \A v \in JsonValues : Push(On(env, doc), var, v) = On(Push(env, var, v), doc)
<1>1. On(env, doc) \in Envs /\ On(env, doc).scope = env.scope /\ On(env, doc).input = doc
  BY DEF On, Envs
<1>2. ASSUME NEW var \in Strings, NEW v \in JsonValues
      PROVE  Push(On(env, doc), var, v) = On(Push(env, var, v), doc)
  <2>1. Push(env, var, v).scope = <<Frame(var, v)>> \o env.scope
    BY PushEnv
  <2>2. Push(On(env, doc), var, v).input = doc /\ Push(On(env, doc), var, v).scope = <<Frame(var, v)>> \o env.scope
    BY <1>1, PushEnv
  <2>3. Push(On(env, doc), var, v) \in Envs
    BY <1>1, PushEnv
  <2>4. \A x \in Envs : x = [input |-> x.input, scope |-> x.scope]
    BY DEF Envs
  <2> QED BY <2>1, <2>2, <2>3, <2>4 DEF On
<1> QED BY <1>1, <1>2

LEMMA RefAlike ==
  ASSUME NEW doc \in JsonValues, NEW other \in JsonValues, NEW env \in Envs,
         NEW path, Agree(doc, other, path)
  PROVE  ResolveRef(path, On(env, doc)) = ResolveRef(path, On(env, other))
<1>1. \A x : On(env, x).scope = env.scope /\ On(env, x).input = x
  BY DEF On
<1> QED BY <1>1 DEF ResolveRef, Agree

LEMMA CompareAlike ==
  ASSUME NEW doc \in JsonValues, NEW other \in JsonValues, NEW deeper, NEW d,
         d >= MaxDepth \/ AlikeLevel(deeper, doc, other),
         NEW e \in Alike(doc, other), e.type = "compare", NEW env \in Envs
  PROVE  EvalCompare(deeper, e, On(env, doc), d) = EvalCompare(deeper, e, On(env, other), d)
<1>1. CASE d >= MaxDepth
  BY <1>1 DEF EvalCompare, Within
<1>2. CASE ~(d >= MaxDepth)
  <2>1. e.left \in Alike(doc, other) /\ e.right \in Alike(doc, other)
    BY AlikeChildren, NodeTypes, Under
  <2>2. /\ deeper.node[<<"operand", e.left, On(env, doc)>>] = deeper.node[<<"operand", e.left, On(env, other)>>]
        /\ deeper.node[<<"operand", e.right, On(env, doc)>>] = deeper.node[<<"operand", e.right, On(env, other)>>]
    BY <1>2, <2>1 DEF AlikeLevel, Fits, Helpers
  <2> QED BY <2>2 DEF EvalCompare, Within, Then
<1> QED BY <1>1, <1>2

LEMMA MemberAlike ==
  ASSUME NEW doc \in JsonValues, NEW other \in JsonValues, NEW deeper, NEW d,
         d >= MaxDepth \/ AlikeLevel(deeper, doc, other),
         NEW e \in Alike(doc, other), e.type = "in", NEW env \in Envs
  PROVE  EvalMember(deeper, e, On(env, doc), d) = EvalMember(deeper, e, On(env, other), d)
<1>1. CASE d >= MaxDepth
  BY <1>1 DEF EvalMember, Within
<1>2. CASE ~(d >= MaxDepth)
  <2>1. e.left \in Alike(doc, other) /\ e.right \in Alike(doc, other)
    BY AlikeChildren, NodeTypes, Under
  <2>2. /\ deeper.node[<<"operand", e.left, On(env, doc)>>] = deeper.node[<<"operand", e.left, On(env, other)>>]
        /\ deeper.node[<<"operand", e.right, On(env, doc)>>] = deeper.node[<<"operand", e.right, On(env, other)>>]
    BY <1>2, <2>1 DEF AlikeLevel, Fits, Helpers
  <2> QED BY <2>2 DEF EvalMember, Within, Then
<1> QED BY <1>1, <1>2

LEMMA IterationAlike ==
  ASSUME NEW doc \in JsonValues, NEW other \in JsonValues, NEW deeper, NEW d,
         d >= MaxDepth \/ AlikeLevel(deeper, doc, other),
         NEW e \in Alike(doc, other), e.type \in Iterations, NEW env \in Envs
  PROVE  EvalIteration(deeper, e, On(env, doc), d) = EvalIteration(deeper, e, On(env, other), d)
<1> DEFINE source(x) == deeper.node[<<"value", e.source, On(env, x)>>]
           items == ItemsOf(source(doc), e.kind)
           Held(x, i) == deeper.body[<<e.body, 1, Push(On(env, x), e.var, items[i])>>]
           otherwise == Boolean(e.type = "every")
           settled(x) == {i \in DOMAIN items : Held(x, i) # otherwise}
<1>1. CASE d >= MaxDepth
  BY <1>1 DEF EvalIteration, Within
<1>2. CASE ~(d >= MaxDepth)
  <2>1. e \in Built /\ e.source \in Alike(doc, other) /\ e.body \in AlikeBodies(doc, other) /\ e.var \in Strings
    <3>1. e \in Built /\ \A c \in Children(e) : c \in Alike(doc, other)
      BY AlikeChildren
    <3>2. e.source \in Alike(doc, other) /\ \A i \in DOMAIN e.body : e.body[i] \in Alike(doc, other)
      BY <3>1, NodeTypes, Under
    <3>3. e.body \in Bodies /\ e.var \in Strings
      BY <3>1, IterationFields
    <3> QED BY <3>1, <3>2, <3>3 DEF AlikeBodies
  <2>2. source(doc) = source(other)
    BY <1>2, <2>1 DEF AlikeLevel, Fits, Helpers
  <2>3. source(doc) \in JsonValues \cup Errors
    BY <1>2, <2>1, AlikeChildren, OnEnv
       DEF AlikeLevel, TypedLevel, TypedNodes, Fits, Helpers, Answering
  <2>4. ASSUME NEW x \in {doc, other}
        PROVE  EvalIteration(deeper, e, On(env, x), d) =
                 (IF Stops(source(doc)) THEN source(doc)
                  ELSE IF HasItems(source(doc))
                       THEN IF settled(x) = {} THEN otherwise ELSE Held(x, First(settled(x)))
                       ELSE Undefined)
    <3>1. EvalIteration(deeper, e, On(env, x), d) =
            (IF Stops(source(x)) THEN source(x)
             ELSE IF HasItems(source(x)) THEN EvalItems(deeper, e, ItemsOf(source(x), e.kind), On(env, x))
                  ELSE Undefined)
      BY <1>2 DEF EvalIteration, Within, Then
    <3>2. source(x) = source(doc)
      BY <2>2
    <3>3. EvalItems(deeper, e, items, On(env, x)) = (IF settled(x) = {} THEN otherwise ELSE Held(x, First(settled(x))))
      BY DEF EvalItems
    <3> QED BY <3>1, <3>2, <3>3
  <2>5. ASSUME source(doc) \in JsonValues, HasItems(source(doc)), NEW i \in DOMAIN items
        PROVE  Held(doc, i) = Held(other, i)
    <3>1. items[i] \in JsonValues
      BY <2>5, ItemsAreValues
    <3>2. Push(env, e.var, items[i]) \in Envs
      BY <2>1, <3>1, PushEnv
    <3>3. \A x \in {doc, other} : Push(On(env, x), e.var, items[i]) = On(Push(env, e.var, items[i]), x)
      BY <2>1, <3>1, OnEnv
    <3> HIDE DEF items
    <3> QED BY <1>2, <2>1, <3>2, <3>3 DEF AlikeLevel
  <2>6. CASE source(doc) \in JsonValues /\ HasItems(source(doc))
    <3>1. settled(doc) = settled(other)
      BY <2>5, <2>6
    <3>2. settled(doc) # {} => Held(doc, First(settled(doc))) = Held(other, First(settled(doc)))
      <4> HAVE settled(doc) # {}
      <4>1. settled(doc) \in SUBSET Nat
        BY <2>6, ItemsAreValues
      <4>2. First(settled(doc)) \in settled(doc)
        <5> HIDE DEF settled
        <5> QED BY <4>1, FirstPosition
      <4>3. First(settled(doc)) \in DOMAIN items
        <5> DEFINE k == First(settled(doc))
        <5>1. k \in settled(doc) BY <4>2
        <5> HIDE DEF k
        <5>2. k \in DOMAIN items BY <5>1
        <5> QED BY <5>2 DEF k
      <4> HIDE DEF settled, items, Held, source
      <4> QED BY <2>5, <2>6, <4>3
    <3> HIDE DEF settled, items, Held, source, otherwise
    <3> QED BY <2>4, <3>1, <3>2
  <2>7. CASE ~(source(doc) \in JsonValues /\ HasItems(source(doc)))
    <3>1. source(doc) \in Errors \/ ~HasItems(source(doc))
      BY <2>3, <2>7
    <3>2. source(doc) \in Errors => Stops(source(doc))
      BY DEF Stops
    <3> HIDE DEF settled, items, Held, source, otherwise
    <3> QED BY <2>4, <3>1, <3>2
  <2> QED BY <2>6, <2>7
<1> QED BY <1>1, <1>2

LEMMA CallAlike ==
  ASSUME NEW doc \in JsonValues, NEW other \in JsonValues, NEW deeper, NEW d,
         d >= MaxDepth \/ AlikeLevel(deeper, doc, other),
         NEW e \in Alike(doc, other), e.type = "call", NEW env \in Envs, NEW lifted \in BOOLEAN
  PROVE  EvalCall(deeper, e, On(env, doc), d, lifted) = EvalCall(deeper, e, On(env, other), d, lifted)
<1> DEFINE helper == IF lifted THEN "operand" ELSE "value"
           resolved(x) == [i \in DOMAIN e.args |-> deeper.node[<<helper, e.args[i], On(env, x)>>]]
           stopped(x) == {i \in DOMAIN e.args : Stops(resolved(x)[i])}
<1>1. CASE d >= MaxDepth
  BY <1>1 DEF EvalCall, Within
<1>2. CASE ~(d >= MaxDepth)
  <2>1. \A i \in DOMAIN e.args : e.args[i] \in Alike(doc, other)
    BY AlikeChildren, NodeTypes, Under
  <2>2. \A i \in DOMAIN e.args :
          deeper.node[<<helper, e.args[i], On(env, doc)>>] = deeper.node[<<helper, e.args[i], On(env, other)>>]
    BY <1>2, <2>1 DEF AlikeLevel, Fits, Helpers
  <2>3. resolved(doc) = resolved(other)
    BY <2>2
  <2>4. stopped(doc) = stopped(other)
    <3> HIDE DEF resolved
    <3> QED BY <2>3
  <2>5. ASSUME NEW x \in {doc, other}
        PROVE  EvalCall(deeper, e, On(env, x), d, lifted) =
                 (IF stopped(x) = {} THEN Dispatch(e.name, resolved(x)) ELSE resolved(x)[First(stopped(x))])
    BY <1>2 DEF EvalCall, Within
  <2> HIDE DEF resolved, stopped
  <2> QED BY <2>3, <2>4, <2>5
<1> QED BY <1>1, <1>2

LEMMA ValueAlike ==
  ASSUME NEW doc \in JsonValues, NEW other \in JsonValues, NEW deeper, NEW d,
         d >= MaxDepth \/ AlikeLevel(deeper, doc, other),
         NEW e \in Alike(doc, other), NEW env \in Envs
  PROVE  /\ ResolveValue(deeper, e, On(env, doc), d) = ResolveValue(deeper, e, On(env, other), d)
         /\ EvalExprBool(deeper, e, On(env, doc), d) = EvalExprBool(deeper, e, On(env, other), d)
<1> DEFINE Same(helper, x) ==
             deeper.node[<<helper, x, On(env, doc)>>] = deeper.node[<<helper, x, On(env, other)>>]
<1>1. CASE d >= MaxDepth
  BY <1>1 DEF ResolveValue, EvalExprBool, Within
<1>2. CASE ~(d >= MaxDepth)
  <2> USE DEF Iterations
  <2>1. ASSUME NEW helper \in Helpers, NEW x \in Alike(doc, other), Fits(helper, x) PROVE Same(helper, x)
    BY <1>2, <2>1 DEF AlikeLevel
  <2>2. e \in Built
    BY AlikeChildren
  <2>3. CASE e.type \in {"value", "assign"}
    BY <2>3 DEF ResolveValue, EvalExprBool
  <2>4. CASE e.type = "ref"
    <3>1. ResolveRef(e.path, On(env, doc)) = ResolveRef(e.path, On(env, other))
      BY <2>4, AlikeChildren, RefAlike
    <3> QED BY <2>4, <3>1 DEF ResolveValue, EvalExprBool
  <2>5. CASE e.type = "compare"
    <3>1. Same("compare", e)
      BY <2>1, <2>5 DEF Helpers, Fits
    <3> QED BY <2>5, <3>1 DEF ResolveValue, EvalExprBool
  <2>6. CASE e.type = "not"
    <3>1. e.expr \in Alike(doc, other)
      BY <2>2, <2>6, AlikeChildren, NodeTypes, Under
    <3>2. Same("negation", e.expr)
      BY <2>1, <3>1 DEF Helpers, Fits
    <3> QED BY <2>6, <3>2 DEF ResolveValue, EvalExprBool
  <2>7. CASE e.type \in Iterations
    <3>1. Same("iteration", e)
      BY <2>1, <2>7 DEF Helpers, Fits
    <3> QED BY <2>7, <3>1 DEF ResolveValue, EvalExprBool
  <2>8. CASE e.type = "call"
    <3>1. Same("call", e)
      BY <2>1, <2>8 DEF Helpers, Fits
    <3> QED BY <2>8, <3>1 DEF ResolveValue, EvalExprBool
  <2>9. CASE e.type = "in"
    <3>1. Same("member", e)
      BY <2>1, <2>9 DEF Helpers, Fits
    <3> QED BY <2>9, <3>1 DEF ResolveValue, EvalExprBool
  <2> QED BY <2>2, <2>3, <2>4, <2>5, <2>6, <2>7, <2>8, <2>9, NodeTypes
<1> QED BY <1>1, <1>2

LEMMA NegationAlike ==
  ASSUME NEW doc \in JsonValues, NEW other \in JsonValues, NEW deeper, NEW d,
         d >= MaxDepth \/ AlikeLevel(deeper, doc, other),
         NEW e \in Alike(doc, other), NEW env \in Envs
  PROVE  EvalNegation(deeper, e, On(env, doc), d) = EvalNegation(deeper, e, On(env, other), d)
<1> DEFINE Same(helper, x) ==
             deeper.node[<<helper, x, On(env, doc)>>] = deeper.node[<<helper, x, On(env, other)>>]
<1>1. CASE d >= MaxDepth
  BY <1>1 DEF EvalNegation, Within
<1>2. CASE ~(d >= MaxDepth)
  <2> USE DEF Iterations
  <2>1. ASSUME NEW helper \in Helpers, NEW x \in Alike(doc, other), Fits(helper, x) PROVE Same(helper, x)
    BY <1>2, <2>1 DEF AlikeLevel
  <2>2. e \in Built
    BY AlikeChildren
  <2>3. CASE e.type \in {"value", "ref", "assign"}
    <3>1. EvalExprBool(deeper, e, On(env, doc), d) = EvalExprBool(deeper, e, On(env, other), d)
      BY <1>2, ValueAlike
    <3> QED BY <2>3, <3>1 DEF EvalNegation
  <2>4. CASE e.type = "compare"
    <3>1. e.left \in Alike(doc, other) /\ e.right \in Alike(doc, other)
      BY <2>2, <2>4, AlikeChildren, NodeTypes, Under
    <3>2. Same("operand", e.left) /\ Same("operand", e.right)
      BY <2>1, <3>1 DEF Helpers, Fits
    <3>3. NegateCompare(deeper, e, On(env, doc)) = NegateCompare(deeper, e, On(env, other))
      BY <3>2 DEF NegateCompare
    <3> QED BY <2>4, <3>3 DEF EvalNegation
  <2>5. CASE e.type = "not"
    <3>1. e.expr \in Alike(doc, other)
      BY <2>2, <2>5, AlikeChildren, NodeTypes, Under
    <3>2. Same("negation", e.expr)
      BY <2>1, <3>1 DEF Helpers, Fits
    <3> QED BY <2>5, <3>2 DEF EvalNegation
  <2>6. CASE e.type \in Iterations
    <3>1. Same("iteration", e)
      BY <2>1, <2>6 DEF Helpers, Fits
    <3> QED BY <2>6, <3>1 DEF EvalNegation
  <2>7. CASE e.type = "call"
    <3>1. Same("lifted_call", e)
      BY <2>1, <2>7 DEF Helpers, Fits
    <3> QED BY <2>7, <3>1 DEF EvalNegation
  <2>8. CASE e.type = "in"
    <3>1. Same("member", e)
      BY <2>1, <2>8 DEF Helpers, Fits
    <3> QED BY <2>8, <3>1 DEF EvalNegation
  <2> QED BY <2>2, <2>3, <2>4, <2>5, <2>6, <2>7, <2>8, NodeTypes
<1> QED BY <1>1, <1>2

LEMMA OperandAlike ==
  ASSUME NEW doc \in JsonValues, NEW other \in JsonValues, NEW deeper, NEW d,
         d >= MaxDepth \/ AlikeLevel(deeper, doc, other),
         NEW e \in Alike(doc, other), NEW env \in Envs
  PROVE  ResolveDefined(deeper, e, On(env, doc), d) = ResolveDefined(deeper, e, On(env, other), d)
<1> USE DEF Iterations
<1>1. e \in Built
  BY AlikeChildren
<1>2. CASE e.type = "ref"
  BY <1>2, AlikeChildren, RefAlike DEF ResolveDefined
<1>3. CASE e.type = "compare"
  BY <1>3, CompareAlike DEF ResolveDefined
<1>4. CASE e.type = "not"
  <2>1. e.expr \in Alike(doc, other)
    BY <1>1, <1>4, AlikeChildren, NodeTypes, Under
  <2> QED BY <1>4, <2>1, NegationAlike DEF ResolveDefined
<1>5. CASE e.type \in Iterations
  <2>1. EvalIteration(deeper, e, On(env, doc), d) = EvalIteration(deeper, e, On(env, other), d)
    BY <1>5, IterationAlike
  <2> QED BY <1>5, <2>1 DEF ResolveDefined
<1>6. CASE e.type = "in"
  BY <1>6, MemberAlike DEF ResolveDefined
<1>7. CASE e.type = "call"
  <2>1. EvalCall(deeper, e, On(env, doc), d, TRUE) = EvalCall(deeper, e, On(env, other), d, TRUE)
    <3> DEFINE lifted == TRUE
    <3> lifted \in BOOLEAN
      OBVIOUS
    <3> HIDE DEF lifted
    <3>1. EvalCall(deeper, e, On(env, doc), d, lifted) = EvalCall(deeper, e, On(env, other), d, lifted)
      BY <1>7, CallAlike
    <3> QED BY <3>1 DEF lifted
  <2> QED BY <1>7, <2>1 DEF ResolveDefined
<1>8. CASE e.type \in {"value", "assign"}
  BY <1>8, ValueAlike DEF ResolveDefined
<1> QED BY <1>1, <1>2, <1>3, <1>4, <1>5, <1>6, <1>7, <1>8, NodeTypes

LEMMA BoundAlike ==
  ASSUME NEW doc \in JsonValues, NEW other \in JsonValues, NEW deeper, AlikeLevel(deeper, doc, other),
         NEW e \in Alike(doc, other), NEW env \in Envs
  PROVE  BoundValue(deeper, e, On(env, doc)) = BoundValue(deeper, e, On(env, other))
<1>1. CASE e.type = "value"
  BY <1>1 DEF BoundValue
<1>2. CASE e.type = "ref"
  BY <1>2, AlikeChildren, RefAlike DEF BoundValue
<1>3. CASE e.type \notin {"value", "ref"}
  <2>1. deeper.node[<<"value", e, On(env, doc)>>] = deeper.node[<<"value", e, On(env, other)>>]
    BY DEF AlikeLevel, Fits, Helpers
  <2> QED BY <1>3, <2>1 DEF BoundValue
<1> QED BY <1>1, <1>2, <1>3

LEMMA BodyAlike ==
  ASSUME NEW doc \in JsonValues, NEW other \in JsonValues, NEW deeper, NEW d,
         d >= MaxDepth \/ AlikeLevel(deeper, doc, other),
         NEW stmts \in AlikeBodies(doc, other), NEW from \in Nat \ {0}, NEW env \in Envs
  PROVE  EvalBody(deeper, stmts, from, On(env, doc), d) = EvalBody(deeper, stmts, from, On(env, other), d)
<1> DEFINE bindings == Bindings(stmts, from)
           next == First(bindings)
           conditions == Conditions(stmts, from)
           Held(x, i) == EvalExprBool(deeper, stmts[i], On(env, x), d)
           stopped(x) == {i \in conditions : Held(x, i) # Boolean(TRUE)}
           held(x) == EvalConditions(deeper, stmts, conditions, On(env, x), d)
           bound(x) == BoundValue(deeper, stmts[next].value, On(env, x))
           rest(x) == deeper.body[<<stmts, next + 1, Push(On(env, x), stmts[next].var, bound(x))>>]
<1>1. CASE d >= MaxDepth
  BY <1>1 DEF EvalBody, Within
<1>2. CASE ~(d >= MaxDepth)
  <2>1. ASSUME NEW x \in {doc, other}
        PROVE  EvalBody(deeper, stmts, from, On(env, x), d) =
                 (IF held(x) # Boolean(TRUE) \/ bindings = {} THEN held(x)
                  ELSE OrFalse(IF Stops(bound(x)) THEN bound(x) ELSE rest(x)))
    BY <1>2 DEF EvalBody, Within, Then, Conditions
  <2>2. stmts \in Bodies /\ \A i \in DOMAIN stmts : stmts[i] \in Alike(doc, other)
    BY DEF AlikeBodies
  <2>3. conditions \subseteq DOMAIN stmts /\ conditions \in SUBSET Nat
    BY <2>2, BodyShape
  <2>4. \A i \in conditions : Held(doc, i) = Held(other, i)
    BY <1>2, <2>2, <2>3, ValueAlike
  <2>5. held(doc) = held(other)
    <3>1. stopped(doc) = stopped(other)
      BY <2>4
    <3>2. \A x \in {doc, other} : held(x) = (IF stopped(x) = {} THEN Boolean(TRUE) ELSE Held(x, First(stopped(x))))
      BY DEF EvalConditions
    <3>3. stopped(doc) # {} => First(stopped(doc)) \in conditions
      <4> HAVE stopped(doc) # {}
      <4>1. stopped(doc) \in SUBSET Nat /\ stopped(doc) \subseteq conditions
        BY <2>3
      <4> HIDE DEF stopped, conditions
      <4> QED BY <4>1, FirstPosition
    <3>4. doc \in {doc, other} /\ other \in {doc, other}
      OBVIOUS
    <3> HIDE DEF stopped, conditions, Held, held
    <3>5. /\ held(doc) = IF stopped(doc) = {} THEN Boolean(TRUE) ELSE Held(doc, First(stopped(doc)))
          /\ held(other) = IF stopped(doc) = {} THEN Boolean(TRUE) ELSE Held(other, First(stopped(doc)))
      BY <3>1, <3>2, <3>4, Zenon
    <3> DEFINE yes == Boolean(TRUE)
    <3> HIDE DEF yes
    <3>6. /\ held(doc) = IF stopped(doc) = {} THEN yes ELSE Held(doc, First(stopped(doc)))
          /\ held(other) = IF stopped(doc) = {} THEN yes ELSE Held(other, First(stopped(doc)))
      BY <3>5, Zenon DEF yes
    <3> QED BY <2>4, <3>3, <3>6
  <2>6. CASE bindings = {}
    BY <2>1, <2>5, <2>6
  <2>7. CASE bindings # {}
    <3>1. next \in DOMAIN stmts /\ stmts[next] \in Built /\ stmts[next].type = "assign" /\ next + 1 \in Nat \ {0}
      BY <2>2, <2>7, BodyShape
    <3>2. stmts[next].value \in Alike(doc, other) /\ stmts[next].value \in Built /\ stmts[next].var \in Strings
      <4>1. stmts[next] \in Alike(doc, other)
        BY <2>2, <3>1
      <4>2. Children(stmts[next]) = {stmts[next].value}
        BY <3>1, NodeTypes, Under
      <4> QED BY <3>1, <4>1, <4>2, AlikeChildren, NodeTypes
    <3>3. bound(doc) = bound(other)
      BY <1>2, <3>2, BoundAlike
    <3>4. bound(doc) \in Results
      BY <1>2, <3>2, OnEnv, BoundValueTyped DEF AlikeLevel
    <3>5. ASSUME ~Stops(bound(doc)) PROVE rest(doc) = rest(other)
      <4> DEFINE v == bound(doc)
                 var == stmts[next].var
      <4>1. v \in JsonValues
        BY <3>4, <3>5, AnswerSets
      <4>2. Push(env, var, v) \in Envs
        BY <3>2, <4>1, PushEnv
      <4>3. \A x \in {doc, other} : Push(On(env, x), var, v) = On(Push(env, var, v), x)
        BY <3>2, <4>1, OnEnv
      <4>4. \A x \in {doc, other} : rest(x) = deeper.body[<<stmts, next + 1, Push(On(env, x), var, v)>>]
        BY <3>3
      <4> HIDE DEF v, var, next, rest
      <4>5. deeper.body[<<stmts, next + 1, On(Push(env, var, v), doc)>>] =
              deeper.body[<<stmts, next + 1, On(Push(env, var, v), other)>>]
        BY <1>2, <3>1, <4>2 DEF AlikeLevel
      <4> QED BY <4>3, <4>4, <4>5
    <3>6. doc \in {doc, other} /\ other \in {doc, other}
      OBVIOUS
    <3> HIDE DEF held, bound, rest, bindings, next
    <3>7. /\ EvalBody(deeper, stmts, from, On(env, doc), d) =
               (IF held(doc) # Boolean(TRUE) \/ bindings = {} THEN held(doc)
                ELSE OrFalse(IF Stops(bound(doc)) THEN bound(doc) ELSE rest(doc)))
          /\ EvalBody(deeper, stmts, from, On(env, other), d) =
               (IF held(doc) # Boolean(TRUE) \/ bindings = {} THEN held(doc)
                ELSE OrFalse(IF Stops(bound(doc)) THEN bound(doc) ELSE rest(other)))
      BY <2>1, <2>5, <3>3, <3>6, Zenon
    <3>8. CASE held(doc) # Boolean(TRUE) \/ bindings = {}
      BY <3>7, <3>8, Zenon
    <3>9. CASE ~(held(doc) # Boolean(TRUE) \/ bindings = {})
      <4>1. /\ EvalBody(deeper, stmts, from, On(env, doc), d) = OrFalse(IF Stops(bound(doc)) THEN bound(doc) ELSE rest(doc))
            /\ EvalBody(deeper, stmts, from, On(env, other), d) = OrFalse(IF Stops(bound(doc)) THEN bound(doc) ELSE rest(other))
        BY <3>7, <3>9, Zenon
      <4> QED BY <3>5, <4>1
    <3> QED BY <3>8, <3>9
  <2> QED BY <2>6, <2>7
<1> QED BY <1>1, <1>2

LEMMA LevelAlike ==
  ASSUME NEW doc \in JsonValues, NEW other \in JsonValues, NEW deeper, NEW d,
         d >= MaxDepth \/ AlikeLevel(deeper, doc, other)
  PROVE  AlikeLevel(Level(deeper, d), doc, other)
<1>1. TypedLevel(Level(deeper, d))
  BY LevelTyped DEF AlikeLevel
<1>2. ASSUME NEW helper \in Helpers, NEW e \in Alike(doc, other), NEW env \in Envs, Fits(helper, e)
      PROVE  Level(deeper, d).node[<<helper, e, On(env, doc)>>] = Level(deeper, d).node[<<helper, e, On(env, other)>>]
  <2>1. \A x \in {doc, other} :
          Level(deeper, d).node[<<helper, e, On(env, x)>>] = EvalNode(deeper, helper, e, On(env, x), d)
    BY LevelApplied, OnEnv, AlikeChildren, NodeTypes
  <2>2. CASE helper = "operand"
    BY <2>1, <2>2, OperandAlike DEF EvalNode
  <2>3. CASE helper = "value"
    BY <2>1, <2>3, ValueAlike DEF EvalNode
  <2>4. CASE helper = "compare"
    BY <1>2, <2>1, <2>4, CompareAlike DEF EvalNode, Fits
  <2>5. CASE helper = "member"
    BY <1>2, <2>1, <2>5, MemberAlike DEF EvalNode, Fits
  <2>6. CASE helper = "iteration"
    BY <1>2, <2>1, <2>6, IterationAlike DEF EvalNode, Fits
  <2>7. CASE helper = "call"
    <3> DEFINE lifted == FALSE
    <3>1. e.type = "call" /\ lifted \in BOOLEAN
      BY <1>2, <2>7 DEF Fits
    <3>2. \A x \in {doc, other} : EvalNode(deeper, helper, e, On(env, x), d) = EvalCall(deeper, e, On(env, x), d, lifted)
      BY <2>7 DEF EvalNode
    <3> HIDE DEF lifted
    <3>3. EvalCall(deeper, e, On(env, doc), d, lifted) = EvalCall(deeper, e, On(env, other), d, lifted)
      BY <3>1, CallAlike
    <3> QED BY <2>1, <3>2, <3>3
  <2>8. CASE helper = "lifted_call"
    <3> DEFINE lifted == TRUE
    <3>1. e.type = "call" /\ lifted \in BOOLEAN
      BY <1>2, <2>8 DEF Fits
    <3>2. \A x \in {doc, other} : EvalNode(deeper, helper, e, On(env, x), d) = EvalCall(deeper, e, On(env, x), d, lifted)
      BY <2>8 DEF EvalNode
    <3> HIDE DEF lifted
    <3>3. EvalCall(deeper, e, On(env, doc), d, lifted) = EvalCall(deeper, e, On(env, other), d, lifted)
      BY <3>1, CallAlike
    <3> QED BY <2>1, <3>2, <3>3
  <2>9. CASE helper = "negation"
    BY <2>1, <2>9, NegationAlike DEF EvalNode
  <2> QED BY <2>2, <2>3, <2>4, <2>5, <2>6, <2>7, <2>8, <2>9 DEF Helpers
<1>3. ASSUME NEW stmts \in AlikeBodies(doc, other), NEW from \in Nat \ {0}, NEW env \in Envs
      PROVE  Level(deeper, d).body[<<stmts, from, On(env, doc)>>] = Level(deeper, d).body[<<stmts, from, On(env, other)>>]
  <2>1. stmts \in Seq(Nodes)
    BY DEF AlikeBodies, Bodies
  <2>2. \A x \in {doc, other} :
          Level(deeper, d).body[<<stmts, from, On(env, x)>>] = EvalBody(deeper, stmts, from, On(env, x), d)
    BY <2>1, LevelApplied, OnEnv
  <2> QED BY <2>2, BodyAlike
<1> QED BY <1>1, <1>2, <1>3 DEF AlikeLevel

LEMMA EvalAlike ==
  ASSUME NEW doc \in JsonValues, NEW other \in JsonValues
  PROVE  \A d \in 0 .. MaxDepth : AlikeLevel(Eval[d], doc, other)
<1> DEFINE S == {d \in 0 .. MaxDepth : AlikeLevel(Eval[d], doc, other)}
<1>0. MaxDepth \in Nat
  BY EvaluatorAssumption
<1>1. MaxDepth \in S
  BY <1>0, EvalUnfolded, LevelAlike
<1>2. ASSUME NEW d \in 0 .. MaxDepth, d < MaxDepth, d + 1 \in S PROVE d \in S
  <2>1. Deeper(Eval, d) = Eval[d + 1]
    BY <1>0, <1>2 DEF Deeper
  <2> QED BY <1>2, <2>1, EvalUnfolded, LevelAlike
<1> HIDE DEF S
<1>3. 0 .. MaxDepth \subseteq S
  <2> S \subseteq 0 .. MaxDepth BY DEF S
  <2> QED BY <1>1, <1>2, FromTheCap
<1> QED BY <1>3 DEF S

LEMMA RuleAlike ==
  ASSUME NEW stmts, NEW answer, <<stmts, answer>> \in Rules, NEW doc \in JsonValues, NEW other \in JsonValues,
         stmts \in AlikeBodies(doc, other), answer # NoValue => answer \in Alike(doc, other)
  PROVE  EvalRule(stmts, answer, doc) = EvalRule(stmts, answer, other)
<1> DEFINE held(x) == Eval[0].body[<<stmts, 1, StartEnv(x)>>]
           result(x) == Eval[0].node[<<"value", answer, StartEnv(x)>>]
<1>1. AlikeLevel(Eval[0], doc, other)
  BY EvalAlike, EvaluatorAssumption
<1>2. StartEnv(doc) \in Envs /\ StartEnv(doc) = On(StartEnv(doc), doc) /\ StartEnv(other) = On(StartEnv(doc), other)
  BY StartTyped DEF On, StartEnv
<1>3. held(doc) = held(other)
  BY <1>1, <1>2 DEF AlikeLevel
<1>4. answer # NoValue => result(doc) = result(other)
  BY <1>1, <1>2 DEF AlikeLevel, Fits, Helpers
<1>5. \A x \in {doc, other} : ResultOf(stmts, answer, x) =
        (IF Stops(held(x)) THEN held(x)
         ELSE IF held(x) # Boolean(TRUE) \/ answer = NoValue THEN held(x) ELSE Holds(result(x)))
  BY DEF ResultOf, RuleResult, Then
<1>6. ResultOf(stmts, answer, doc) = ResultOf(stmts, answer, other)
  <2> DEFINE yes == Boolean(TRUE)
  <2>1. \A x \in {doc, other} : ResultOf(stmts, answer, x) =
          (IF Stops(held(x)) THEN held(x)
           ELSE IF held(x) # yes \/ answer = NoValue THEN held(x) ELSE Holds(result(x)))
    BY <1>5
  <2> HIDE DEF held, result, yes
  <2> QED BY <1>3, <1>4, <2>1
<1> QED BY <1>6, RuleAnswer

(* A path that the analysis finds outside of the body leads to the same in *)
(* two objects that agree beside the body.                                 *)
LEMMA AbsentMember ==
  ASSUME NEW v \in JsonValues, Kind(v) = "object", NEW k, k \notin Keys(v)
  PROVE  LookupMember(Content(v), k) = Undefined
BY DEF LookupMember, Keys

LEMMA OutsideTheBody ==
  ASSUME NEW doc \in JsonValues, NEW other \in JsonValues, AgreeBeside(doc, other),
         NEW path \in Seq(Segments), ClassifyRef(path) = "none"
  PROVE  Agree(doc, other, path)
<1> DEFINE p == IF IsKey(path[1], InputKey) THEN Tail(path) ELSE path
<1>1. CASE path = << >>
  BY <1>1 DEF Agree
<1>2. CASE path # << >>
  <2>1. p # << >> /\ ~IsKey(p[1], BodyKey) /\ ~IsKey(p[1], BodyRawKey)
    BY <1>2 DEF ClassifyRef
  <2>2. p \in Seq(Segments)
    BY <1>2
  <2> HIDE DEF p
  <2>3. p[1] \in Segments /\ Head(p) = p[1] /\ Tail(p) \in Seq(Segments)
    BY <2>1, <2>2, TailPath
  <2>4. ASSUME NEW k \in Strings, p[1] = <<"key", k>>
        PROVE  LookupMember(Content(doc), k) = LookupMember(Content(other), k)
    <3>1. k \notin {BodyKey, BodyRawKey}
      BY <2>1, <2>4 DEF IsKey, Key
    <3>2. CASE k \in Keys(doc) \cup Keys(other)
      BY <3>1, <3>2 DEF AgreeBeside
    <3>3. CASE k \notin Keys(doc) \cup Keys(other)
      BY <3>3, AbsentMember DEF AgreeBeside
    <3> QED BY <3>2, <3>3
  <2>5. Step(doc, p[1]) = Step(other, p[1])
    <3>1. CASE p[1] \in {"key"} \X Strings
      <4>1. PICK k \in Strings : p[1] = <<"key", k>>
        BY <3>1
      <4> QED BY <2>4, <4>1 DEF Step, AgreeBeside
    <3>2. CASE p[1] \in {"index"} \X Nat
      <4>1. p[1][1] = "index"
        BY <3>2
      <4> QED BY <4>1 DEF Step, AgreeBeside
    <3> QED BY <2>3, <3>1, <3>2 DEF Segments
  <2>6. \A x \in {doc, other} : Walk[<<x, p>>] = Walk[<<Step(x, p[1]), Tail(p)>>]
    <3> SUFFICES ASSUME NEW x \in {doc, other} PROVE Walk[<<x, p>>] = Walk[<<Step(x, p[1]), Tail(p)>>]
      OBVIOUS
    <3>1. <<x, p>> \in Journeys /\ x # Undefined
      BY <2>2, AnswerSets DEF Journeys, Defined
    <3>2. Walk[<<x, p>>] = WalkBy(Walk, x, p)
      BY <3>1, WalkUnfolded
    <3> QED BY <2>1, <2>3, <3>1, <3>2 DEF WalkBy
  <2>7. Walk[<<doc, p>>] = Walk[<<other, p>>]
    BY <2>5, <2>6
  <2> QED BY <1>2, <2>7 DEF Agree, p
<1> QED BY <1>1, <1>2

(* A path has the value in a document that Rego gives it with no binding.  *)
LEMMA SamePath ==
  ASSUME NEW doc, NEW other, NEW path \in Seq(Segments), At(other, path) = At(doc, path)
  PROVE  Agree(doc, other, path)
<1>1. ASSUME NEW x, path # << >>
      PROVE  At(x, path) = Walk[<<x, IF IsKey(path[1], InputKey) THEN Tail(path) ELSE path>>]
  <2> DEFINE env == [input |-> x, scope |-> << >>]
             frames == {i \in DOMAIN env.scope : path[1] = Key(env.scope[i].name)}
  <2>1. frames = {} /\ env.input = x
    OBVIOUS
  <2>2. At(x, path) = IF path[1] = Key(InputKey) THEN Walk[<<x, Tail(path)>>] ELSE Walk[<<x, path>>]
    BY <1>1, <2>1 DEF At, RefMeaning
  <2> QED BY <2>2 DEF IsKey
<1> QED BY <1>1 DEF Agree

LEMMA Classes ==
  ASSUME NEW path
  PROVE  ClassifyRef(path) \in {"none", "prefix", "whole"}
BY DEF ClassifyRef

LEMMA VisitedRefs ==
  ASSUME NEW stmts, NEW answer, NEW e \in Nodes, NEW n \in Parts[e], n.type = "ref",
         (\E i \in DOMAIN stmts : e = stmts[i]) \/ (answer # NoValue /\ e = answer)
  PROVE  <<ClassifyRef(n.path), n.path>> \in VisitRule(stmts, answer)
<1>1. <<ClassifyRef(n.path), n.path>> \in Touches(n)
  BY DEF Touches, Iterations
<1>2. <<ClassifyRef(n.path), n.path>> \in Visit(e)
  BY <1>1 DEF Visit
<1>3. Visit(e) \in {Visit(stmts[i]) : i \in DOMAIN stmts} \/ (answer # NoValue /\ Visit(e) = Visit(answer))
  OBVIOUS
<1>4. Visit(e) \subseteq VisitRule(stmts, answer)
  <2> DEFINE visits == {Visit(stmts[i]) : i \in DOMAIN stmts}
  <2>1. VisitRule(stmts, answer) = (UNION visits) \cup (IF answer = NoValue THEN {} ELSE Visit(answer))
    BY DEF VisitRule
  <2>2. Visit(e) \in visits \/ (answer # NoValue /\ Visit(e) = Visit(answer))
    BY <1>3
  <2> HIDE DEF visits
  <2> QED BY <2>1, <2>2
<1> QED BY <1>2, <1>4

(* A rule whose refs lead to the same in two documents answers alike.      *)
LEMMA AlikeRule ==
  ASSUME NEW stmts, NEW answer, <<stmts, answer>> \in Rules, NEW doc \in JsonValues, NEW other \in JsonValues,
         \A path \in Seq(Segments) :
           <<ClassifyRef(path), path>> \in VisitRule(stmts, answer) => Agree(doc, other, path)
  PROVE  EvalRule(stmts, answer, doc) = EvalRule(stmts, answer, other)
<1>1. ASSUME NEW e \in Built, (\E i \in DOMAIN stmts : e = stmts[i]) \/ (answer # NoValue /\ e = answer)
      PROVE  e \in Alike(doc, other)
  <2> SUFFICES ASSUME NEW n \in Parts[e], n.type = "ref" PROVE Agree(doc, other, n.path)
    BY DEF Alike
  <2>1. e \in Nodes
    BY BuiltParts
  <2>2. n \in Nodes /\ BuildNodeOK(n)
    BY <2>1, PartsOfParts DEF Built, BuildExprOK
  <2>3. n.path \in Seq(Segments)
    BY <2>2, RefPath
  <2>4. <<ClassifyRef(n.path), n.path>> \in VisitRule(stmts, answer)
    BY <1>1, <2>1, VisitedRefs
  <2> QED BY <2>3, <2>4
<1>2. stmts \in AlikeBodies(doc, other)
  <2>1. stmts \in Bodies /\ \A i \in DOMAIN stmts : stmts[i] \in Built
    BY RuleParts DEF Bodies
  <2>2. \A i \in DOMAIN stmts : stmts[i] \in Alike(doc, other)
    BY <1>1, <2>1
  <2> QED BY <2>1, <2>2 DEF AlikeBodies
<1>3. answer # NoValue => answer \in Alike(doc, other)
  BY <1>1, RuleParts
<1> QED BY <1>2, <1>3, RuleAlike

LEMMA Evaluated ==
  ASSUME IInv, Decided
  PROVE  <<body, value>> \in Rules /\ input \in JsonValues /\ outcome = EvalRule(body, value, input)
<1>1. outcome \in Answers
  BY AnswerNames DEF Decided
<1>2. input \in Inputs
  BY <1>1 DEF IInv, TypeOK
<1> QED BY <1>1, <1>2, EvaluatorAssumption DEF IInv

LEMMA UnreadBodyInvariant ==
  IInv => UnreadBodyIrrelevant
<1> SUFFICES ASSUME IInv, Decided, Class(body, value) = "no_body_refs", NEW other \in OthersBeside(input)
             PROVE  EvalRule(body, value, other) = outcome
  BY DEF UnreadBodyIrrelevant
<1>1. other \in JsonValues /\ AgreeBeside(input, other)
  BY EvaluatorAssumption DEF OthersBeside
<1>2. \A t \in VisitRule(body, value) : t[1] = "none"
  BY DEF Class
<1>3. \A path \in Seq(Segments) :
        <<ClassifyRef(path), path>> \in VisitRule(body, value) => Agree(input, other, path)
  BY <1>1, <1>2, Evaluated, OutsideTheBody
<1> QED BY <1>1, <1>3, Evaluated, AlikeRule

(* A rule that the analysis finds to read nothing of the body decides      *)
(* alike whatever the body is: the shim may evaluate it on a cut one       *)
(* (body_deps.zig:8-16).                                                   *)
THEOREM UnreadBody ==
  Spec => []UnreadBodyIrrelevant
BY UnreadBodyInvariant, Invariance, PTL

LEMMA PrefixInvariant ==
  IInv => PrefixSuffices
<1> SUFFICES ASSUME IInv, Decided, Class(body, value) = "prefix_only", NEW other \in OthersBeside(input),
                    \A t \in VisitRule(body, value) : t[1] = "prefix" => At(other, t[2]) = At(input, t[2])
             PROVE  EvalRule(body, value, other) = outcome
  BY DEF PrefixSuffices
<1>1. other \in JsonValues /\ AgreeBeside(input, other)
  BY EvaluatorAssumption DEF OthersBeside
<1>2. \A t \in VisitRule(body, value) : t[1] # "whole"
  BY DEF Class
<1>3. ASSUME NEW path \in Seq(Segments), <<ClassifyRef(path), path>> \in VisitRule(body, value)
      PROVE  Agree(input, other, path)
  <2>1. ClassifyRef(path) \in {"none", "prefix"}
    BY <1>2, <1>3, Classes
  <2>2. CASE ClassifyRef(path) = "none"
    BY <1>1, <2>2, Evaluated, OutsideTheBody
  <2>3. CASE ClassifyRef(path) = "prefix"
    <3>1. At(other, path) = At(input, path)
      BY <1>3, <2>3
    <3> QED BY <3>1, SamePath
  <2> QED BY <2>1, <2>2, <2>3
<1> QED BY <1>1, <1>3, Evaluated, AlikeRule

(* A rule that the analysis finds to read sub-paths of the body decides    *)
(* alike on documents that agree on those (body_deps.zig:26-28).           *)
THEOREM PrefixesSuffice ==
  Spec => []PrefixSuffices
BY PrefixInvariant, Invariance, PTL

-----------------------------------------------------------------------------
(* The cap is hit only by what is as deep as its levels say.               *)
LEMMA LevelsAbove ==
  ASSUME NEW e \in Nodes
  PROVE  /\ Levels[e] \in Nat /\ \A c \in Children(e) : Levels[c] \in Nat
         /\ e.type \in {"compare", "in"} => Levels[e] >= 2 + Levels[e.left] /\ Levels[e] >= 2 + Levels[e.right]
         /\ e.type = "not" => Levels[e] = 2 + Levels[e.expr]
         /\ e.type = "assign" => Levels[e] = 1 + Levels[e.value]
         /\ e.type = "call" => Levels[e] >= 2 /\ \A i \in DOMAIN e.args : Levels[e] >= 2 + Levels[e.args[i]]
         /\ e.type \in Iterations =>
              /\ Levels[e] >= 2 + Levels[e.source] /\ LevelsOfBody(Levels, e.body) \in Nat
              /\ Levels[e] >= 2 + LevelsOfBody(Levels, e.body)
<1>0. /\ Levels[e] = LevelsBy(Levels, e) /\ Levels[e] \in Nat
      /\ \A c \in Children(e) : Levels[c] \in Nat
  BY LevelsUnfolded, NodesAssumption DEF NodeOK
<1>1. CASE e.type \in {"value", "ref"}
  BY <1>0, <1>1 DEF Iterations
<1>2. CASE e.type \in {"compare", "in"}
  <2> DEFINE S == {Levels[e.left], Levels[e.right]}
  <2>1. Levels[e.left] \in Nat /\ Levels[e.right] \in Nat
    BY <1>0, <1>2, Under
  <2>2. S \in SUBSET Nat /\ \A m \in S : m <= Levels[e.left] + Levels[e.right]
    BY <2>1
  <2>3. Highest(S) \in Nat /\ \A m \in S : m <= Highest(S)
    <3> HIDE DEF S
    <3> Levels[e.left] + Levels[e.right] \in Nat BY <2>1
    <3> QED BY <2>2, HighestIsBound
  <2>4. Levels[e] = 2 + Highest(S)
    BY <1>0, <1>2 DEF LevelsBy, Iterations
  <2>5. Levels[e.left] <= Highest(S) /\ Levels[e.right] <= Highest(S)
    BY <2>3
  <2> HIDE DEF S
  <2> QED BY <1>0, <1>2, <2>1, <2>3, <2>4, <2>5 DEF Iterations
<1>3. CASE e.type = "not"
  BY <1>0, <1>3 DEF LevelsBy, Iterations
<1>4. CASE e.type = "assign"
  BY <1>0, <1>4 DEF LevelsBy, Iterations
<1>5. CASE e.type = "call"
  <2> DEFINE f == [i \in 1 .. Len(e.args) |-> Levels[e.args[i]]]
             S == {Levels[e.args[i]] : i \in DOMAIN e.args}
  <2>1. Len(e.args) \in Nat /\ DOMAIN e.args = 1 .. Len(e.args)
    BY <1>5, NodesAssumption DEF NodeOK
  <2>2. \A i \in DOMAIN e.args : Levels[e.args[i]] \in Nat
    BY <1>0, <1>5, Under
  <2>3. f \in [1 .. Len(e.args) -> Nat]
    BY <2>1, <2>2
  <2>4. PICK b \in Nat : \A i \in 1 .. Len(e.args) : f[i] <= b
    <3> HIDE DEF f
    <3> QED BY <2>1, <2>3, SequenceBounded
  <2>5. S \in SUBSET Nat /\ \A m \in S : m <= b
    BY <2>1, <2>2, <2>4
  <2>6. Highest(S) \in Nat /\ \A m \in S : m <= Highest(S)
    <3> HIDE DEF S
    <3> QED BY <2>5, HighestIsBound
  <2>7. Levels[e] = 2 + Highest(S)
    BY <1>0, <1>5 DEF LevelsBy, Iterations
  <2>8. \A i \in DOMAIN e.args : Levels[e.args[i]] <= Highest(S)
    BY <2>6
  <2> HIDE DEF S, f
  <2> QED BY <1>0, <1>5, <2>2, <2>6, <2>7, <2>8 DEF Iterations
<1>6. CASE e.type \in Iterations
  <2> DEFINE n == LevelsOfBody(Levels, e.body)
             S == {Levels[e.source], n}
  <2>1. Levels[e.source] \in Nat /\ \A i \in DOMAIN e.body : Levels[e.body[i]] \in Nat
    BY <1>0, <1>6, Under
  <2>2. Len(e.body) \in Nat /\ DOMAIN e.body = 1 .. Len(e.body)
    BY <1>6, NodesAssumption DEF NodeOK
  <2>3. n \in Nat
    BY <2>1, <2>2, LevelsOfBodyBound
  <2> HIDE DEF n
  <2>4. S \in SUBSET Nat /\ \A m \in S : m <= Levels[e.source] + n
    BY <2>1, <2>3
  <2>5. Highest(S) \in Nat /\ \A m \in S : m <= Highest(S)
    <3> HIDE DEF S
    <3> Levels[e.source] + n \in Nat BY <2>1, <2>3
    <3> QED BY <2>4, HighestIsBound
  <2>6. Levels[e] = 2 + Highest(S)
    BY <1>0, <1>6 DEF LevelsBy, Iterations, n
  <2>7. Levels[e.source] <= Highest(S) /\ n <= Highest(S)
    BY <2>5
  <2> HIDE DEF S
  <2>8. Levels[e] >= 2 + Levels[e.source] /\ n \in Nat /\ Levels[e] >= 2 + n
    BY <2>1, <2>3, <2>5, <2>6, <2>7
  <2> QED BY <1>0, <1>6, <2>8 DEF Iterations, n
<1> QED BY <1>1, <1>2, <1>3, <1>4, <1>5, <1>6, Under

Cost(helper, e) == IF helper \in {"operand", "value", "negation"} THEN Levels[e] ELSE Levels[e] - 1

(* What a body costs from a statement on.                                  *)
Costly(stmts, from, d) ==
  \/ MaxDepth <= d
  \/ \E i \in from .. Len(stmts) : MaxDepth <= d + Cardinality(Before(stmts, from, i)) + Levels[stmts[i]]

ShallowLevel(level, d) ==
  /\ \A helper \in Helpers : \A e \in Built : \A env \in Envs :
       Fits(helper, e) /\ level.node[<<helper, e, env>>] = TooDeep => MaxDepth <= d + Cost(helper, e)
  /\ \A stmts \in Bodies : \A from \in Nat \ {0} : \A env \in Envs :
       level.body[<<stmts, from, env>>] = TooDeep => Costly(stmts, from, d)

(* What is below a depth: typed, and shallow, unless the cap is reached.   *)
Below(deeper, d) == d >= MaxDepth \/ (TypedLevel(deeper) /\ ShallowLevel(deeper, d + 1))

LEMMA PassesOn ==
  /\ \A r : Holds(r) = TooDeep => r = TooDeep
  /\ \A r : Negated(r) = TooDeep => r = TooDeep
  /\ \A r : OrNull(r) = TooDeep => r = TooDeep
  /\ \A r : OrFalse(r) = TooDeep => r = TooDeep
  /\ \A op \in {"eq", "neq", "lt", "lte", "gt", "gte"} : \A a, b : CompareValues(op, a, b) # TooDeep
  /\ \A v \in JsonValues : v # TooDeep
  /\ \A x \in Verdicts : x # TooDeep
  /\ Undefined # TooDeep /\ Error("AssignOutsideBody") # TooDeep
<1>1. \A p : Boolean(p) # TooDeep
  BY DEF Boolean, TooDeep, Error
<1>2. Null # TooDeep /\ Undefined # TooDeep /\ \A v \in JsonValues : v # TooDeep
  BY AnswerSets, ValueShape
<1>3. \A r : (Holds(r) = TooDeep => r = TooDeep) /\ (Negated(r) = TooDeep => r = TooDeep)
  BY <1>1 DEF Holds, Negated, Then
<1>4. \A r : (OrNull(r) = TooDeep => r = TooDeep) /\ (OrFalse(r) = TooDeep => r = TooDeep)
  BY <1>1, <1>2 DEF OrNull, OrFalse
<1>5. Error("UnorderedComparison") # TooDeep /\ Error("AssignOutsideBody") # TooDeep
  BY DEF Error, TooDeep
<1>6. \A x \in Verdicts : x # TooDeep
  BY <1>1 DEF Verdicts
<1>7. \A op \in {"eq", "neq", "lt", "lte", "gt", "gte"} : \A a, b : CompareValues(op, a, b) # TooDeep
  BY <1>5, <1>6, CompareTyped
<1> QED BY <1>2, <1>3, <1>4, <1>5, <1>6, <1>7

(* A helper called from a node at a depth is at the next one.              *)
LEMMA OneDeeper ==
  ASSUME NEW d \in Nat, NEW deeper, Below(deeper, d), d < MaxDepth,
         NEW helper \in Helpers, NEW e \in Built, Fits(helper, e), NEW env \in Envs,
         deeper.node[<<helper, e, env>>] = TooDeep
  PROVE  /\ MaxDepth <= d + 1 + Cost(helper, e)
         /\ helper \in {"operand", "value", "negation"} => MaxDepth <= d + 1 + Levels[e]
         /\ helper \in {"compare", "member", "iteration", "call", "lifted_call"} => MaxDepth <= d + Levels[e]
<1>1. MaxDepth \in Nat /\ Levels[e] \in Nat
  BY EvaluatorAssumption, NodeTypes, LevelsAbove
<1>2. MaxDepth <= d + 1 + Cost(helper, e)
  BY <1>1 DEF Below, ShallowLevel
<1> QED BY <1>1, <1>2 DEF Cost

LEMMA CompareShallow ==
  ASSUME NEW d \in Nat, NEW deeper, Below(deeper, d), NEW e \in Built, e.type = "compare", NEW env \in Envs,
         EvalCompare(deeper, e, env, d) = TooDeep
  PROVE  MaxDepth <= d + Levels[e] - 1
<1> DEFINE l == deeper.node[<<"operand", e.left, env>>]
           r == deeper.node[<<"operand", e.right, env>>]
<1>0. /\ MaxDepth \in Nat /\ Levels[e] \in Nat /\ Levels[e] >= 2 + Levels[e.left] /\ Levels[e] >= 2 + Levels[e.right]
      /\ Levels[e.left] \in Nat /\ Levels[e.right] \in Nat
      /\ e.left \in Built /\ e.right \in Built /\ e.op \in {"eq", "neq", "lt", "lte", "gt", "gte"}
  BY EvaluatorAssumption, BuiltParts, NodeTypes, LevelsAbove, Under, NodesAssumption DEF NodeOK
<1>1. CASE d >= MaxDepth
  BY <1>0, <1>1
<1>2. CASE ~(d >= MaxDepth)
  <2>1. EvalCompare(deeper, e, env, d) =
          (IF Stops(l) THEN l ELSE IF Stops(r) THEN r ELSE CompareValues(e.op, l, r))
    BY <1>2 DEF EvalCompare, Within, Then
  <2>2. CompareValues(e.op, l, r) # TooDeep
    BY <1>0, PassesOn
  <2>3. l = TooDeep \/ r = TooDeep
    <3> HIDE DEF l, r
    <3> QED BY <2>1, <2>2
  <2>4. CASE l = TooDeep
    <3>1. MaxDepth <= d + 1 + Levels[e.left]
      BY <1>0, <1>2, <2>4, OneDeeper DEF Helpers, Fits
    <3> QED BY <1>0, <3>1
  <2>5. CASE r = TooDeep
    <3>1. MaxDepth <= d + 1 + Levels[e.right]
      BY <1>0, <1>2, <2>5, OneDeeper DEF Helpers, Fits
    <3> QED BY <1>0, <3>1
  <2> QED BY <2>3, <2>4, <2>5
<1> QED BY <1>1, <1>2

LEMMA MemberShallow ==
  ASSUME NEW d \in Nat, NEW deeper, Below(deeper, d), NEW e \in Built, e.type = "in", NEW env \in Envs,
         EvalMember(deeper, e, env, d) = TooDeep
  PROVE  MaxDepth <= d + Levels[e] - 1
<1> DEFINE l == deeper.node[<<"operand", e.left, env>>]
           r == deeper.node[<<"operand", e.right, env>>]
           found == HasItems(r) /\ \E i \in DOMAIN ItemsOf(r, "values") : ValueEquals(l, ItemsOf(r, "values")[i])
<1>0. /\ MaxDepth \in Nat /\ Levels[e] \in Nat /\ Levels[e] >= 2 + Levels[e.left] /\ Levels[e] >= 2 + Levels[e.right]
      /\ Levels[e.left] \in Nat /\ Levels[e.right] \in Nat /\ e.left \in Built /\ e.right \in Built
  BY EvaluatorAssumption, BuiltParts, NodeTypes, LevelsAbove, Under
<1>1. CASE d >= MaxDepth
  BY <1>0, <1>1
<1>2. CASE ~(d >= MaxDepth)
  <2>1. EvalMember(deeper, e, env, d) = (IF Stops(l) THEN l ELSE IF Stops(r) THEN r ELSE Boolean(found))
    BY <1>2 DEF EvalMember, Within, Then
  <2>2. Boolean(found) # TooDeep
    <3>1. found \in BOOLEAN OBVIOUS
    <3> HIDE DEF found
    <3> QED BY <3>1, VerdictOf, PassesOn
  <2>3. l = TooDeep \/ r = TooDeep
    <3> HIDE DEF l, r, found
    <3> QED BY <2>1, <2>2
  <2>4. CASE l = TooDeep
    <3>1. MaxDepth <= d + 1 + Levels[e.left]
      BY <1>0, <1>2, <2>4, OneDeeper DEF Helpers, Fits
    <3> QED BY <1>0, <3>1
  <2>5. CASE r = TooDeep
    <3>1. MaxDepth <= d + 1 + Levels[e.right]
      BY <1>0, <1>2, <2>5, OneDeeper DEF Helpers, Fits
    <3> QED BY <1>0, <3>1
  <2> QED BY <2>3, <2>4, <2>5
<1> QED BY <1>1, <1>2

LEMMA CallShallow ==
  ASSUME NEW d \in Nat, NEW deeper, Below(deeper, d), NEW e \in Built, e.type = "call", NEW env \in Envs,
         NEW lifted \in BOOLEAN, EvalCall(deeper, e, env, d, lifted) = TooDeep
  PROVE  MaxDepth <= d + Levels[e] - 1
<1> DEFINE helper == IF lifted THEN "operand" ELSE "value"
           resolved == [i \in DOMAIN e.args |-> deeper.node[<<helper, e.args[i], env>>]]
           stopped == {i \in DOMAIN e.args : Stops(resolved[i])}
<1>0. /\ MaxDepth \in Nat /\ Levels[e] \in Nat /\ Levels[e] >= 2
      /\ \A i \in DOMAIN e.args : Levels[e] >= 2 + Levels[e.args[i]] /\ e.args[i] \in Built
      /\ \A i \in DOMAIN e.args : Levels[e.args[i]] \in Nat
  BY EvaluatorAssumption, NodeTypes, LevelsAbove, Under, ArgumentFields
<1>1. CASE d >= MaxDepth
  BY <1>0, <1>1
<1>2. CASE ~(d >= MaxDepth)
  <2>1. EvalCall(deeper, e, env, d, lifted) =
          (IF stopped = {} THEN Dispatch(e.name, resolved) ELSE resolved[First(stopped)])
    BY <1>2 DEF EvalCall, Within
  <2>2. TypedLevel(deeper)
    BY <1>2 DEF Below
  <2>3. \A i \in DOMAIN e.args : resolved[i] \in Results
    <3>1. \A i \in DOMAIN e.args : resolved[i] \in Answering(helper)
      BY <2>2, <1>0 DEF TypedLevel, TypedNodes, Fits, Helpers
    <3> QED BY <3>1 DEF Answering, Results, Defined
  <2>4. CASE stopped = {}
    <3>1. \A i \in DOMAIN e.args : resolved[i] \in JsonValues
      <4> HIDE DEF resolved
      <4> QED BY <2>3, <2>4, AnswerSets
    <3>2. Dispatch(e.name, resolved) \in JsonValues
      <4> HIDE DEF resolved
      <4> QED BY <3>1, ArgumentFields, DispatchTyped
    <3> HIDE DEF resolved, stopped
    <3> QED BY <2>1, <2>4, <3>2, PassesOn
  <2>5. CASE stopped # {}
    <3>1. stopped \in SUBSET Nat
      BY ArgumentFields
    <3>2. First(stopped) \in DOMAIN e.args
      <4> HIDE DEF resolved
      <4> QED BY <2>5, <3>1, FirstPosition
    <3> DEFINE k == First(stopped)
    <3>3. resolved[k] = TooDeep
      <4> HIDE DEF resolved, stopped
      <4> QED BY <2>1, <2>5
    <3> HIDE DEF k, stopped
    <3>4. k \in DOMAIN e.args
      BY <3>2 DEF k
    <3>5. deeper.node[<<helper, e.args[k], env>>] = TooDeep
      BY <3>3, <3>4
    <3>6. helper \in Helpers /\ helper \in {"operand", "value"} /\ Fits(helper, e.args[k])
      BY DEF Helpers, Fits
    <3> HIDE DEF helper
    <3>7. MaxDepth <= d + 1 + Levels[e.args[k]]
      BY <1>0, <1>2, <3>4, <3>5, <3>6, OneDeeper
    <3> QED BY <1>0, <3>4, <3>7
  <2> QED BY <2>4, <2>5
<1> QED BY <1>1, <1>2

LEMMA CostOfBody ==
  ASSUME NEW stmts \in Bodies, NEW d \in Nat, Costly(stmts, 1, d)
  PROVE  LevelsOfBody(Levels, stmts) \in Nat /\ MaxDepth <= d + LevelsOfBody(Levels, stmts)
<1> DEFINE n == Len(stmts)
<1>1. n \in Nat /\ DOMAIN stmts = 1 .. n /\ MaxDepth \in Nat
  BY EvaluatorAssumption DEF Bodies
<1>2. \A i \in 1 .. n : Levels[stmts[i]] \in Nat
  BY <1>1, LevelsAbove, NodeTypes DEF Bodies
<1> HIDE DEF n
<1>3. LevelsOfBody(Levels, stmts) \in Nat
      /\ \A i \in 1 .. n : Cardinality(Before(stmts, 1, i)) + Levels[stmts[i]] <= LevelsOfBody(Levels, stmts)
  BY <1>1, <1>2, LevelsOfBodyBound
<1>4. CASE MaxDepth <= d
  BY <1>1, <1>3, <1>4
<1>5. CASE \E i \in 1 .. n : MaxDepth <= d + Cardinality(Before(stmts, 1, i)) + Levels[stmts[i]]
  <2> PICK i \in 1 .. n : MaxDepth <= d + Cardinality(Before(stmts, 1, i)) + Levels[stmts[i]]
    BY <1>5
  <2> DEFINE b == Cardinality(Before(stmts, 1, i))
             k == Levels[stmts[i]]
             m == LevelsOfBody(Levels, stmts)
  <2>1. b \in Nat /\ k \in Nat /\ m \in Nat /\ b + k <= m /\ MaxDepth <= d + b + k
    BY <1>1, <1>2, <1>3, BeforeCounted
  <2> HIDE DEF b, k, m
  <2>2. MaxDepth <= d + m
    BY <1>1, <2>1
  <2> QED BY <2>1, <2>2 DEF m
<1> QED BY <1>4, <1>5 DEF Costly, n

LEMMA IterationShallow ==
  ASSUME NEW d \in Nat, NEW deeper, Below(deeper, d), NEW e \in Built, e.type \in Iterations, NEW env \in Envs,
         EvalIteration(deeper, e, env, d) = TooDeep
  PROVE  MaxDepth <= d + Levels[e] - 1
<1> DEFINE source == deeper.node[<<"value", e.source, env>>]
           items == ItemsOf(source, e.kind)
           HeldBy(i) == deeper.body[<<e.body, 1, Push(env, e.var, items[i])>>]
           otherwise == Boolean(e.type = "every")
           settled == {i \in DOMAIN items : HeldBy(i) # otherwise}
<1>0. /\ MaxDepth \in Nat /\ Levels[e] \in Nat /\ Levels[e] >= 2 + Levels[e.source]
      /\ LevelsOfBody(Levels, e.body) \in Nat /\ Levels[e] >= 2 + LevelsOfBody(Levels, e.body)
      /\ Levels[e.source] \in Nat /\ e.source \in Built /\ e.body \in Bodies /\ e.var \in Strings
  BY EvaluatorAssumption, NodeTypes, LevelsAbove, Under, IterationFields
<1>1. CASE d >= MaxDepth
  BY <1>0, <1>1
<1>2. CASE ~(d >= MaxDepth)
  <2>1. EvalIteration(deeper, e, env, d) =
          (IF Stops(source) THEN source
           ELSE IF HasItems(source) THEN EvalItems(deeper, e, items, env) ELSE Undefined)
    BY <1>2 DEF EvalIteration, Within, Then
  <2>2. EvalItems(deeper, e, items, env) = (IF settled = {} THEN otherwise ELSE HeldBy(First(settled)))
    BY DEF EvalItems
  <2>3. otherwise # TooDeep
    BY VerdictOf, PassesOn
  <2>4. source \in JsonValues \cup Errors
    BY <1>0, <1>2 DEF Below, TypedLevel, TypedNodes, Fits, Helpers, Answering
  <2>5. CASE source = TooDeep
    <3>1. MaxDepth <= d + 1 + Levels[e.source]
      BY <1>0, <1>2, <2>5, OneDeeper DEF Helpers, Fits
    <3> QED BY <1>0, <3>1
  <2>6. CASE source # TooDeep
    <3>1. source \in JsonValues /\ HasItems(source) /\ EvalItems(deeper, e, items, env) = TooDeep
      <4>1. source \in Errors => Stops(source)
        BY DEF Stops
      <4> HIDE DEF source, items
      <4> QED BY <2>1, <2>4, <2>6, <4>1, PassesOn
    <3>2. settled # {} /\ HeldBy(First(settled)) = TooDeep
      <4> HIDE DEF source, items, HeldBy, otherwise, settled
      <4> QED BY <2>2, <2>3, <3>1
    <3>3. First(settled) \in DOMAIN items
      <4>1. settled \in SUBSET Nat
        BY <3>1, ItemsAreValues
      <4> HIDE DEF items, HeldBy, otherwise
      <4> QED BY <3>2, <4>1, FirstPosition
    <3> DEFINE v == items[First(settled)]
    <3>4. v \in JsonValues
      <4> DEFINE k == First(settled)
      <4>1. k \in DOMAIN items BY <3>3
      <4> HIDE DEF k, settled
      <4>2. items[k] \in JsonValues BY <3>1, <4>1, ItemsAreValues
      <4> QED BY <4>2 DEF k
    <3>5. deeper.body[<<e.body, 1, Push(env, e.var, v)>>] = TooDeep
      BY <3>2
    <3> HIDE DEF v
    <3>6. Push(env, e.var, v) \in Envs
      BY <1>0, <3>4, PushEnv
    <3>7. Costly(e.body, 1, d + 1)
      BY <1>0, <1>2, <3>5, <3>6 DEF Below, ShallowLevel
    <3>8. MaxDepth <= d + 1 + LevelsOfBody(Levels, e.body)
      BY <1>0, <3>7, CostOfBody
    <3> QED BY <1>0, <3>8
  <2> QED BY <2>5, <2>6
<1> QED BY <1>1, <1>2

LEMMA ValueShallow ==
  ASSUME NEW d \in Nat, NEW deeper, Below(deeper, d), NEW e \in Built, NEW env \in Envs
  PROVE  /\ ResolveValue(deeper, e, env, d) = TooDeep => MaxDepth <= d + Levels[e]
         /\ EvalExprBool(deeper, e, env, d) = TooDeep => MaxDepth <= d + Levels[e]
<1> DEFINE called(helper, x) == deeper.node[<<helper, x, env>>]
           value_ == ResolveValue(deeper, e, env, d)
           held_ == EvalExprBool(deeper, e, env, d)
<1>0. MaxDepth \in Nat /\ Levels[e] \in Nat
  BY EvaluatorAssumption, NodeTypes, LevelsAbove
<1>1. CASE d >= MaxDepth
  BY <1>0, <1>1
<1>2. CASE ~(d >= MaxDepth)
  <2> USE DEF Iterations
  <2>1. ASSUME NEW helper \in {"compare", "member", "iteration", "call"}, Fits(helper, e), called(helper, e) = TooDeep
        PROVE  MaxDepth <= d + Levels[e]
    BY <1>0, <1>2, <2>1, OneDeeper DEF Helpers
  <2>2. CASE e.type = "value"
    <3>1. value_ = e.value /\ held_ = OrFalse(Boolean(Truthy(e.value)))
      BY <1>2, <2>2 DEF ResolveValue, EvalExprBool, Within
    <3>2. Truthy(e.value) \in BOOLEAN
      BY DEF Truthy
    <3>3. Boolean(Truthy(e.value)) # TooDeep /\ e.value # TooDeep
      BY <2>2, <3>2, VerdictOf, PassesOn, NodeTypes
    <3> QED BY <3>1, <3>3, PassesOn
  <2>3. CASE e.type = "ref"
    <3>1. value_ = OrNull(ResolveRef(e.path, env)) /\ held_ = OrFalse(Holds(ResolveRef(e.path, env)))
      BY <1>2, <2>3 DEF ResolveValue, EvalExprBool, Within
    <3>2. ResolveRef(e.path, env) # TooDeep
      BY <2>3, NodeTypes, RefDefined, PassesOn DEF Defined
    <3> QED BY <3>1, <3>2, PassesOn
  <2>4. CASE e.type = "compare"
    <3>1. value_ = OrNull(called("compare", e)) /\ held_ = OrFalse(called("compare", e))
      BY <1>2, <2>4 DEF ResolveValue, EvalExprBool, Within
    <3> QED BY <2>1, <2>4, <3>1, PassesOn DEF Fits, Helpers
  <2>5. CASE e.type = "not"
    <3>1. value_ = OrNull(called("negation", e.expr)) /\ held_ = OrFalse(called("negation", e.expr))
      BY <1>2, <2>5 DEF ResolveValue, EvalExprBool, Within
    <3>2. e.expr \in Built /\ Levels[e.expr] \in Nat /\ Levels[e] = 2 + Levels[e.expr]
      BY <2>5, NodeTypes, LevelsAbove
    <3>3. called("negation", e.expr) = TooDeep => MaxDepth <= d + Levels[e]
      <4> HAVE called("negation", e.expr) = TooDeep
      <4>1. MaxDepth <= d + 1 + Levels[e.expr]
        BY <1>0, <1>2, <3>2, OneDeeper DEF Fits, Helpers
      <4> QED BY <1>0, <3>2, <4>1
    <3> QED BY <3>1, <3>3, PassesOn
  <2>6. CASE e.type \in Iterations
    <3>1. value_ = OrNull(called("iteration", e)) /\ held_ = OrFalse(called("iteration", e))
      BY <1>2, <2>6 DEF ResolveValue, EvalExprBool, Within
    <3> QED BY <2>1, <2>6, <3>1, PassesOn DEF Fits, Helpers
  <2>7. CASE e.type = "call"
    <3>1. value_ = called("call", e) /\ held_ = OrFalse(Holds(called("call", e)))
      BY <1>2, <2>7 DEF ResolveValue, EvalExprBool, Within
    <3> QED BY <2>1, <2>7, <3>1, PassesOn DEF Fits, Helpers
  <2>8. CASE e.type = "in"
    <3>1. value_ = OrNull(called("member", e)) /\ held_ = OrFalse(called("member", e))
      BY <1>2, <2>8 DEF ResolveValue, EvalExprBool, Within
    <3> QED BY <2>1, <2>8, <3>1, PassesOn DEF Fits, Helpers
  <2>9. CASE e.type = "assign"
    <3>1. value_ = Error("AssignOutsideBody") /\ held_ = OrFalse(Error("AssignOutsideBody"))
      BY <1>2, <2>9 DEF ResolveValue, EvalExprBool, Within
    <3> QED BY <3>1, PassesOn
  <2> QED BY <2>2, <2>3, <2>4, <2>5, <2>6, <2>7, <2>8, <2>9, NodeTypes
<1> QED BY <1>1, <1>2

LEMMA NegationShallow ==
  ASSUME NEW d \in Nat, NEW deeper, Below(deeper, d), NEW e \in Built, NEW env \in Envs,
         EvalNegation(deeper, e, env, d) = TooDeep
  PROVE  MaxDepth <= d + Levels[e]
<1> DEFINE called(helper, x) == deeper.node[<<helper, x, env>>]
           negation == EvalNegation(deeper, e, env, d)
<1>0. MaxDepth \in Nat /\ Levels[e] \in Nat
  BY EvaluatorAssumption, NodeTypes, LevelsAbove
<1>1. CASE d >= MaxDepth
  BY <1>0, <1>1
<1>2. CASE ~(d >= MaxDepth)
  <2> USE DEF Iterations
  <2>1. ASSUME NEW helper \in {"member", "iteration", "lifted_call"}, Fits(helper, e), called(helper, e) = TooDeep
        PROVE  MaxDepth <= d + Levels[e]
    BY <1>0, <1>2, <2>1, OneDeeper DEF Helpers
  <2>2. CASE e.type = "call"
    <3>1. negation = Negated(called("lifted_call", e))
      BY <1>2, <2>2 DEF EvalNegation, Within
    <3> QED BY <2>1, <2>2, <3>1, PassesOn DEF Fits, Helpers
  <2>3. CASE e.type = "in"
    <3>1. negation = Negated(called("member", e))
      BY <1>2, <2>3 DEF EvalNegation, Within
    <3> QED BY <2>1, <2>3, <3>1, PassesOn DEF Fits, Helpers
  <2>4. CASE e.type \in Iterations
    <3>1. negation = Negated(called("iteration", e))
      BY <1>2, <2>4 DEF EvalNegation, Within
    <3> QED BY <2>1, <2>4, <3>1, PassesOn DEF Fits, Helpers
  <2>5. CASE e.type = "compare"
    <3> DEFINE l == called("operand", e.left)
               r == called("operand", e.right)
               compared == Negated(CompareValues(e.op, l, r))
    <3>1. /\ Levels[e] >= 2 + Levels[e.left] /\ Levels[e] >= 2 + Levels[e.right]
          /\ Levels[e.left] \in Nat /\ Levels[e.right] \in Nat
          /\ e.left \in Built /\ e.right \in Built /\ e.op \in {"eq", "neq", "lt", "lte", "gt", "gte"}
      BY <2>5, BuiltParts, NodeTypes, LevelsAbove, Under, NodesAssumption DEF NodeOK
    <3>2. negation = NegateCompare(deeper, e, env)
      BY <1>2, <2>5 DEF EvalNegation, Within
    <3>3. NegateCompare(deeper, e, env) \in {l, r, Undefined, Boolean(TRUE), compared}
      BY DEF NegateCompare
    <3>4. compared # TooDeep /\ Boolean(TRUE) # TooDeep /\ Undefined # TooDeep
      BY <3>1, PassesOn DEF Verdicts
    <3>5. l = TooDeep \/ r = TooDeep
      <4> HIDE DEF l, r, compared
      <4> QED BY <3>2, <3>3, <3>4
    <3>6. CASE l = TooDeep
      <4>1. MaxDepth <= d + 1 + Levels[e.left]
        BY <1>0, <1>2, <3>1, <3>6, OneDeeper DEF Helpers, Fits
      <4> QED BY <1>0, <3>1, <4>1
    <3>7. CASE r = TooDeep
      <4>1. MaxDepth <= d + 1 + Levels[e.right]
        BY <1>0, <1>2, <3>1, <3>7, OneDeeper DEF Helpers, Fits
      <4> QED BY <1>0, <3>1, <4>1
    <3> QED BY <3>5, <3>6, <3>7
  <2>6. CASE e.type = "not"
    <3>1. negation = Negated(called("negation", e.expr))
      BY <1>2, <2>6 DEF EvalNegation, Within
    <3>2. e.expr \in Built /\ Levels[e.expr] \in Nat /\ Levels[e] = 2 + Levels[e.expr]
      BY <2>6, NodeTypes, LevelsAbove
    <3>3. called("negation", e.expr) = TooDeep
      BY <3>1, PassesOn
    <3>4. MaxDepth <= d + 1 + Levels[e.expr]
      BY <1>0, <1>2, <3>2, <3>3, OneDeeper DEF Fits, Helpers
    <3> QED BY <1>0, <3>2, <3>4
  <2>7. CASE e.type \in {"value", "ref", "assign"}
    <3>1. negation = Negated(EvalExprBool(deeper, e, env, d))
      BY <1>2, <2>7 DEF EvalNegation, Within
    <3> QED BY <3>1, ValueShallow, PassesOn
  <2> QED BY <2>2, <2>3, <2>4, <2>5, <2>6, <2>7, NodeTypes
<1> QED BY <1>1, <1>2

LEMMA OperandShallow ==
  ASSUME NEW d \in Nat, NEW deeper, Below(deeper, d), NEW e \in Built, NEW env \in Envs,
         ResolveDefined(deeper, e, env, d) = TooDeep
  PROVE  MaxDepth <= d + Levels[e]
<1> USE DEF Iterations
<1>0. MaxDepth \in Nat /\ Levels[e] \in Nat
  BY EvaluatorAssumption, NodeTypes, LevelsAbove
<1>1. CASE e.type = "ref"
  <2>1. ResolveRef(e.path, env) # TooDeep
    BY <1>1, NodeTypes, RefDefined, PassesOn DEF Defined
  <2> QED BY <1>1, <2>1 DEF ResolveDefined
<1>2. CASE e.type = "compare"
  <2>1. MaxDepth <= d + Levels[e] - 1
    BY <1>2, CompareShallow DEF ResolveDefined
  <2> QED BY <1>0, <2>1
<1>3. CASE e.type = "not"
  <2>1. e.expr \in Built /\ Levels[e.expr] \in Nat /\ Levels[e] = 2 + Levels[e.expr]
    BY <1>3, NodeTypes, LevelsAbove
  <2>2. MaxDepth <= d + Levels[e.expr]
    BY <1>3, <2>1, NegationShallow DEF ResolveDefined
  <2> QED BY <1>0, <2>1, <2>2
<1>4. CASE e.type \in Iterations
  <2>1. MaxDepth <= d + Levels[e] - 1
    BY <1>4, IterationShallow DEF ResolveDefined
  <2> QED BY <1>0, <2>1
<1>5. CASE e.type = "in"
  <2>1. MaxDepth <= d + Levels[e] - 1
    BY <1>5, MemberShallow DEF ResolveDefined
  <2> QED BY <1>0, <2>1
<1>6. CASE e.type = "call"
  <2> DEFINE lifted == TRUE
  <2>1. ResolveDefined(deeper, e, env, d) \in {Undefined, EvalCall(deeper, e, env, d, lifted)}
    BY <1>6 DEF ResolveDefined
  <2>2. lifted \in BOOLEAN
    OBVIOUS
  <2> HIDE DEF lifted
  <2>3. EvalCall(deeper, e, env, d, lifted) = TooDeep
    BY <2>1, PassesOn
  <2>4. MaxDepth <= d + Levels[e] - 1
    BY <1>6, <2>2, <2>3, CallShallow
  <2> QED BY <1>0, <2>4
<1>7. CASE e.type \in {"value", "assign"}
  BY <1>7, ValueShallow DEF ResolveDefined
<1> QED BY <1>1, <1>2, <1>3, <1>4, <1>5, <1>6, <1>7, NodeTypes

LEMMA BodyShallow ==
  ASSUME NEW d \in Nat, NEW deeper, Below(deeper, d), NEW stmts \in Bodies, NEW from \in Nat \ {0},
         NEW env \in Envs, EvalBody(deeper, stmts, from, env, d) = TooDeep
  PROVE  Costly(stmts, from, d)
<1> DEFINE bindings == Bindings(stmts, from)
           next == First(bindings)
           held == EvalConditions(deeper, stmts, Conditions(stmts, from), env, d)
           bound == BoundValue(deeper, stmts[next].value, env)
           rest == deeper.body[<<stmts, next + 1, Push(env, stmts[next].var, bound)>>]
           Spent(k, i) == Cardinality(Before(stmts, k, i))
<1>0. MaxDepth \in Nat /\ Len(stmts) \in Nat /\ DOMAIN stmts = 1 .. Len(stmts)
      /\ \A i \in DOMAIN stmts : stmts[i] \in Built /\ Levels[stmts[i]] \in Nat
  BY EvaluatorAssumption, LevelsAbove, NodeTypes DEF Bodies
<1>1. CASE d >= MaxDepth
  BY <1>0, <1>1 DEF Costly
<1>2. CASE ~(d >= MaxDepth)
  <2>1. EvalBody(deeper, stmts, from, env, d) =
          (IF held # Boolean(TRUE) \/ bindings = {} THEN held
           ELSE OrFalse(IF Stops(bound) THEN bound ELSE rest))
    BY <1>2 DEF EvalBody, Within, Then, Conditions
  <2>2. ASSUME NEW i \in from .. Len(stmts), MaxDepth <= d + Levels[stmts[i]] PROVE Costly(stmts, from, d)
    <3>1. Spent(from, i) \in Nat /\ Levels[stmts[i]] \in Nat
      BY <1>0, BeforeCounted
    <3> DEFINE s == Spent(from, i)
    <3> HIDE DEF s
    <3>2. MaxDepth <= d + s + Levels[stmts[i]]
      BY <1>0, <2>2, <3>1 DEF s
    <3> QED BY <3>2 DEF Costly, s
  <2>3. CASE held = TooDeep
    <3>1. Settle(deeper, stmts, Conditions(stmts, from), env, d)
      BY BodyShape, ConditionsSettle
    <3>2. PICK i \in Conditions(stmts, from) : EvalExprBool(deeper, stmts[i], env, d) = TooDeep
      BY <2>3, <3>1, PassesOn DEF Settle, Verdicts
    <3>3. i \in DOMAIN stmts /\ i \in from .. Len(stmts)
      <4>1. i \in DOMAIN stmts
        BY BodyShape
      <4>2. i >= from
        BY DEF Conditions
      <4> QED BY <1>0, <4>1, <4>2
    <3>4. MaxDepth <= d + Levels[stmts[i]]
      BY <1>0, <3>2, <3>3, ValueShallow
    <3> QED BY <2>2, <3>3, <3>4
  <2>4. CASE held # TooDeep
    <3>1. bindings # {} /\ (IF Stops(bound) THEN bound ELSE rest) = TooDeep
      <4> HIDE DEF held, bindings, bound, rest
      <4> QED BY <2>1, <2>4, PassesOn
    <3>2. /\ next \in DOMAIN stmts /\ from <= next /\ next + 1 \in Nat \ {0}
          /\ stmts[next] \in Built /\ stmts[next].type = "assign"
      BY <3>1, BodyShape
    <3>3. /\ stmts[next].value \in Built /\ stmts[next].var \in Strings
          /\ Levels[stmts[next]] = 1 + Levels[stmts[next].value] /\ Levels[stmts[next].value] \in Nat
      BY <3>2, NodeTypes, LevelsAbove
    <3>4. next \in from .. Len(stmts)
      BY <1>0, <3>2
    <3>5. CASE bound = TooDeep
      <4> DEFINE e == stmts[next].value
      <4>1. e \in Built BY <3>3
      <4> HIDE DEF e
      <4>2. deeper.node[<<"value", e, env>>] = TooDeep
        <5>1. BoundValue(deeper, e, env) = TooDeep BY <3>5 DEF e
        <5>2. CASE e.type = "value"
          BY <4>1, <5>1, <5>2, NodeTypes, PassesOn DEF BoundValue
        <5>3. CASE e.type = "ref"
          <6>1. ResolveRef(e.path, env) # TooDeep
            BY <4>1, <5>3, NodeTypes, RefDefined, PassesOn DEF Defined
          <6> QED BY <5>1, <5>3, <6>1 DEF BoundValue
        <5>4. CASE e.type \notin {"value", "ref"}
          BY <5>1, <5>4, PassesOn DEF BoundValue
        <5> QED BY <5>2, <5>3, <5>4
      <4>3. MaxDepth <= d + 1 + Levels[e]
        <5>1. d < MaxDepth /\ "value" \in Helpers /\ Fits("value", e)
          BY <1>0, <1>2 DEF Fits, Helpers
        <5> QED BY <4>1, <4>2, <5>1, OneDeeper
      <4>4. MaxDepth <= d + Levels[stmts[next]]
        <5>1. Levels[stmts[next]] = 1 + Levels[e] /\ Levels[e] \in Nat
          BY <3>3 DEF e
        <5> QED BY <1>0, <4>3, <5>1
      <4> HIDE DEF next
      <4> QED BY <2>2, <3>4, <4>4
    <3>6. CASE bound # TooDeep
      <4> DEFINE k == next
      <4> HIDE DEF k
      <4>1. ~Stops(bound) /\ rest = TooDeep
        <5> HIDE DEF bound, rest
        <5> QED BY <3>1, <3>6
      <4>2. bound \in JsonValues
        <5>1. bound \in Results
          BY <1>2, <3>3, BoundValueTyped DEF Below
        <5> HIDE DEF bound
        <5> QED BY <4>1, <5>1, AnswerSets
      <4>3. Push(env, stmts[next].var, bound) \in Envs
        BY <3>3, <4>2, PushEnv
      <4>4. Costly(stmts, k + 1, d + 1)
        <5> HIDE DEF next, bound
        <5> QED BY <1>2, <3>2, <4>1, <4>3 DEF Below, ShallowLevel, k
      <4>5. /\ k \in from .. Len(stmts) /\ k \in Nat /\ Levels[stmts[k]] >= 1 /\ Levels[stmts[k]] \in Nat
            /\ stmts[k].type = "assign"
            /\ \A j \in from .. Len(stmts) : j < k => stmts[j].type # "assign"
        <5>1. k \in from .. Len(stmts) /\ stmts[k].type = "assign" /\ Levels[stmts[k]] >= 1
          BY <1>0, <3>2, <3>3, <3>4 DEF k
        <5>2. \A j \in bindings : k <= j
          BY <3>1, BodyShape, FirstPosition DEF k
        <5> HIDE DEF next
        <5>3. \A j \in from .. Len(stmts) : j < k => j \notin bindings
          BY <1>0, <5>1, <5>2
        <5> QED BY <1>0, <5>1, <5>3 DEF Bindings
      <4> HIDE DEF next, bound, rest, bindings
      <4>6. CASE MaxDepth <= d + 1
        <5>1. MaxDepth <= d + Levels[stmts[k]]
          BY <1>0, <4>5, <4>6
        <5> QED BY <2>2, <4>5, <5>1
      <4>7. ASSUME NEW i \in k + 1 .. Len(stmts), MaxDepth <= d + 1 + Spent(k + 1, i) + Levels[stmts[i]]
            PROVE  Costly(stmts, from, d)
        <5>1. Before(stmts, from, i) = Before(stmts, k + 1, i) \cup {k} /\ k \notin Before(stmts, k + 1, i)
          BY <1>0, <4>5 DEF Before
        <5>2. IsFiniteSet(Before(stmts, k + 1, i)) /\ Cardinality(Before(stmts, k + 1, i)) \in Nat
          BY <1>0, <4>5, BeforeCounted
        <5>3. Spent(from, i) = Spent(k + 1, i) + 1 /\ Spent(k + 1, i) \in Nat
          BY <5>1, <5>2, FS_AddElement
        <5>4. i \in from .. Len(stmts) /\ Levels[stmts[i]] \in Nat
          BY <1>0, <4>5
        <5> HIDE DEF Spent
        <5>5. MaxDepth <= d + Spent(from, i) + Levels[stmts[i]]
          BY <1>0, <4>7, <5>3, <5>4
        <5> QED BY <5>4, <5>5 DEF Costly, Spent
      <4> QED BY <4>4, <4>6, <4>7 DEF Costly
    <3> QED BY <3>5, <3>6
  <2> QED BY <2>3, <2>4
<1> QED BY <1>1, <1>2

LEMMA LevelShallow ==
  ASSUME NEW d \in Nat, NEW deeper, Below(deeper, d)
  PROVE  TypedLevel(Level(deeper, d)) /\ ShallowLevel(Level(deeper, d), d)
<1>1. TypedLevel(Level(deeper, d))
  BY LevelTyped DEF Below
<1>2. ASSUME NEW helper \in Helpers, NEW e \in Built, NEW env \in Envs, Fits(helper, e),
             Level(deeper, d).node[<<helper, e, env>>] = TooDeep
      PROVE  MaxDepth <= d + Cost(helper, e)
  <2>0. MaxDepth \in Nat /\ Levels[e] \in Nat
    BY EvaluatorAssumption, NodeTypes, LevelsAbove
  <2>1. EvalNode(deeper, helper, e, env, d) = TooDeep
    BY <1>2, LevelApplied, NodeTypes
  <2>2. CASE helper = "operand"
    BY <2>1, <2>2, OperandShallow DEF EvalNode, Cost
  <2>3. CASE helper = "value"
    BY <2>1, <2>3, ValueShallow DEF EvalNode, Cost
  <2>4. CASE helper = "negation"
    BY <2>1, <2>4, NegationShallow DEF EvalNode, Cost
  <2>5. CASE helper \in {"compare", "member", "iteration", "call", "lifted_call"}
    <3>1. Cost(helper, e) = Levels[e] - 1
      BY <2>5 DEF Cost
    <3>2. CASE helper = "compare"
      BY <1>2, <2>0, <2>1, <3>1, <3>2, CompareShallow DEF EvalNode, Fits
    <3>3. CASE helper = "member"
      BY <1>2, <2>0, <2>1, <3>1, <3>3, MemberShallow DEF EvalNode, Fits
    <3>4. CASE helper = "iteration"
      BY <1>2, <2>0, <2>1, <3>1, <3>4, IterationShallow DEF EvalNode, Fits
    <3>5. CASE helper \in {"call", "lifted_call"}
      <4>1. e.type = "call"
        BY <1>2, <3>5 DEF Fits
      <4> DEFINE lifted == (helper = "lifted_call")
      <4>2. lifted \in BOOLEAN
        OBVIOUS
      <4>3. EvalNode(deeper, helper, e, env, d) = EvalCall(deeper, e, env, d, lifted)
        <5>1. CASE helper = "call"
          <6>1. lifted = FALSE BY <5>1
          <6> QED BY <5>1, <6>1 DEF EvalNode
        <5>2. CASE helper = "lifted_call"
          <6>1. lifted = TRUE BY <5>2
          <6> QED BY <5>2, <6>1 DEF EvalNode
        <5> QED BY <3>5, <5>1, <5>2
      <4> HIDE DEF lifted
      <4>4. MaxDepth <= d + Levels[e] - 1
        BY <2>1, <4>1, <4>2, <4>3, CallShallow
      <4> QED BY <2>0, <3>1, <4>4
    <3> QED BY <2>5, <3>2, <3>3, <3>4, <3>5
  <2> QED BY <2>2, <2>3, <2>4, <2>5 DEF Helpers
<1>3. ASSUME NEW stmts \in Bodies, NEW from \in Nat \ {0}, NEW env \in Envs,
             Level(deeper, d).body[<<stmts, from, env>>] = TooDeep
      PROVE  Costly(stmts, from, d)
  <2>1. stmts \in Seq(Nodes)
    BY DEF Bodies
  <2>2. EvalBody(deeper, stmts, from, env, d) = TooDeep
    BY <1>3, <2>1, LevelApplied
  <2> QED BY <2>2, BodyShallow
<1> QED BY <1>1, <1>2, <1>3 DEF ShallowLevel

LEMMA EvalShallow ==
  \A d \in 0 .. MaxDepth : TypedLevel(Eval[d]) /\ ShallowLevel(Eval[d], d)
<1> DEFINE S == {d \in 0 .. MaxDepth : TypedLevel(Eval[d]) /\ ShallowLevel(Eval[d], d)}
<1>0. MaxDepth \in Nat
  BY EvaluatorAssumption
<1>1. MaxDepth \in S
  <2>1. Below(Deeper(Eval, MaxDepth), MaxDepth)
    BY <1>0 DEF Below
  <2> QED BY <1>0, <2>1, EvalUnfolded, LevelShallow
<1>2. ASSUME NEW d \in 0 .. MaxDepth, d < MaxDepth, d + 1 \in S PROVE d \in S
  <2>1. Deeper(Eval, d) = Eval[d + 1] /\ d \in Nat
    BY <1>0, <1>2 DEF Deeper
  <2>2. Below(Deeper(Eval, d), d)
    BY <1>2, <2>1 DEF Below
  <2> QED BY <1>2, <2>1, <2>2, EvalUnfolded, LevelShallow
<1> HIDE DEF S
<1>3. 0 .. MaxDepth \subseteq S
  <2> S \subseteq 0 .. MaxDepth BY DEF S
  <2> QED BY <1>1, <1>2, FromTheCap
<1> QED BY <1>3 DEF S

LEMMA ShallowInvariant ==
  IInv => ShallowNeverTooDeep
<1> SUFFICES ASSUME IInv, outcome = "EvalTooDeep"
             PROVE  MaxDepth <= Highest({LevelsOfBody(Levels, body), IF value = NoValue THEN 0 ELSE Levels[value]})
  BY DEF ShallowNeverTooDeep
<1> DEFINE inBody == LevelsOfBody(Levels, body)
           inValue == IF value = NoValue THEN 0 ELSE Levels[value]
           held == Eval[0].body[<<body, 1, StartEnv(input)>>]
           result == Eval[0].node[<<"value", value, StartEnv(input)>>]
<1>1. <<body, value>> \in Rules /\ input \in JsonValues /\ outcome = EvalRule(body, value, input)
  BY AnswerNames, EvaluatorAssumption DEF IInv, TypeOK
<1>2. ResultOf(body, value, input) = TooDeep
  <2>1. ResultOf(body, value, input) \in Errors /\ Content(ResultOf(body, value, input)) = "EvalTooDeep"
    BY <1>1, RuleAnswer
  <2> QED BY <2>1, AnswerNames DEF TooDeep
<1>3. body \in Bodies /\ (value # NoValue => value \in Built) /\ StartEnv(input) \in Envs
  BY <1>1, RuleParts, StartTyped
<1>4. TypedLevel(Eval[0]) /\ ShallowLevel(Eval[0], 0) /\ MaxDepth \in Nat
  BY EvalShallow, EvaluatorAssumption
<1>5. held = TooDeep \/ (value # NoValue /\ result = TooDeep)
  <2>1. ResultOf(body, value, input) =
          (IF Stops(held) THEN held
           ELSE IF held # Boolean(TRUE) \/ value = NoValue THEN held ELSE Holds(result))
    BY DEF ResultOf, RuleResult, Then
  <2>2. Holds(result) = TooDeep => result = TooDeep
    BY PassesOn
  <2> HIDE DEF held, result
  <2>3. CASE Stops(held)
    BY <1>2, <2>1, <2>3
  <2>4. CASE ~Stops(held) /\ (held # Boolean(TRUE) \/ value = NoValue)
    BY <1>2, <2>1, <2>4, Zenon
  <2>5. CASE ~Stops(held) /\ ~(held # Boolean(TRUE) \/ value = NoValue)
    BY <1>2, <2>1, <2>2, <2>5, Zenon
  <2> QED BY <2>3, <2>4, <2>5, Zenon
<1>6. inBody \in Nat /\ (held = TooDeep => MaxDepth <= inBody)
  <2>1. inBody \in Nat
    <3>1. Len(body) \in Nat /\ DOMAIN body = 1 .. Len(body) /\ \A i \in 1 .. Len(body) : Levels[body[i]] \in Nat
      BY <1>3, LevelsAbove, NodeTypes DEF Bodies
    <3> QED BY <3>1, LevelsOfBodyBound
  <2>2. ASSUME held = TooDeep PROVE MaxDepth <= inBody
    <3>1. Costly(body, 1, 0)
      BY <1>3, <1>4, <2>2 DEF ShallowLevel
    <3>2. MaxDepth <= 0 + inBody
      BY <1>3, <3>1, CostOfBody
    <3> QED BY <2>1, <3>2
  <2> QED BY <2>1, <2>2
<1>7. inValue \in Nat /\ (value # NoValue /\ result = TooDeep => MaxDepth <= inValue)
  <2>1. value # NoValue => Levels[value] \in Nat
    BY <1>3, LevelsAbove, NodeTypes
  <2>2. value # NoValue /\ result = TooDeep => MaxDepth <= 0 + Cost("value", value)
    BY <1>3, <1>4 DEF ShallowLevel, Fits, Helpers
  <2> QED BY <2>1, <2>2 DEF Cost
<1> HIDE DEF inBody, inValue, held, result
<1> DEFINE S == {inBody, inValue}
<1>8. Highest(S) \in Nat /\ \A m \in S : m <= Highest(S)
  <2>1. S \in SUBSET Nat /\ inBody + inValue \in Nat /\ \A m \in S : m <= inBody + inValue
    BY <1>6, <1>7
  <2> HIDE DEF S
  <2> QED BY <2>1, HighestIsBound
<1>9. inBody <= Highest(S) /\ inValue <= Highest(S)
  BY <1>8
<1>10. MaxDepth <= Highest(S)
  <2> HIDE DEF S
  <2> QED BY <1>4, <1>5, <1>6, <1>7, <1>8, <1>9
<1> QED BY <1>10 DEF inBody, inValue

(* A policy whose shape is shallow is never refused for its depth, on any  *)
(* input: the recursion cap of eval.zig:22 is hit only by a policy whose   *)
(* own nesting reaches it.                                                 *)
THEOREM ShallowPolicies ==
  Spec => []ShallowNeverTooDeep
BY ShallowInvariant, Invariance, PTL
==============================================================================
