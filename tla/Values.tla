------------------------------- MODULE Values -------------------------------
(***************************************************************************)
(* json.Value, the values policies and inputs are made of, with the        *)
(* comparisons of json.zig and the builtins of builtins.zig.  A value is a *)
(* pair of its kind and its content.  A string is a sequence of byte codes *)
(* (a name is usually one code), a number an integer standing for an f64,  *)
(* an object a sequence of members with distinct keys (the parser keeps    *)
(* the last of a duplicated key).                                          *)
(***************************************************************************)
EXTENDS Integers, Sequences, SequencesExt

CONSTANT JsonValues     \* the JSON values there are

Strings == Seq(Nat)

Null == <<"null", 0>>
Boolean(b) == <<"boolean", b>>
Number(n) == <<"number", n>>
String(s) == <<"string", s>>
Array(xs) == <<"array", xs>>
Object(members) == <<"object", members>>
SetLiteral(xs) == <<"set", xs>>
Member(k, v) == [key |-> k, value |-> v]

Kind(v) == v[1]
Content(v) == v[2]

(* What the parser makes: objects and arrays hold values, and what an      *)
(* iteration over keys binds or count answers is a value too.              *)
WellFormed(v) ==
  /\ v = <<Kind(v), Content(v)>>
  /\ CASE Kind(v) = "null"    -> v = Null
       [] Kind(v) = "boolean" -> Content(v) \in BOOLEAN
       [] Kind(v) = "number"  -> Content(v) \in Int
       [] Kind(v) = "string"  -> Content(v) \in Strings
       [] Kind(v) \in {"array", "set"} -> Content(v) \in Seq(JsonValues)
       [] Kind(v) = "object"  ->
            /\ Content(v) \in Seq([key : Strings, value : JsonValues])
            /\ \A i \in DOMAIN Content(v) : String(Content(v)[i].key) \in JsonValues
       [] OTHER -> FALSE
  /\ Kind(v) \in {"string", "array", "set", "object"} => Number(Len(Content(v))) \in JsonValues

ASSUME ValuesAssumption ==
  /\ {Null, Boolean(TRUE), Boolean(FALSE)} \subseteq JsonValues
  /\ \A v \in JsonValues : WellFormed(v)

(* A missing path or a call that could not compute; the code spells it     *)
(* null or an error union.                                                 *)
Undefined == <<"undefined">>

-----------------------------------------------------------------------------
(* lookupMember: the last member of that key.                              *)
LookupMember(members, k) ==
  LET named == {i \in DOMAIN members : members[i].key = k}
  IN  IF named = {} THEN Undefined
      ELSE members[CHOOSE i \in named : \A j \in named : j <= i].value

(* valueEquals: strict structural equality; the order of members and of    *)
(* set items, and the repetition of the latter, do not matter.  The parts  *)
(* of composite values are told equal or not by equal.                     *)
ArrayEqual(equal, xs, ys) ==
  Len(xs) = Len(ys) /\ \A i \in DOMAIN xs : equal[<<xs[i], ys[i]>>]

ObjectEqual(equal, xs, ys) ==
  /\ Len(xs) = Len(ys)
  /\ \A i \in DOMAIN xs : \E j \in DOMAIN ys :
       xs[i].key = ys[j].key /\ equal[<<xs[i].value, ys[j].value>>]

SetSubsetOf(equal, needle, haystack) ==
  \A i \in DOMAIN needle : \E j \in DOMAIN haystack : equal[<<needle[i], haystack[j]>>]

SetEqual(equal, xs, ys) == SetSubsetOf(equal, xs, ys) /\ SetSubsetOf(equal, ys, xs)

EqualBy(equal, a, b) ==
  /\ Kind(a) = Kind(b)
  /\ CASE Kind(a) = "array"  -> ArrayEqual(equal, Content(a), Content(b))
       [] Kind(a) = "object" -> ObjectEqual(equal, Content(a), Content(b))
       [] Kind(a) = "set"    -> SetEqual(equal, Content(a), Content(b))
       [] OTHER              -> Content(a) = Content(b)

Equal[c \in JsonValues \X JsonValues] == EqualBy(Equal, c[1], c[2])

ValueEquals(a, b) == EqualBy(Equal, a, b)

-----------------------------------------------------------------------------
(* valueCompare: -1, 0 or 1, or Unordered for two objects or two sets.     *)
Unordered == 2

TypeRank(v) ==
  CHOOSE r \in 0 .. 6 :
    <<"null", "boolean", "number", "string", "array", "object", "set">>[r + 1] = Kind(v)

Sign(a, b) == IF a < b THEN -1 ELSE IF a > b THEN 1 ELSE 0
Bit(b) == IF b THEN 1 ELSE 0

(* The first position that decides, or the lengths.                        *)
Lexicographic(xs, ys, Compare(_, _)) ==
  LET common == 1 .. (IF Len(xs) < Len(ys) THEN Len(xs) ELSE Len(ys))
      apart == {i \in common : Compare(xs[i], ys[i]) # 0}
  IN  IF apart = {} THEN Sign(Len(xs), Len(ys))
      ELSE LET i == CHOOSE i \in apart : \A j \in apart : i <= j
           IN  Compare(xs[i], ys[i])

CompareBy(order, a, b) ==
  CASE Kind(a) # Kind(b)            -> Sign(TypeRank(a), TypeRank(b))
    [] Kind(a) = "null"             -> 0
    [] Kind(a) = "boolean"          -> Sign(Bit(Content(a)), Bit(Content(b)))
    [] Kind(a) = "number"           -> Sign(Content(a), Content(b))
    [] Kind(a) = "string"           -> Lexicographic(Content(a), Content(b), Sign)
    [] Kind(a) = "array"            -> Lexicographic(Content(a), Content(b), LAMBDA x, y : order[<<x, y>>])
    [] Kind(a) \in {"object", "set"} -> Unordered

Order[c \in JsonValues \X JsonValues] == CompareBy(Order, c[1], c[2])

ValueCompare(a, b) == CompareBy(Order, a, b)

-----------------------------------------------------------------------------
(* The builtins; a type they do not take gives nil.                        *)
Arity == [startswith |-> 2, endswith |-> 2, contains |-> 2, count |-> 1]

Occurs(s, part) ==
  \E i \in 1 .. Len(s) + 1 : IsPrefix(part, SubSeq(s, i, Len(s)))

Dispatch(name, args) ==
  IF name = "count"
  THEN IF Kind(args[1]) \in {"array", "set", "object", "string"}
       THEN Number(Len(Content(args[1])))
       ELSE Null
  ELSE IF \E i \in 1 .. 2 : Kind(args[i]) # "string" THEN Null
  ELSE Boolean(
         CASE name = "startswith" -> IsPrefix(Content(args[2]), Content(args[1]))
           [] name = "endswith"   -> IsSuffix(Content(args[2]), Content(args[1]))
           [] name = "contains"   -> Occurs(Content(args[1]), Content(args[2])))
=============================================================================
