----------------------------- MODULE HeaderMap -----------------------------
(***************************************************************************)
(* decodeHeaderMap of wire.zig: the dump of a header map that a host hands *)
(* over, a count, a table of sizes and the bytes they describe.  Every     *)
(* number in it is the host's, and offsets are words that wrap, so each    *)
(* sum is checked before it is used.                                       *)
(***************************************************************************)
EXTENDS Integers, Sequences

CONSTANTS
  WordSpan,     \* 2^32: usize and the sizes on wasm32
  Counts,       \* the header counts a dump may declare
  Sizes         \* the key and value sizes a dump may declare

ASSUME WordAssumption ==
  /\ WordSpan \in Nat /\ WordSpan > 4
  /\ Counts \subseteq 0 .. WordSpan - 1
  /\ Sizes \subseteq 0 .. WordSpan - 1

VARIABLES
  length,     \* the bytes of the dump
  num,        \* the headers it declares
  p,          \* where the next key starts
  declared,   \* the sizes read from the table so far
  headers,    \* the slices copied out so far
  status      \* "receiving", "counting", "decoding", "done", "invalid" or "oom"

vars == <<length, num, p, declared, headers, status>>

Words == 0 .. WordSpan - 1

Size == [key : Sizes, value : Sizes]

(* A slice of the dump: its first byte, and the byte after its last.       *)
Slice(start, size) == [start |-> start, end |-> start + size]
SliceType == [start : Words, end : Words]

(* The first byte after the table of n sizes.                              *)
SizesEnd(n) == 4 + n * 8

TypeOK ==
  /\ length \in Words
  /\ num \in Counts \cup {0}
  /\ p \in 0 .. WordSpan
  /\ declared \in Seq(Size)
  /\ headers \in Seq([key : SliceType, value : SliceType])
  /\ status \in {"receiving", "counting", "decoding", "done", "invalid", "oom"}

Init ==
  /\ length = 0 /\ num = 0 /\ p = 0
  /\ declared = << >> /\ headers = << >>
  /\ status = "receiving"

(* std.math.add and mul fail where the sum does not fit a word.            *)
Fits(n) == n < WordSpan

(* The dump arrives.  An empty one holds no headers.                       *)
Receive(l) ==
  /\ status = "receiving"
  /\ length' = l
  /\ status' = IF l = 0 THEN "done" ELSE IF l < 4 THEN "invalid" ELSE "counting"
  /\ UNCHANGED <<num, p, declared, headers>>

(* The count, and whether the table of sizes is in the dump.               *)
ReadCount(n) ==
  /\ status = "counting"
  /\ num' = n
  /\ \/ /\ n = 0
        /\ status' = "done" /\ UNCHANGED p
     \/ /\ n > 0
        /\ ~Fits(n * 8) \/ ~Fits(SizesEnd(n)) \/ length < SizesEnd(n)
        /\ status' = "invalid" /\ UNCHANGED p
     \/ /\ n > 0
        /\ Fits(n * 8) /\ Fits(SizesEnd(n)) /\ length >= SizesEnd(n)
        /\ \/ status' = "decoding" /\ p' = SizesEnd(n)
           \/ status' = "oom" /\ UNCHANGED p
  /\ UNCHANGED <<length, declared, headers>>

(* Mutant: the sum wraps before it is compared.                            *)
MutantInDump(k, v) == (p + k + v + 2) % WordSpan <= length

(* Mutant: a dump that ends with its last terminator is refused.           *)
MutantInDumpStrict(k, v) == p + k + v + 2 < length

(* Both fields and their terminators end inside the dump, each sum checked *)
(* on the way.                                                             *)
InDump(k, v) ==
  /\ Fits(k + v)
  /\ Fits(k + v + 2)
  /\ Fits(p + k + v + 2)
  /\ p + k + v + 2 <= length

(* The next header of the table is copied out.                             *)
ReadHeader(k, v) ==
  /\ status = "decoding" /\ Len(headers) < num
  /\ declared' = Append(declared, [key |-> k, value |-> v])
  /\ \/ /\ ~InDump(k, v)
        /\ status' = "invalid" /\ UNCHANGED <<p, headers>>
     \/ /\ InDump(k, v)
        /\ headers' = Append(headers, [key |-> Slice(p, k),
                                       value |-> Slice(p + k + 1, v)])
        /\ p' = p + k + v + 2
        /\ UNCHANGED status
     \/ /\ InDump(k, v)
        /\ status' = "oom" /\ UNCHANGED <<p, headers>>
  /\ UNCHANGED <<length, num>>

Finish ==
  /\ status = "decoding" /\ Len(headers) = num
  /\ status' = "done"
  /\ UNCHANGED <<length, num, p, declared, headers>>

Next ==
  \/ \E l \in Words : Receive(l)
  \/ \E n \in Counts : ReadCount(n)
  \/ \E k, v \in Sizes : ReadHeader(k, v)
  \/ Finish

Spec == Init /\ [][Next]_vars
-----------------------------------------------------------------------------
(* The end of the last header, or of the table before the first.           *)
EndOf(i) == IF i = 0 THEN SizesEnd(num) ELSE headers[i].value.end + 1

(* What is copied out is what was declared, in order: every slice lies     *)
(* after the table and inside the dump, its fields and those of the next   *)
(* header apart by their terminators, whatever sizes the host declares     *)
(* (wire.zig:33-37, 58-72).                                                *)
SlicesInBounds ==
  \A i \in DOMAIN headers :
    /\ headers[i].key.start = EndOf(i - 1)
    /\ headers[i].key.end = headers[i].key.start + declared[i].key
    /\ headers[i].value.start = headers[i].key.end + 1
    /\ headers[i].value.end = headers[i].value.start + declared[i].value
    /\ SizesEnd(num) <= headers[i].key.start
    /\ headers[i].value.end < length

(* A dump is refused only for declaring more than it holds: no dump a host *)
(* may send is denied for a sum that merely looks large (wire.zig:45-66).  *)
RefusedDoesNotFit ==
  status = "invalid" =>
    \/ length \in 1 .. 3
    \/ num > 0 /\ SizesEnd(num) > length
    \/ /\ Len(declared) > Len(headers)
       /\ LET last == declared[Len(declared)]
          IN  EndOf(Len(headers)) + last.key + last.value + 2 > length
=============================================================================
