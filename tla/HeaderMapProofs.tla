-------------------------- MODULE HeaderMapProofs --------------------------
(***************************************************************************)
(* Proofs about decodeHeaderMap, for every width of a word, every dump     *)
(* length, every count and every size a host may declare.                  *)
(***************************************************************************)
EXTENDS HeaderMap, TLAPS

(* Where the decoder stands: the next key starts after what was copied, in *)
(* the dump, and one size was read for each header copied.                 *)
Progress ==
  /\ status \in {"receiving", "counting"} => declared = << >> /\ headers = << >>
  /\ Len(headers) <= Len(declared)
  /\ status = "decoding" =>
       /\ num > 0
       /\ Len(declared) = Len(headers)
       /\ p = EndOf(Len(headers))
       /\ SizesEnd(num) <= p /\ p <= length

HeaderInv == TypeOK /\ Progress /\ SlicesInBounds /\ RefusedDoesNotFit

LEMMA InitInv == Init => HeaderInv
  BY WordAssumption
  DEF Init, HeaderInv, TypeOK, Progress, SlicesInBounds, RefusedDoesNotFit, Words

(* Everything a host declares is a natural number.                         *)
LEMMA DeclaredNatural ==
  ASSUME TypeOK
  PROVE  /\ length \in Nat /\ num \in Nat /\ p \in Nat /\ WordSpan \in Nat
         /\ length < WordSpan
         /\ \A n \in Sizes : n \in Nat
  BY WordAssumption DEF TypeOK, Words

(* A header that is in the dump extends what was copied by two slices that *)
(* start where the last one ended.                                         *)
LEMMA HeaderCopied ==
  ASSUME HeaderInv, NEW k \in Sizes, NEW v \in Sizes, ReadHeader(k, v), InDump(k, v),
         headers' = Append(headers, [key |-> Slice(p, k),
                                     value |-> Slice(p + k + 1, v)]),
         p' = p + k + v + 2,
         status' = status
  PROVE  HeaderInv'
<1> DEFINE n == Len(headers)
<1> DEFINE h == [key |-> Slice(p, k), value |-> Slice(p + k + 1, v)]
<1>0. /\ n \in Nat /\ p \in Nat /\ k \in Nat /\ v \in Nat /\ num \in Nat
      /\ length \in Nat /\ WordSpan \in Nat /\ length < WordSpan
  BY DeclaredNatural DEF HeaderInv, TypeOK
<1>1. /\ status = "decoding" /\ num > 0 /\ num' = num /\ length' = length
      /\ 4 + num * 8 <= p /\ Len(declared) = n
  BY <1>0 DEF HeaderInv, Progress, ReadHeader, SizesEnd
<1>2. p = EndOf(n)
  BY <1>1 DEF HeaderInv, Progress
<1>3. p + k + v + 2 <= length
  BY DEF InDump
<1>4. h \in [key : SliceType, value : SliceType]
  <2>1. /\ p \in Words /\ p + k \in Words
        /\ p + k + 1 \in Words /\ p + k + 1 + v \in Words
    BY <1>0, <1>3 DEF Words
  <2> QED
    BY <2>1 DEF Slice, SliceType
<1>5. /\ headers \in Seq([key : SliceType, value : SliceType]) /\ declared \in Seq(Size)
      /\ headers' = Append(headers, h) /\ declared' = Append(declared, [key |-> k, value |-> v])
  BY DEF HeaderInv, TypeOK, ReadHeader
<1> HIDE DEF h, n
<1>6. /\ headers' \in Seq([key : SliceType, value : SliceType]) /\ declared' \in Seq(Size)
      /\ Len(headers') = n + 1 /\ Len(declared') = n + 1
      /\ headers'[n + 1] = h /\ declared'[n + 1] = [key |-> k, value |-> v]
      /\ \A i \in 1 .. n : headers'[i] = headers[i] /\ declared'[i] = declared[i]
  <2>1. [key |-> k, value |-> v] \in Size
    BY DEF Size
  <2>2. Len(headers) = n /\ n \in Nat /\ Len(declared) = n
    BY <1>0, <1>1 DEF n
  <2> DEFINE Header == [key : SliceType, value : SliceType]
  <2>3. headers \in Seq(Header) /\ h \in Header
    BY <1>4, <1>5
  <2> HIDE DEF Header
  <2>4. /\ headers' \in Seq(Header) /\ Len(headers') = n + 1 /\ headers'[n + 1] = h
        /\ \A i \in 1 .. n : headers'[i] = headers[i]
    BY <2>2, <2>3, <1>5
  <2> DEFINE d == [key |-> k, value |-> v]
  <2>5. d \in Size /\ declared' = Append(declared, d) /\ declared \in Seq(Size)
    BY <2>1, <1>5
  <2> HIDE DEF d
  <2>6. /\ declared' \in Seq(Size) /\ Len(declared') = n + 1 /\ declared'[n + 1] = d
        /\ \A i \in 1 .. n : declared'[i] = declared[i]
    BY <2>2, <2>5
  <2> QED
    BY <2>4, <2>6 DEF Header, d
<1>7. TypeOK'
  <2>1. p + k + v + 2 \in 0 .. WordSpan
    BY <1>0, <1>3
  <2> QED
    BY <1>1, <1>6, <2>1 DEF HeaderInv, TypeOK
<1>8. /\ h.key.start = p /\ h.key.end = p + k
      /\ h.value.start = p + k + 1 /\ h.value.end = p + k + 1 + v
  BY DEF h, Slice
<1>9. \A i \in 0 .. n : EndOf(i)' = EndOf(i)
  BY <1>0, <1>1, <1>6 DEF EndOf
<1>10. headers'[n + 1].value.end + 1 = p'
  <2>1. headers'[n + 1].value.end = p + k + 1 + v
    BY <1>6, <1>8
  <2>2. p + k + 1 + v + 1 = p'
    BY <1>0
  <2> QED
    BY <2>1, <2>2
<1>11. Progress'
  <2>1. p' <= length' /\ SizesEnd(num)' <= p'
    BY <1>0, <1>1, <1>3 DEF SizesEnd
  <2>2. num' > 0 /\ status' = "decoding" /\ Len(headers') = n + 1 /\ Len(declared') = n + 1
    BY <1>1, <1>6
  <2>3. p' = EndOf(Len(headers))'
    BY <1>0, <1>10, <2>2 DEF EndOf
  <2> QED
    BY <2>1, <2>2, <2>3 DEF Progress
<1>12. SlicesInBounds'
  <2> SUFFICES ASSUME NEW i \in 1 .. n + 1
               PROVE  /\ headers'[i].key.start = EndOf(i - 1)'
                      /\ headers'[i].key.end = headers'[i].key.start + declared'[i].key
                      /\ headers'[i].value.start = headers'[i].key.end + 1
                      /\ headers'[i].value.end = headers'[i].value.start + declared'[i].value
                      /\ SizesEnd(num)' <= headers'[i].key.start
                      /\ headers'[i].value.end < length'
    BY <1>6 DEF SlicesInBounds
  <2>1. CASE i = n + 1
    <3>1. EndOf(i - 1)' = p
      BY <2>1, <1>0, <1>2, <1>9
    <3>2. SizesEnd(num)' <= p /\ p + k + 1 + v < length'
      BY <1>0, <1>1, <1>3 DEF SizesEnd
    <3> QED
      BY <2>1, <1>6, <1>8, <3>1, <3>2
  <2>2. CASE i \in 1 .. n
    <3>1. i \in DOMAIN headers /\ i - 1 \in 0 .. n
      BY <2>2, <1>1, <1>5 DEF n
    <3>2. SizesEnd(num)' = SizesEnd(num)
      BY <1>1 DEF SizesEnd
    <3> QED
      BY <2>2, <3>1, <3>2, <1>1, <1>6, <1>9 DEF HeaderInv, SlicesInBounds
  <2>3. i = n + 1 \/ i \in 1 .. n
    BY <1>0
  <2> QED
    BY <2>1, <2>2, <2>3
<1>13. RefusedDoesNotFit'
  BY <1>1 DEF RefusedDoesNotFit
<1> QED
  BY <1>7, <1>11, <1>12, <1>13 DEF HeaderInv

(* A header that is not in the dump ends the decoding, for that reason.    *)
LEMMA HeaderRefused ==
  ASSUME HeaderInv, NEW k \in Sizes, NEW v \in Sizes, ReadHeader(k, v),
         UNCHANGED <<p, headers>>,
         \/ status' = "invalid" /\ ~InDump(k, v)
         \/ status' = "oom"
  PROVE  HeaderInv'
<1>0. /\ p \in Nat /\ k \in Nat /\ v \in Nat /\ length \in Nat
      /\ WordSpan \in Nat /\ length < WordSpan
  BY DeclaredNatural DEF HeaderInv, TypeOK
<1>1. /\ status = "decoding" /\ num' = num /\ length' = length
      /\ declared \in Seq(Size) /\ declared' = Append(declared, [key |-> k, value |-> v])
      /\ Len(declared) = Len(headers) /\ p = EndOf(Len(headers))
      /\ headers \in Seq([key : SliceType, value : SliceType])
      /\ headers' = headers
      /\ [key |-> k, value |-> v] \in Size
  BY DEF HeaderInv, TypeOK, Progress, ReadHeader, Size
<1>2. /\ declared' \in Seq(Size) /\ Len(declared') = Len(headers) + 1
      /\ declared'[Len(headers) + 1] = [key |-> k, value |-> v]
      /\ \A i \in DOMAIN headers : declared'[i] = declared[i]
  BY <1>1
<1>3. TypeOK' /\ Progress'
  BY <1>1, <1>2 DEF HeaderInv, TypeOK, Progress
<1>4. SlicesInBounds'
  BY <1>1, <1>2 DEF HeaderInv, SlicesInBounds, EndOf, SizesEnd
<1>5. ASSUME ~InDump(k, v) PROVE p + k + v + 2 > length
  BY <1>0, <1>5 DEF InDump, Fits
<1>6. RefusedDoesNotFit'
  <2>1. CASE status' = "oom"
    BY <2>1 DEF RefusedDoesNotFit
  <2>2. CASE ~InDump(k, v)
    <3>1. EndOf(Len(headers))' = p /\ length' = length
      BY <1>1 DEF EndOf, SizesEnd
    <3> QED
      BY <2>2, <1>1, <1>2, <1>5, <3>1 DEF RefusedDoesNotFit
  <2> QED
    BY <2>1, <2>2
<1> QED
  BY <1>3, <1>4, <1>6 DEF HeaderInv

LEMMA StepInv == HeaderInv /\ [Next]_vars => HeaderInv'
<1> SUFFICES ASSUME HeaderInv, [Next]_vars PROVE HeaderInv'
  OBVIOUS
<1>1. CASE \E l \in Words : Receive(l)
  BY <1>1, WordAssumption
  DEF HeaderInv, TypeOK, Progress, SlicesInBounds, RefusedDoesNotFit, Receive, Words, EndOf, SizesEnd
<1>2. CASE \E n \in Counts : ReadCount(n)
  <2> PICK n \in Counts : ReadCount(n)
    BY <1>2
  <2>1. /\ headers = << >> /\ declared = << >> /\ headers' = << >> /\ declared' = << >>
        /\ num' = n /\ n \in Nat /\ length' = length /\ length \in Words /\ p \in 0 .. WordSpan
    BY WordAssumption DEF HeaderInv, TypeOK, Progress, ReadCount
  <2>2. \/ status' \in {"done", "oom"} /\ p' = p
        \/ status' = "oom"
        \/ status' = "invalid" /\ p' = p /\ n > 0 /\ length < SizesEnd(n)
        \/ status' = "decoding" /\ n > 0 /\ p' = SizesEnd(n) /\ SizesEnd(n) <= length
    BY <2>1, WordAssumption DEF ReadCount, Fits, SizesEnd, Words
  <2>3. p' \in 0 .. WordSpan
    BY <2>1, <2>2, WordAssumption DEF ReadCount, SizesEnd, Words
  <2>4. TypeOK'
    BY <2>1, <2>2, <2>3 DEF TypeOK
  <2>5. Progress' /\ SlicesInBounds'
    BY <2>1, <2>2 DEF Progress, SlicesInBounds, EndOf, SizesEnd
  <2>6. RefusedDoesNotFit'
    BY <2>1, <2>2 DEF RefusedDoesNotFit, SizesEnd
  <2> QED
    BY <2>4, <2>5, <2>6 DEF HeaderInv
<1>3. CASE \E k, v \in Sizes : ReadHeader(k, v)
  <2> PICK k \in Sizes, v \in Sizes : ReadHeader(k, v)
    BY <1>3
  <2>2. CASE ~InDump(k, v) /\ status' = "invalid" /\ UNCHANGED <<p, headers>>
    BY <2>2, HeaderRefused
  <2>3. CASE status' = "oom" /\ UNCHANGED <<p, headers>>
    BY <2>3, HeaderRefused
  <2>4. CASE /\ InDump(k, v)
             /\ headers' = Append(headers, [key |-> Slice(p, k),
                                            value |-> Slice(p + k + 1, v)])
             /\ p' = p + k + v + 2
             /\ status' = status
    BY <2>4, HeaderCopied
  <2> QED
    BY <2>2, <2>3, <2>4 DEF ReadHeader
<1>4. CASE Finish
  BY <1>4 DEF HeaderInv, TypeOK, Progress, SlicesInBounds, RefusedDoesNotFit, Finish, EndOf, SizesEnd
<1>5. CASE UNCHANGED vars
  BY <1>5 DEF vars, HeaderInv, TypeOK, Progress, SlicesInBounds, RefusedDoesNotFit, EndOf, SizesEnd
<1> QED
  BY <1>1, <1>2, <1>3, <1>4, <1>5 DEF Next

(* The decoder's state keeps its type: no offset outgrows a word           *)
(* (wire.zig:61-64).                                                       *)
THEOREM TypeCorrect == Spec => []TypeOK
  BY InitInv, StepInv, PTL DEF Spec, HeaderInv

(* Whatever sizes the host declares, every slice copied lies in the dump,  *)
(* after the table, in order and apart (wire.zig:58-72).                   *)
THEOREM SlicesHold == Spec => []SlicesInBounds
  BY InitInv, StepInv, PTL DEF Spec, HeaderInv

(* Only a dump that declares more than it holds is refused                 *)
(* (wire.zig:45-66).                                                       *)
THEOREM RefusalsJustified == Spec => []RefusedDoesNotFit
  BY InitInv, StepInv, PTL DEF Spec, HeaderInv
=============================================================================
