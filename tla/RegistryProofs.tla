--------------------------- MODULE RegistryProofs ---------------------------
(***************************************************************************)
(* Proofs about the policy registry, for every number of slots and of      *)
(* generations, every set of addresses and every set of documents.         *)
(***************************************************************************)
EXTENDS Registry, TLAPS

-----------------------------------------------------------------------------
(* The handle encoding.                                                    *)

(* Splitting an encoded handle gives back the slot and the generation      *)
(* (policy.zig:83, 140, 143).                                              *)
LEMMA EncodeInverse ==
  ASSUME NEW i \in 1 .. MaxSlots, NEW g \in Nat
  PROVE  /\ Encode(i, g) \in Nat
         /\ IndexOf(Encode(i, g)) = i
         /\ GenerationOf(Encode(i, g)) = g
  BY SpanAssumption DEF MaxSlots, Encode, IndexOf, GenerationOf

(* Two values that split alike are the same value.                         *)
LEMMA DecodeInverse ==
  ASSUME NEW h \in Nat
  PROVE  /\ IndexOf(h) \in 0 .. MaxSlots
         /\ GenerationOf(h) \in Nat
         /\ h = Encode(IndexOf(h), GenerationOf(h))
  BY SpanAssumption DEF MaxSlots, Encode, IndexOf, GenerationOf

(* An issued handle is a positive i32 (policy.zig:64-68).                  *)
LEMMA EncodeInRange ==
  ASSUME NEW i \in 1 .. MaxSlots, NEW g \in 1 .. MaxGeneration
  PROVE  Encode(i, g) \in HandleValues
  BY SpanAssumption DEF MaxSlots, MaxGeneration, Encode, HandleValues

-----------------------------------------------------------------------------
(* Type correctness and ownership of the allocated entries.                *)

RegistryInv == TypeOK /\ EntriesOwned

(* The registry starts empty and owns nothing.                             *)
LEMMA InitInv == Init => RegistryInv
  BY SpanAssumption, ValueAssumption
  DEF Init, RegistryInv, TypeOK, EntriesOwned, Slot, Held, Answer, Done,
      MaxSlots, MaxGeneration

(* What the type invariant says of one slot.                               *)
LEMMA SlotAt ==
  ASSUME TypeOK
  PROVE  \A i \in 1 .. Len(slots) : slots[i] \in Slot
  BY DEF TypeOK

(* Every step of the registry keeps the invariant.                         *)
LEMMA StepInv == RegistryInv /\ [Next]_vars => RegistryInv'
<1> SUFFICES ASSUME RegistryInv, [Next]_vars PROVE RegistryInv'
  OBVIOUS
<1> USE SpanAssumption, ValueAssumption
<1> USE DEF RegistryInv, TypeOK, Slot, MaxSlots, MaxGeneration, Answer, Refused, Done
<1>1. CASE CreateEntry
  BY <1>1 DEF CreateEntry, EntriesOwned, Held
<1>2. CASE CreateFails
  BY <1>2 DEF CreateFails, EntriesOwned, Held
<1>3. CASE \E d \in Documents : BuildBundle(d)
  BY <1>3 DEF BuildBundle, EntriesOwned, Held
<1>4. CASE BuildFails
  BY <1>4 DEF BuildFails, Unwind, EntriesOwned, Held
<1>5. CASE \E i \in DOMAIN slots : ReuseSlot(i)
  <2> PICK i \in DOMAIN slots : ReuseSlot(i)
    BY <1>5
  <2> DEFINE filled == [entry |-> building, generation |-> slots[i].generation + 1]
  <2>0. slots[i] \in Slot
    BY SlotAt
  <2>1. /\ slots[i].entry = NoEntry /\ i \in 1 .. Len(slots)
        /\ building \in Addresses /\ building # NoEntry
        /\ heap[building] \in WellFormed
        /\ filled \in Slot
        /\ slots' = [slots EXCEPT ![i] = filled]
        /\ heap' = heap /\ building' = NoEntry /\ stage' = "idle"
    <3>1. stage = "built" /\ Reusable(i)
      BY DEF ReuseSlot
    <3>2. building \in Addresses /\ building # NoEntry /\ heap[building] \in WellFormed
      BY <3>1 DEF EntriesOwned
    <3>3. filled \in Slot
      BY <2>0, <3>1, <3>2 DEF Reusable
    <3> QED
      BY <3>1, <3>2, <3>3 DEF ReuseSlot, Reusable, Return
  <2>2. slots' \in Seq(Slot) /\ Len(slots') = Len(slots)
    BY <2>1
  <2>3. answer' \in [call : {"compile"}, handle : Int, result : WellFormed]
    <3>1. answer' = Answer("compile", Encode(i, filled.generation), heap[building])
      BY DEF ReuseSlot, Return
    <3>2. filled.generation \in Nat /\ i \in Nat
      BY <2>1
    <3> HIDE DEF filled
    <3>3. Encode(i, filled.generation) \in Int
      BY <3>2 DEF Encode
    <3> QED
      BY <2>1, <3>1, <3>3
  <2>4. TypeOK'
    BY <2>1, <2>2, <2>3
  <2>5. /\ Held' = Held \cup {i}
        /\ \A j \in Held : j # i /\ slots'[j].entry = slots[j].entry
        /\ slots'[i].entry = building
    BY <2>1, <2>2 DEF Held
  <2>6. EntriesOwned'
    BY <2>1, <2>5 DEF EntriesOwned, Held
  <2> QED
    BY <2>4, <2>6
<1>6. CASE AppendSlot
  <2> DEFINE n == Len(slots) + 1
  <2> DEFINE added == [entry |-> building, generation |-> 1]
  <2>1. /\ building \in Addresses /\ building # NoEntry
        /\ heap[building] \in WellFormed
        /\ added \in Slot
        /\ slots' = Append(slots, added)
        /\ heap' = heap /\ building' = NoEntry /\ stage' = "idle"
    BY <1>6 DEF AppendSlot, Return, EntriesOwned
  <2>2. /\ slots' \in Seq(Slot) /\ Len(slots') = n
        /\ \A j \in 1 .. Len(slots) : slots'[j] = slots[j]
        /\ slots'[n] = added
    BY <2>1
  <2>3. answer' \in [call : {"compile"}, handle : Int, result : WellFormed]
    <3>1. answer' = Answer("compile", Encode(n, 1), heap[building])
      BY <1>6 DEF AppendSlot, Return
    <3>2. Encode(n, 1) \in Int
      BY DEF Encode
    <3> QED
      BY <2>1, <3>1, <3>2
  <2>4. TypeOK'
    BY <1>6, <2>1, <2>2, <2>3 DEF AppendSlot
  <2>5. /\ Held' = Held \cup {n}
        /\ \A j \in Held : j # n /\ slots'[j].entry = slots[j].entry
        /\ slots'[n].entry = building
    BY <2>1, <2>2 DEF Held
  <2>6. EntriesOwned'
    BY <2>1, <2>5 DEF EntriesOwned, Held
  <2> QED
    BY <2>4, <2>6
<1>7. CASE InstallFails
  BY <1>7 DEF InstallFails, Unwind, EntriesOwned, Held
<1>8. CASE \E h \in HostValues : Release(h)
  <2> PICK h \in HostValues : Release(h)
    BY <1>8
  <2> DEFINE i == IndexOf(h)
  <2>0. i \in 1 .. Len(slots) /\ slots[i].entry # NoEntry
    BY DEF Release, Resolves
  <2>1. /\ slots[i] \in Slot /\ slots[i].entry \in Addresses /\ i \in Held
        /\ slots' = [slots EXCEPT ![i] = [slots[i] EXCEPT !.entry = NoEntry]]
        /\ heap' = [heap EXCEPT ![slots[i].entry] = Unused]
        /\ building' = building /\ stage' = stage
    <3> HIDE DEF i
    <3>1. slots[i] \in Slot
      BY <2>0, SlotAt
    <3> QED
      BY <2>0, <3>1 DEF Release, Held, i
  <2>2. slots' \in Seq(Slot) /\ Len(slots') = Len(slots)
    <3> HIDE DEF i
    <3>1. [slots[i] EXCEPT !.entry = NoEntry] \in Slot
      BY <2>1
    <3> QED
      BY <2>0, <2>1, <3>1
  <2>3. answer' \in [call : {"release"}, handle : Int, result : {Done}]
    BY DEF Release
  <2>4. TypeOK'
    BY <2>1, <2>2, <2>3
  <2>5. /\ Held' = Held \ {i}
        /\ \A j \in Held' : slots'[j].entry = slots[j].entry
    <3> HIDE DEF i
    <3> QED
      BY <2>0, <2>1, <2>2 DEF Held
  <2>6. EntriesOwned'
    <3> HIDE DEF i
    <3> QED
      BY <2>1, <2>5 DEF EntriesOwned
  <2> QED
    BY <2>4, <2>6
<1>9. CASE \E h \in HostValues : ReleaseRefused(h) \/ Evaluate(h) \/ EvaluateFails(h)
  BY <1>9 DEF ReleaseRefused, Evaluate, EvaluateFails, Resolves, BundleOf, EntriesOwned, Held
<1>10. CASE Deinit
  BY <1>10 DEF Deinit, EntriesOwned, Held
<1>11. CASE UNCHANGED vars
  BY <1>11 DEF vars, EntriesOwned, Held
<1> QED
  BY <1>1, <1>2, <1>3, <1>4, <1>5, <1>6, <1>7, <1>8, <1>9, <1>10, <1>11 DEF Next, Compile

(* Type correctness of the registry (policy.zig:71-198).                   *)
THEOREM TypeCorrect == Spec => []TypeOK
  BY InitInv, StepInv, PTL DEF Spec, RegistryInv

(* Whatever fails and in whatever order hosts compile and release, every   *)
(* allocated entry has exactly one owner: none leaks, none is freed twice  *)
(* (policy.zig:100-113, 166-175, 190-198).                                 *)
THEOREM OwnershipHolds == Spec => []EntriesOwned
  BY InitInv, StepInv, PTL DEF Spec, RegistryInv

-----------------------------------------------------------------------------
(* What each step does to the handles.                                     *)

(* A handle that resolves is in the range of issued handles and was issued. *)
LEMMA LiveIssued ==
  ASSUME RegistryInv, NEW h \in Int, Resolves(h)
  PROVE  h \in HandleValues /\ h \in Live /\ h \in Issued
<1> DEFINE i == IndexOf(h)
<1> DEFINE g == GenerationOf(h)
<1>1. h \in Nat /\ i \in 1 .. Len(slots) /\ slots[i].generation = g
  BY DEF Resolves
<1>2. slots[i] \in Slot /\ Len(slots) <= MaxSlots
  <2> HIDE DEF i
  <2> QED
    BY <1>1, SlotAt DEF RegistryInv, TypeOK
<1>3. g \in 1 .. MaxGeneration /\ i \in 1 .. MaxSlots
  <2> HIDE DEF i, g
  <2> QED
    BY <1>1, <1>2, SpanAssumption DEF Slot, MaxSlots
<1>4. h = Encode(i, g)
  BY <1>1, DecodeInverse
<1>5. h \in HandleValues
  <2> HIDE DEF i, g
  <2> QED
    BY <1>3, <1>4, EncodeInRange
<1> QED
  BY <1>1, <1>3, <1>5 DEF Live, Issued

(* Filling slot i at generation g issues one handle, never seen before,    *)
(* and disturbs no other.  Both ways out of install are of this shape.     *)
LEMMA FillIssues ==
  ASSUME RegistryInv, heap' = heap,
         NEW i \in 1 .. MaxSlots, NEW g \in 1 .. MaxGeneration,
         Len(slots') \in Nat,
         1 .. Len(slots') = 1 .. Len(slots) \cup {i},
         \A j \in 1 .. Len(slots) : j # i => slots'[j] = slots[j],
         slots'[i].entry = building, slots'[i].generation = g,
         building # NoEntry,
         i \in 1 .. Len(slots) => slots[i].entry = NoEntry /\ g = slots[i].generation + 1,
         i \notin 1 .. Len(slots) => g = 1
  PROVE  LET h == Encode(i, g) IN
         /\ h \in HandleValues /\ h \notin Issued
         /\ Issued' = Issued \cup {h}
         /\ Live' = Live \cup {h}
         /\ h \notin Live
         /\ BundleOf(h)' = heap[building]
         /\ \A k \in Live : BundleOf(k)' = BundleOf(k)
<1> DEFINE h == Encode(i, g)
<1> DEFINE n == Len(slots)
<1>0. n \in Nat /\ n <= MaxSlots /\ MaxSlots \in Nat
  BY SpanAssumption DEF RegistryInv, TypeOK, MaxSlots
<1>1. h \in HandleValues /\ IndexOf(h) = i /\ GenerationOf(h) = g
  <2>1. g \in Nat
    BY SpanAssumption DEF MaxGeneration
  <2> QED
    BY <2>1, EncodeInRange, EncodeInverse
<1>2. \A k \in HandleValues : /\ IndexOf(k) \in Nat /\ GenerationOf(k) \in Nat
                              /\ IndexOf(k) = i /\ GenerationOf(k) = g => k = h
  <2> TAKE k \in HandleValues
  <2>1. k \in Nat
    BY SpanAssumption DEF HandleValues
  <2> QED
    BY <2>1, DecodeInverse, <1>0
<1>3. \A j \in 1 .. n : slots[j].generation \in 1 .. MaxGeneration
  BY SlotAt DEF RegistryInv, Slot
<1> HIDE DEF h, n
<1>4. h \notin Issued
  BY <1>1, <1>3, SpanAssumption DEF Issued, MaxGeneration, n
<1>5. ASSUME NEW k \in HandleValues
      PROVE  k \in Issued' <=> k \in Issued \cup {h}
  <2>1. CASE IndexOf(k) = i
    BY <2>1, <1>0, <1>1, <1>2, <1>3, SpanAssumption DEF Issued, n, MaxGeneration
  <2>2. CASE IndexOf(k) # i
    BY <2>2, <1>0, <1>1, <1>2, <1>3 DEF Issued, n
  <2> QED
    BY <2>1, <2>2
<1>6. ASSUME NEW k \in HandleValues
      PROVE  k \in Live' <=> k \in Live \cup {h}
  <2>1. CASE IndexOf(k) = i
    BY <2>1, <1>0, <1>1, <1>2, <1>3, SpanAssumption DEF Live, Resolves, HandleValues, n
  <2>2. CASE IndexOf(k) # i
    BY <2>2, <1>0, <1>1, <1>2, <1>3 DEF Live, Resolves, n
  <2> QED
    BY <2>1, <2>2
<1>7. h \notin Live
  BY <1>0, <1>1 DEF Live, Resolves, n
<1>8. BundleOf(h)' = heap[building]
  BY <1>1 DEF BundleOf
<1>9. \A k \in Live : BundleOf(k)' = BundleOf(k)
  BY <1>1, <1>0 DEF Live, Resolves, BundleOf, n
<1>10. Issued' = Issued \cup {h} /\ Live' = Live \cup {h}
  BY <1>1, <1>5, <1>6 DEF Issued, Live
<1> QED
  BY <1>1, <1>4, <1>7, <1>8, <1>9, <1>10 DEF h

(* A release ends exactly the handle it was given.                         *)
LEMMA ReleaseEnds ==
  ASSUME RegistryInv, NEW h \in HostValues, Release(h)
  PROVE  /\ h \in Live
         /\ Live' = Live \ {h}
         /\ Issued' = Issued
         /\ \A k \in Live' : BundleOf(k)' = BundleOf(k)
<1> DEFINE i == IndexOf(h)
<1> DEFINE n == Len(slots)
<1>1. h \in Nat /\ i \in 1 .. n /\ slots[i].entry # NoEntry
      /\ slots[i].generation = GenerationOf(h)
  BY ValueAssumption DEF Release, Resolves
<1>2. h \in Live
  BY <1>1, LiveIssued DEF Release
<1>3. \A k \in HandleValues :
         /\ IndexOf(k) \in Nat
         /\ IndexOf(k) = i /\ GenerationOf(k) = GenerationOf(h) => k = h
  <2> TAKE k \in HandleValues
  <2>1. k \in Nat
    BY SpanAssumption DEF HandleValues
  <2> QED
    BY <2>1, <1>1, DecodeInverse
<1> HIDE DEF i, n
<1>4. /\ \A j \in 1 .. n : slots[j] \in Slot
      /\ slots' = [slots EXCEPT ![i].entry = NoEntry]
      /\ heap' = [heap EXCEPT ![slots[i].entry] = Unused]
      /\ slots \in Seq(Slot)
  BY SlotAt DEF Release, RegistryInv, TypeOK, i, n
<1>5. /\ slots'[i].entry = NoEntry /\ slots'[i].generation = slots[i].generation
      /\ \A j \in 1 .. n : j # i => slots'[j] = slots[j]
      /\ Len(slots') = n
  BY <1>1, <1>4 DEF Slot, n
<1>6. ASSUME NEW k \in HandleValues
      PROVE  /\ k \in Live' <=> k \in Live \ {h}
             /\ k \in Issued' <=> k \in Issued
  <2>1. CASE IndexOf(k) = i
    <3>1. ~Resolves(k)' /\ (Resolves(k) => k = h)
      BY <2>1, <1>1, <1>3, <1>5 DEF Resolves
    <3>2. k \in Issued' <=> k \in Issued
      BY <2>1, <1>1, <1>5 DEF Issued, n
    <3> QED
      BY <3>1, <3>2 DEF Live
  <2>2. CASE IndexOf(k) # i
    <3>1. IndexOf(k) \in 1 .. n => slots'[IndexOf(k)] = slots[IndexOf(k)]
      BY <2>2, <1>5
    <3>2. k # h
      BY <2>2 DEF i
    <3> QED
      BY <3>1, <3>2, <1>5 DEF Live, Issued, Resolves, n
  <2> QED
    BY <2>1, <2>2
<1>7. Live' = Live \ {h} /\ Issued' = Issued
  BY <1>6 DEF Live, Issued
<1>8. ASSUME NEW k \in Live'
      PROVE  BundleOf(k)' = BundleOf(k)
  <2>1. k \in Live /\ k # h /\ k \in HandleValues
    BY <1>7, <1>8 DEF Live
  <2>2. IndexOf(k) \in 1 .. n /\ slots[IndexOf(k)].entry # NoEntry
    BY <2>1 DEF Live, Resolves, n
  <2>3. IndexOf(k) # i
    BY <2>1, <1>1, <1>3 DEF Live, Resolves, i
  <2>4. slots[IndexOf(k)].entry # slots[i].entry
    BY <2>2, <2>3, <1>1, <1>4 DEF RegistryInv, EntriesOwned, Held, n
  <2>5. slots[IndexOf(k)].entry \in Addresses
    BY <2>2, <1>4 DEF Slot
  <2>6. slots'[IndexOf(k)] = slots[IndexOf(k)]
    BY <2>2, <2>3, <1>5
  <2> QED
    BY <2>4, <2>5, <2>6, <1>4 DEF BundleOf, RegistryInv, TypeOK
<1> QED
  BY <1>2, <1>7, <1>8

(* A step that leaves the table alone, and the entries it holds, leaves    *)
(* every handle alone.                                                     *)
LEMMA QuietStep ==
  ASSUME slots' = slots,
         \A i \in Held : heap'[slots[i].entry] = heap[slots[i].entry]
  PROVE  /\ Live' = Live
         /\ Issued' = Issued
         /\ \A k \in Live : BundleOf(k)' = BundleOf(k)
  BY DEF Live, Issued, Resolves, BundleOf, Held

(* The steps of a compile before install, and the ones that fail.          *)
LEMMA CompileQuiet ==
  ASSUME RegistryInv,
         \/ CreateEntry \/ CreateFails \/ BuildFails \/ InstallFails
         \/ \E d \in Documents : BuildBundle(d)
  PROVE  /\ slots' = slots
         /\ \A i \in Held : heap'[slots[i].entry] = heap[slots[i].entry]
<1>1. /\ \A i \in Held : slots[i].entry # building
      /\ \A i \in Held : heap[slots[i].entry] # Unused
      /\ heap \in [Addresses -> Documents \cup {Unused, Blank}]
  BY ValueAssumption DEF RegistryInv, EntriesOwned, TypeOK
<1>2. \A i \in Held : slots[i].entry \in Addresses
  BY SlotAt DEF RegistryInv, TypeOK, Held, Slot
<1>3. CASE CreateEntry
  BY <1>1, <1>2, <1>3 DEF CreateEntry
<1>4. CASE CreateFails
  BY <1>4 DEF CreateFails
<1>5. CASE BuildFails \/ InstallFails
  BY <1>1, <1>2, <1>5 DEF BuildFails, InstallFails, Unwind
<1>6. CASE \E d \in Documents : BuildBundle(d)
  BY <1>1, <1>2, <1>6 DEF BuildBundle
<1> QED
  BY <1>3, <1>4, <1>5, <1>6

(* Both successful ways out of install return one fresh handle, bound to   *)
(* the bundle just built.                                                  *)
LEMMA InstallIssues ==
  ASSUME RegistryInv,
         AppendSlot \/ \E i \in DOMAIN slots : ReuseSlot(i)
  PROVE  \E h \in HandleValues :
           /\ h \notin Issued
           /\ Issued' = Issued \cup {h}
           /\ Live' = Live \cup {h}
           /\ BundleOf(h)' = heap[building]
           /\ \A k \in Live : BundleOf(k)' = BundleOf(k)
           /\ heap[building] \in WellFormed
           /\ stage = "built" /\ stage' = "idle"
           /\ answer' = Answer("compile", h, heap[building])
<1>0. /\ stage = "built" /\ stage' = "idle" /\ heap' = heap
      /\ building # NoEntry /\ heap[building] \in WellFormed
      /\ Len(slots) \in Nat /\ Len(slots) <= MaxSlots
      /\ slots \in Seq(Slot)
      /\ \A j \in 1 .. Len(slots) : slots[j] \in Slot
      /\ DOMAIN slots = 1 .. Len(slots)
  BY SlotAt DEF RegistryInv, TypeOK, EntriesOwned, AppendSlot, ReuseSlot, Return
<1>1. CASE AppendSlot
  <2> DEFINE i == Len(slots) + 1
  <2>1. /\ i \in 1 .. MaxSlots /\ 1 \in 1 .. MaxGeneration
        /\ i \notin 1 .. Len(slots)
    BY <1>0, <1>1, SpanAssumption DEF AppendSlot, MaxSlots, MaxGeneration
  <2>2. /\ Len(slots') = i
        /\ \A j \in 1 .. Len(slots) : slots'[j] = slots[j]
        /\ slots'[i].entry = building /\ slots'[i].generation = 1
    BY <1>0, <1>1 DEF AppendSlot
  <2>3. 1 .. Len(slots') = 1 .. Len(slots) \cup {i} /\ Len(slots') \in Nat
    BY <1>0, <2>2
  <2>4. answer' = Answer("compile", Encode(i, 1), heap[building])
    BY <1>1 DEF AppendSlot, Return
  <2> HIDE DEF i
  <2> QED
    BY <1>0, <2>1, <2>2, <2>3, <2>4, FillIssues
<1>2. CASE \E i \in DOMAIN slots : ReuseSlot(i)
  <2> PICK i \in DOMAIN slots : ReuseSlot(i)
    BY <1>2
  <2> DEFINE g == slots[i].generation + 1
  <2>1. /\ i \in 1 .. MaxSlots /\ g \in 1 .. MaxGeneration
        /\ i \in 1 .. Len(slots) /\ slots[i].entry = NoEntry
    BY <1>0, SpanAssumption DEF ReuseSlot, Reusable, Slot, MaxSlots, MaxGeneration
  <2>2. /\ Len(slots') = Len(slots)
        /\ \A j \in 1 .. Len(slots) : j # i => slots'[j] = slots[j]
        /\ slots'[i].entry = building /\ slots'[i].generation = g
    BY <1>0, <2>1 DEF ReuseSlot
  <2>3. 1 .. Len(slots') = 1 .. Len(slots) \cup {i} /\ Len(slots') \in Nat
    BY <1>0, <2>1, <2>2
  <2>4. answer' = Answer("compile", Encode(i, g), heap[building])
    BY DEF ReuseSlot, Return
  <2> QED
    BY <1>0, <2>1, <2>2, <2>3, <2>4, FillIssues
<1> QED
  BY <1>1, <1>2

-----------------------------------------------------------------------------
(* The promises to the host.                                               *)

(* No step revives a stale handle or rebinds a live one.                   *)
LEMMA StepHandles ==
  ASSUME RegistryInv, [Next]_vars
  PROVE  /\ stage' # "closed" => \A h \in Issued \ Live : h \notin Live'
         /\ \A h \in Live : h \in Live' => BundleOf(h)' = BundleOf(h)
<1>1. CASE \/ CreateEntry \/ CreateFails \/ BuildFails \/ InstallFails
           \/ \E d \in Documents : BuildBundle(d)
  BY <1>1, CompileQuiet, QuietStep
<1>2. CASE AppendSlot \/ \E i \in DOMAIN slots : ReuseSlot(i)
  BY <1>2, InstallIssues
<1>3. CASE \E h \in HostValues : Release(h)
  BY <1>3, ReleaseEnds
<1>4. CASE \/ \E h \in HostValues : ReleaseRefused(h) \/ Evaluate(h) \/ EvaluateFails(h)
           \/ UNCHANGED vars
  <2>1. slots' = slots /\ heap' = heap
    BY <1>4 DEF ReleaseRefused, Evaluate, EvaluateFails, vars
  <2> QED
    BY <2>1, QuietStep
<1>5. CASE Deinit
  <2>1. Live' = {} /\ stage' = "closed"
    BY <1>5 DEF Deinit, Live, Resolves
  <2> QED
    BY <2>1
<1> QED
  BY <1>1, <1>2, <1>3, <1>4, <1>5 DEF Next, Compile

(* A stale handle never resolves again, however often its slot is reused   *)
(* and whatever the host does in between (policy.zig:28-39, 122-133).      *)
THEOREM StaleHandlesDeny == Spec => StaleStaysStale
<1>1. RegistryInv /\ [Next]_vars
        => [stage' # "closed" => \A h \in Issued \ Live : h \notin Live']_vars
  BY StepHandles
<1> QED
  BY <1>1, InitInv, StepInv, PTL DEF Spec, StaleStaysStale

(* A live handle keeps naming the policy it was issued for                 *)
(* (policy.zig:136-145).                                                   *)
THEOREM LiveHandlesKeepPolicy == Spec => HandleKeepsPolicy
<1>1. RegistryInv /\ [Next]_vars
        => [\A h \in Live : h \in Live' => BundleOf(h)' = BundleOf(h)]_vars
  BY StepHandles
<1> QED
  BY <1>1, InitInv, StepInv, PTL DEF Spec, HandleKeepsPolicy

-----------------------------------------------------------------------------
(* The registry implements the store.                                      *)

LEMMA InitRefines == Init => Store!StoreInit
<1> SUFFICES ASSUME Init PROVE Store!StoreInit
  OBVIOUS
<1>1. Live = {} /\ Issued = {}
  BY DEF Init, Live, Issued, Resolves
<1> QED
  BY <1>1 DEF Init, Store!StoreInit, Store!Answer, Store!Done, Answer, Done

LEMMA StepRefines ==
  ASSUME RegistryInv, [Next]_vars
  PROVE  [Store!StoreNext]_(Store!storeVars)
<1> DEFINE bound == [h \in Live |-> BundleOf(h)]
<1> USE DEF Answer, Refused, Done, Store!Answer, Store!Refused, Store!Done
<1>1. CASE CreateEntry \/ \E d \in Documents : BuildBundle(d)
  <2>1. /\ Live' = Live /\ Issued' = Issued
        /\ \A k \in Live : BundleOf(k)' = BundleOf(k)
    BY <1>1, CompileQuiet, QuietStep
  <2>2. stage # "closed" /\ stage' # "closed" /\ answer' = answer
    BY <1>1 DEF CreateEntry, BuildBundle
  <2> QED
    BY <2>1, <2>2 DEF Store!storeVars
<1>2. CASE CreateFails \/ BuildFails \/ InstallFails
  <2>1. /\ Live' = Live /\ Issued' = Issued
        /\ \A k \in Live : BundleOf(k)' = BundleOf(k)
    BY <1>2, CompileQuiet, QuietStep
  <2>2. /\ stage # "closed" /\ stage' # "closed"
        /\ answer' = Answer("compile", -1, Refused)
    BY <1>2 DEF CreateFails, BuildFails, InstallFails, Unwind
  <2> QED
    BY <2>1, <2>2 DEF Store!StoreNext, Store!Reject
<1>3. CASE AppendSlot \/ \E i \in DOMAIN slots : ReuseSlot(i)
  <2> PICK h \in HandleValues :
        /\ h \notin Issued
        /\ Issued' = Issued \cup {h}
        /\ Live' = Live \cup {h}
        /\ BundleOf(h)' = heap[building]
        /\ \A k \in Live : BundleOf(k)' = BundleOf(k)
        /\ heap[building] \in WellFormed
        /\ stage = "built" /\ stage' = "idle"
        /\ answer' = Answer("compile", h, heap[building])
    BY <1>3, InstallIssues
  <2>1. h \notin Live
    BY LiveIssued DEF Live, HandleValues
  <2>2. Store!Issue(h, heap[building])
    BY <2>1 DEF Store!Issue
  <2> QED
    BY <2>2 DEF Store!StoreNext
<1>4. CASE \E h \in HostValues : Release(h)
  <2> PICK h \in HostValues : Release(h)
    BY <1>4
  <2>1. /\ h \in Live /\ Live' = Live \ {h} /\ Issued' = Issued
        /\ \A k \in Live' : BundleOf(k)' = BundleOf(k)
    BY ReleaseEnds
  <2>2. /\ stage # "closed" /\ stage' # "closed"
        /\ answer' = Answer("release", h, Done)
    BY DEF Release
  <2>3. Store!Free(h)
    BY <2>1, <2>2 DEF Store!Free
  <2> QED
    BY <2>3 DEF Store!StoreNext
<1>5. CASE \E h \in HostValues : ReleaseRefused(h)
  <2> PICK h \in HostValues : ReleaseRefused(h)
    BY <1>5
  <2>1. /\ h \notin Live /\ stage' = stage
        /\ answer' = Answer("release", h, Refused)
    BY DEF ReleaseRefused, Live
  <2>2. /\ Live' = Live /\ Issued' = Issued
        /\ \A k \in Live : BundleOf(k)' = BundleOf(k)
    BY QuietStep DEF ReleaseRefused
  <2>3. Store!Free(h)
    BY <2>1, <2>2 DEF Store!Free
  <2> QED
    BY <2>3 DEF Store!StoreNext
<1>6. CASE \E h \in HostValues : Evaluate(h) \/ EvaluateFails(h)
  <2> PICK h \in HostValues : Evaluate(h) \/ EvaluateFails(h)
    BY <1>6
  <2>1. /\ stage' = stage
        /\ \/ answer' = Answer("evaluate", h, Refused)
           \/ h \in Live /\ answer' = Answer("evaluate", h, BundleOf(h))
    BY LiveIssued, ValueAssumption DEF Evaluate, EvaluateFails
  <2>2. /\ Live' = Live /\ Issued' = Issued
        /\ \A k \in Live : BundleOf(k)' = BundleOf(k)
    BY QuietStep DEF Evaluate, EvaluateFails
  <2>3. Store!Decide(h)
    BY <2>1, <2>2 DEF Store!Decide
  <2> QED
    BY <2>3 DEF Store!StoreNext
<1>7. CASE Deinit
  <2>1. Live' = {} /\ Issued' = {} /\ stage' = "closed" /\ answer' = answer
    BY <1>7 DEF Deinit, Live, Issued, Resolves
  <2> QED
    BY <2>1 DEF Store!StoreNext, Store!Drop
<1>8. CASE UNCHANGED vars
  <2>1. /\ Live' = Live /\ Issued' = Issued
        /\ \A k \in Live : BundleOf(k)' = BundleOf(k)
        /\ stage' = stage /\ answer' = answer
    BY <1>8, QuietStep DEF vars
  <2> QED
    BY <2>1 DEF Store!storeVars
<1> QED
  BY <1>1, <1>2, <1>3, <1>4, <1>5, <1>6, <1>7, <1>8 DEF Next, Compile

(* To its hosts the registry is a store whose handles are used once: a     *)
(* call answers from the policy its handle was issued for, or refuses      *)
(* (policy.zig:20-41, main.zig:143-210).                                   *)
THEOREM Implements == Spec => StoreImplemented
  BY InitInv, StepInv, InitRefines, StepRefines, PTL
  DEF Spec, StoreImplemented, Store!StoreSpec
=============================================================================
