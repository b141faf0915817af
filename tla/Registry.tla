------------------------------ MODULE Registry ------------------------------
(***************************************************************************)
(* The registry of compiled policies (policy.zig) behind the compiled-     *)
(* policy exports of main.zig.  A compile is several steps because each of *)
(* its calls can fail and hand over to the errdefer chain; release and     *)
(* evaluate are single calls.  wasm runs one call at a time, so the other  *)
(* calls wait for a compile to return.                                     *)
(***************************************************************************)
EXTENDS Integers, Sequences, FiniteSets

CONSTANTS
  IndexSpan,       \* 2^index_bits
  GenerationSpan,  \* 2^(31 - index_bits)
  Addresses,       \* where the allocator can place an Entry
  NoEntry,         \* the null ?*Entry
  Unused,          \* heap content: not allocated
  Blank,           \* heap content: an Entry whose arena is live, no bundle yet
  Documents,       \* what a host may hand to policy_compile
  WellFormed,      \* the documents that parse and build
  HostValues       \* the i32 values a host may pass as a handle

ASSUME SpanAssumption ==
  /\ IndexSpan \in Nat /\ IndexSpan > 1
  /\ GenerationSpan \in Nat /\ GenerationSpan > 1

ASSUME ValueAssumption ==
  /\ NoEntry \notin Addresses
  /\ Unused \notin Documents
  /\ Blank \notin Documents \cup {Unused}
  /\ WellFormed \subseteq Documents
  /\ HostValues \subseteq Int

VARIABLES
  slots,     \* the slot table
  heap,      \* what each address holds: an Entry's bundle, or nothing
  stage,     \* how far the running compile got; "closed" after deinit
  building,  \* the Entry the running compile has allocated
  answer     \* the last export to return, and what it returned

vars == <<slots, heap, stage, building, answer>>

(* Mutant: one slot more than the low bits can number.                     *)
MutantMaxSlots == IndexSpan
MaxSlots == IndexSpan - 1
MaxGeneration == GenerationSpan - 1

(* Every positive i32.                                                     *)
HandleValues == 1 .. IndexSpan * GenerationSpan - 1

(* encode: the generation above, the 1-based slot number below.            *)
Encode(i, generation) == generation * IndexSpan + i
IndexOf(h) == h % IndexSpan
GenerationOf(h) == h \div IndexSpan

(* Mutant: a bare table index, without the generation.                     *)
MutantResolves(h) ==
  /\ h > 0
  /\ IndexOf(h) \in 1 .. Len(slots)
  /\ slots[IndexOf(h)].entry # NoEntry

(* lookup: h names the exact policy it was issued for.                     *)
Resolves(h) ==
  /\ h > 0
  /\ IndexOf(h) \in 1 .. Len(slots)
  /\ slots[IndexOf(h)].generation = GenerationOf(h)
  /\ slots[IndexOf(h)].entry # NoEntry

BundleOf(h) == heap[slots[IndexOf(h)].entry]

Refused == "refused"
Done == "done"

Answer(call, handle, result) ==
  [call |-> call, handle |-> handle, result |-> result]

Slot == [entry : Addresses \cup {NoEntry}, generation : 1 .. MaxGeneration]

TypeOK ==
  /\ slots \in Seq(Slot)
  /\ Len(slots) <= MaxSlots
  /\ heap \in [Addresses -> Documents \cup {Unused, Blank}]
  /\ stage \in {"idle", "created", "built", "closed"}
  /\ building \in Addresses \cup {NoEntry}
  /\ answer \in [call : {"none", "compile", "evaluate", "release"},
                 handle : Int,
                 result : WellFormed \cup {Refused, Done}]

Init ==
  /\ slots = << >>
  /\ heap = [a \in Addresses |-> Unused]
  /\ stage = "idle"
  /\ building = NoEntry
  /\ answer = Answer("none", 0, Done)

-----------------------------------------------------------------------------
(* compile: allocate the Entry and give it an arena.                       *)
CreateEntry ==
  /\ stage = "idle"
  /\ \E a \in Addresses :
       /\ heap[a] = Unused
       /\ heap' = [heap EXCEPT ![a] = Blank]
       /\ building' = a
  /\ stage' = "created"
  /\ UNCHANGED <<slots, answer>>

(* compile: gpa.create fails before anything needs undoing.                *)
CreateFails ==
  /\ stage = "idle"
  /\ answer' = Answer("compile", -1, Refused)
  /\ UNCHANGED <<slots, heap, stage, building>>

(* compile: dupe, parse and build succeed on the entry's arena.            *)
BuildBundle(d) ==
  /\ stage = "created"
  /\ d \in WellFormed
  /\ heap' = [heap EXCEPT ![building] = d]
  /\ stage' = "built"
  /\ UNCHANGED <<slots, building, answer>>

(* The errdefer chain: arena deinit, destroy, and -1 to the host.          *)
Unwind ==
  /\ heap' = [heap EXCEPT ![building] = Unused]
  /\ building' = NoEntry
  /\ stage' = "idle"
  /\ answer' = Answer("compile", -1, Refused)
  /\ UNCHANGED slots

(* Mutant: without the errdefer the entry stays allocated.                 *)
MutantBuildFails ==
  /\ stage = "created"
  /\ building' = NoEntry
  /\ stage' = "idle"
  /\ answer' = Answer("compile", -1, Refused)
  /\ UNCHANGED <<slots, heap>>

(* compile: the copy, the parse or the build fails.                        *)
BuildFails ==
  /\ stage = "created"
  /\ Unwind

(* Mutant: a slot is never retired.                                        *)
MutantReusable(i) == slots[i].entry = NoEntry

(* A free slot is reused only while its generation can advance.            *)
Reusable(i) ==
  /\ slots[i].entry = NoEntry
  /\ slots[i].generation < MaxGeneration

(* compile's last step: install succeeded, the handle goes to the host.    *)
Return(h) ==
  /\ answer' = Answer("compile", h, heap[building])
  /\ building' = NoEntry
  /\ stage' = "idle"
  /\ UNCHANGED heap

(* install: the first reusable slot, one generation on.                    *)
ReuseSlot(i) ==
  /\ stage = "built"
  /\ Reusable(i)
  /\ \A j \in 1 .. i - 1 : ~Reusable(j)
  /\ slots' = [slots EXCEPT ![i] = [entry |-> building,
                                    generation |-> slots[i].generation + 1]]
  /\ Return(Encode(i, slots[i].generation + 1))

(* install: no reusable slot, the table grows.                             *)
AppendSlot ==
  /\ stage = "built"
  /\ \A i \in DOMAIN slots : ~Reusable(i)
  /\ Len(slots) < MaxSlots
  /\ slots' = Append(slots, [entry |-> building, generation |-> 1])
  /\ Return(Encode(Len(slots) + 1, 1))

(* install: the table is full, or growing it ran out of memory.            *)
InstallFails ==
  /\ stage = "built"
  /\ \A i \in DOMAIN slots : ~Reusable(i)
  /\ Unwind

(* Mutant: the entry is freed but the slot still points at it.             *)
MutantRelease(h) ==
  /\ stage = "idle"
  /\ Resolves(h)
  /\ heap' = [heap EXCEPT ![slots[IndexOf(h)].entry] = Unused]
  /\ answer' = Answer("release", h, Done)
  /\ UNCHANGED <<slots, stage, building>>

(* policy_release and release: deinit the arena, empty the slot; the       *)
(* generation stays.  Anything that does not resolve is a reported no-op.  *)
Release(h) ==
  /\ stage = "idle"
  /\ Resolves(h)
  /\ heap' = [heap EXCEPT ![slots[IndexOf(h)].entry] = Unused]
  /\ slots' = [slots EXCEPT ![IndexOf(h)].entry = NoEntry]
  /\ answer' = Answer("release", h, Done)
  /\ UNCHANGED <<stage, building>>

ReleaseRefused(h) ==
  /\ stage = "idle"
  /\ ~Resolves(h)
  /\ answer' = Answer("release", h, Refused)
  /\ UNCHANGED <<slots, heap, stage, building>>

(* evaluate_compiled(_addressed): decide under the policy h names.         *)
Evaluate(h) ==
  /\ stage = "idle"
  /\ Resolves(h)
  /\ answer' = Answer("evaluate", h, BundleOf(h))
  /\ UNCHANGED <<slots, heap, stage, building>>

(* -1: the handle does not resolve, or the input or the evaluation failed. *)
EvaluateFails(h) ==
  /\ stage = "idle"
  /\ answer' = Answer("evaluate", h, Refused)
  /\ UNCHANGED <<slots, heap, stage, building>>

(* deinit: what a native embedder calls last.                              *)
Deinit ==
  /\ stage = "idle"
  /\ heap' = [a \in Addresses |->
                IF \E i \in DOMAIN slots : slots[i].entry = a THEN Unused ELSE heap[a]]
  /\ slots' = << >>
  /\ stage' = "closed"
  /\ UNCHANGED <<building, answer>>

Compile ==
  \/ CreateEntry
  \/ CreateFails
  \/ \E d \in Documents : BuildBundle(d)
  \/ BuildFails
  \/ \E i \in DOMAIN slots : ReuseSlot(i)
  \/ AppendSlot
  \/ InstallFails

Next ==
  \/ Compile
  \/ \E h \in HostValues : \/ Release(h)
                           \/ ReleaseRefused(h)
                           \/ Evaluate(h)
                           \/ EvaluateFails(h)
  \/ Deinit

Spec == Init /\ [][Next]_vars
-----------------------------------------------------------------------------
(* The live handles, and every handle issued so far: slot i has issued one *)
(* handle for each of its generations.                                     *)
Live == {h \in HandleValues : Resolves(h)}

Issued ==
  {h \in HandleValues : /\ IndexOf(h) \in 1 .. Len(slots)
                        /\ GenerationOf(h) \in 1 .. slots[IndexOf(h)].generation}

Held == {i \in DOMAIN slots : slots[i].entry # NoEntry}

(* Every allocated Entry has exactly one owner, a slot or the compile that *)
(* is building it, and an occupied slot holds a bundle that built: no      *)
(* failure path of compile leaks (policy.zig:102,105), no slot dangles     *)
(* after a release, no two slots free the same arena.                      *)
EntriesOwned ==
  /\ \A i \in Held : heap[slots[i].entry] \in WellFormed
  /\ \A i, j \in Held : slots[i].entry = slots[j].entry => i = j
  /\ \A i \in Held : slots[i].entry # building
  /\ \A a \in Addresses :
       heap[a] # Unused => a = building \/ \E i \in Held : slots[i].entry = a
  /\ stage \in {"idle", "closed"} => building = NoEntry
  /\ stage = "created" => building # NoEntry /\ heap[building] = Blank
  /\ stage = "built" => building # NoEntry /\ heap[building] \in WellFormed

(* A handle that has stopped naming a policy never names one again, even   *)
(* though its slot is reused (policy.zig:28-39).                           *)
StaleStaysStale ==
  [][stage' # "closed" => \A h \in Issued \ Live : h \notin Live']_vars

(* While a handle is live it keeps naming the policy it was issued for,    *)
(* whatever the allocator does with freed addresses (policy.zig:136-145).  *)
HandleKeepsPolicy ==
  [][\A h \in Live : h \in Live' => BundleOf(h)' = BundleOf(h)]_vars

(* The registry implements the store: its handles behave as if each were   *)
(* used once, for one policy.                                              *)
Store == INSTANCE PolicyStore WITH
  Handles <- HandleValues,
  Policies <- WellFormed,
  open <- stage # "closed",
  bound <- [h \in Live |-> BundleOf(h)],
  spent <- Issued

StoreImplemented == Store!StoreSpec
=============================================================================
