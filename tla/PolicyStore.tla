---------------------------- MODULE PolicyStore ----------------------------
(***************************************************************************)
(* What policy.zig promises a host that holds compiled policies: a handle  *)
(* names one policy from the moment it is issued until it is released, and *)
(* never again names anything (policy.zig:20-41).  The store says nothing  *)
(* of slots, generations or allocations: Registry.tla implements it.       *)
(***************************************************************************)
EXTENDS Integers, FiniteSets

CONSTANTS
  Handles,      \* the handles a store may issue
  HostValues,   \* the i32 values a host may pass where a handle is expected
  Policies      \* the documents that build into a policy

VARIABLES
  open,         \* FALSE once the store has been dropped
  bound,        \* the live handles, each with the policy it names
  spent,        \* every handle ever issued
  answer        \* the last call to return, and what it returned

storeVars == <<open, bound, spent, answer>>

(* -1 from policy_compile, 0 from policy_release, -1 from an evaluation.   *)
Refused == "refused"
Done == "done"

Answer(call, handle, result) ==
  [call |-> call, handle |-> handle, result |-> result]

StoreInit ==
  /\ open = TRUE
  /\ bound = << >>
  /\ spent = {}
  /\ answer = Answer("none", 0, Done)

(* A compile issues a handle no host has ever held.                        *)
Issue(h, p) ==
  /\ open
  /\ h \notin spent
  /\ bound' = [g \in DOMAIN bound \cup {h} |-> IF g = h THEN p ELSE bound[g]]
  /\ spent' = spent \cup {h}
  /\ answer' = Answer("compile", h, p)
  /\ UNCHANGED open

(* A compile may fail; then nothing changed.                               *)
Reject ==
  /\ answer' = Answer("compile", -1, Refused)
  /\ UNCHANGED <<open, bound, spent>>

(* Exactly a live handle can be released; anything else is a no-op.        *)
Free(h) ==
  /\ bound' = [g \in DOMAIN bound \ {h} |-> bound[g]]
  /\ answer' = Answer("release", h, IF h \in DOMAIN bound THEN Done ELSE Refused)
  /\ UNCHANGED <<open, spent>>

(* A decision, when there is one, was made by the policy the handle names. *)
Decide(h) ==
  /\ \/ answer' = Answer("evaluate", h, Refused)
     \/ h \in DOMAIN bound /\ answer' = Answer("evaluate", h, bound[h])
  /\ UNCHANGED <<open, bound, spent>>

(* The store is dropped, and with it every handle it ever issued; no new   *)
(* handle follows.                                                         *)
Drop ==
  /\ open' = FALSE
  /\ bound' = << >>
  /\ spent' = {}
  /\ UNCHANGED answer

StoreNext ==
  \/ \E h \in Handles, p \in Policies : Issue(h, p)
  \/ Reject
  \/ \E h \in HostValues : Free(h) \/ Decide(h)
  \/ Drop

StoreSpec == StoreInit /\ [][StoreNext]_storeVars
=============================================================================
