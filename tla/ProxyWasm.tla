----------------------------- MODULE ProxyWasm -----------------------------
(***************************************************************************)
(* The proxy-wasm shim (proxy_wasm.zig) and the host that drives it.       *)
(* The host runs one callback at a time in a VM; configuration and the     *)
(* callbacks of several streams interleave.  A host call may fail in every *)
(* callback that makes one.  The host side is external: it is modelled     *)
(* from the actions the shim returns and what its comments say the host    *)
(* does with them.                                                         *)
(***************************************************************************)
EXTENDS Integers, Targets

CONSTANTS
  Streams,     \* stream contexts the host has open
  Arenas,      \* where compilePolicy can build
  Documents,   \* what an operator may configure
  NoPolicy,    \* compiled_policy = null
  NoArena,     \* policy_arena = null
  MaxBody,     \* max_body_bytes, in chunks
  MaxLength    \* bound: the longest body the host delivers

ASSUME BodyAssumption ==
  /\ MaxBody \in Nat
  /\ MaxLength \in Nat

(* Null is no document and no arena, and every rule has a dependency class.*)
ASSUME DocumentAssumption ==
  /\ NoPolicy \notin Documents
  /\ \A d \in Documents : \A r \in d.rules : r.reads \in Classes

ASSUME ArenaAssumption == NoArena \notin Arenas

VARIABLES
  plugin,      \* the shim's globals
  live,        \* the arenas that are allocated
  job,         \* the configure callback under way
  streams,     \* the host's view of each stream
  event        \* the last phase decided

vars == <<plugin, live, job, streams, event>>

-----------------------------------------------------------------------------
(* State.                                                                  *)

Unconfigured ==
  [arena |-> NoArena, policy |-> NoPolicy,
   request |-> {}, body |-> {}, response |-> {},
   has_allow_body |-> FALSE, has_allow_response |-> FALSE,
   body_class |-> "no_body_refs"]

NoJob == [arena |-> NoArena, policy |-> NoPolicy]

(* stage     how far the host got: open once the request phase passed,     *)
(*           sent upstream whole, answered by a local response, stalled    *)
(*           when iteration stopped and the host would not send the local  *)
(*           response, stranded when none was asked for, overrun when      *)
(*           iteration went on all the same                                *)
(* held      chunks the host buffers until their body is decided           *)
(* passed    chunks already forwarded upstream                             *)
(* steady    the policy has not changed since the body began               *)
(* response  what became of the response: upstream's, replaced by a local  *)
(*           one, or undenied when the host would not send that            *)
(* denied    history: the sides of the stream that a phase denied          *)
NewStream ==
  [stage |-> "new", held |-> 0, passed |-> 0, steady |-> TRUE, response |-> "none",
   denied |-> {}]

(* policy    the policy that decided                                       *)
(* fault     what went wrong while the input was gathered                  *)
(* targets   the targets of the phase, verdicts what each rule came to     *)
(* size      what the host showed of the body; whole: nothing went ahead   *)
NoEvent ==
  [stream |-> "none", phase |-> "none", policy |-> NoPolicy, fault |-> "none",
   targets |-> {}, verdicts |-> << >>, size |-> 0, whole |-> TRUE, steady |-> TRUE,
   passed |-> TRUE]

Init ==
  /\ plugin = Unconfigured
  /\ live = {}
  /\ job = NoJob
  /\ streams = [s \in Streams |-> NewStream]
  /\ event = NoEvent

Idle == job = NoJob

-----------------------------------------------------------------------------
(* proxy_on_configure and compilePolicy.                                   *)

(* A configure that fails before compilePolicy -- no configuration, or one *)
(* the host will not hand over -- changes nothing: a stuttering step.      *)

(* compilePolicy builds the replacement on an arena of its own.            *)
BeginCompile ==
  /\ Idle
  /\ \E d \in Documents, a \in Arenas \ live :
       /\ live' = live \cup {a}
       /\ job' = [arena |-> a, policy |-> d]
  /\ UNCHANGED <<plugin, streams, event>>

(* Mutant: the errdefer this function cannot use; the new arena leaks.     *)
MutantRejectLeaks ==
  /\ ~Idle
  /\ job' = NoJob
  /\ UNCHANGED <<plugin, live, streams, event>>

(* Any step before the swap fails, or memory runs out: the deferred deinit *)
(* drops the new arena and the loaded policy is untouched.                 *)
RejectPolicy ==
  /\ ~Idle
  /\ live' = live \ {job.arena}
  /\ job' = NoJob
  /\ UNCHANGED <<plugin, streams, event>>

(* Mutant: only the implicit package's allow_body is asked.                *)
MutantBodyClassImplicit(d) ==
  AnalyzeTarget(d, Target(ImplicitPackage, DefaultRule["body"], TRUE))

(* The truncation class: over the enforcing body targets only.             *)
BodyClass(d) ==
  Join({AnalyzeTarget(d, t) : t \in {x \in Build(d, "body") : x.enforce}})

(* Mutant: a phase, once on, stays on across a reconfigure.                *)
MutantAdoptedSticky(d, a) ==
  [arena |-> a, policy |-> d,
   request |-> Build(d, "request"),
   body |-> IF Build(d, "body") = {} THEN plugin.body ELSE Build(d, "body"),
   response |-> Build(d, "response"),
   has_allow_body |-> plugin.has_allow_body \/ Build(d, "body") # {},
   has_allow_response |-> Build(d, "response") # {},
   body_class |-> BodyClass(d)]

(* Mutant: the body phase is on if any package has an allow_body.          *)
MutantAdoptedScan(d, a) ==
  [arena |-> a, policy |-> d,
   request |-> Build(d, "request"), body |-> Build(d, "body"), response |-> Build(d, "response"),
   has_allow_body |-> \E r \in d.rules : r.name = DefaultRule["body"],
   has_allow_response |-> Build(d, "response") # {},
   body_class |-> BodyClass(d)]

(* The globals after the swap; every one is replaced.                      *)
Adopted(d, a) ==
  [arena |-> a, policy |-> d,
   request |-> Build(d, "request"), body |-> Build(d, "body"), response |-> Build(d, "response"),
   has_allow_body |-> Build(d, "body") # {},
   has_allow_response |-> Build(d, "response") # {},
   body_class |-> BodyClass(d)]

(* Host side: a body under way is no longer decided by the policy it began *)
(* under.                                                                  *)
Unsettle(st) == IF st.held + st.passed > 0 THEN [st EXCEPT !.steady = FALSE] ELSE st

AdoptPolicy ==
  /\ ~Idle
  /\ job.policy.builds /\ ShapeOK(job.policy) /\ BuildOK(job.policy)
  /\ live' = live \ {plugin.arena}
  /\ plugin' = Adopted(job.policy, job.arena)
  /\ job' = NoJob
  /\ streams' = [s \in Streams |-> Unsettle(streams[s])]
  /\ UNCHANGED event

-----------------------------------------------------------------------------
(* Evaluating a phase.                                                     *)

(* What can go wrong while a phase gathers its input: the value of a       *)
(* pseudo-header, the header map, the body buffer, or building and parsing *)
(* the synthesised input.                                                  *)
HeaderFaults == {"none", "header_value", "header_map", "input"}
BodyFaults(size) == {"none", "input"} \cup (IF size > 0 THEN {"body_bytes"} ELSE {})

(* evaluateRequest, evaluateBody, evaluateResponse return false on these.  *)
(* A pseudo-header the host would not give reads as a missing one.         *)
Fatal == {"header_map", "body_bytes", "input"}

(* What the targets can come to on one input: a rule the policy does not   *)
(* define denies.                                                          *)
PairOf(t) == <<t.package, t.rule>>

VerdictsOn(targets) ==
  {v \in [{PairOf(t) : t \in targets} -> {"allow", "deny", "error"}] :
     \A t \in targets : RuleExists(plugin.policy, t.package, t.rule) \/ v[PairOf(t)] = "deny"}

(* decideTargets: every target is evaluated; the enforcing ones must all   *)
(* allow, an advisory one cannot block.                                    *)
DecideTargets(targets, verdicts) ==
  \A t \in targets : t.enforce => verdicts[PairOf(t)] = "allow"

(* The outcome of a phase; the body callback adds what it saw of the body. *)
Decision(s, phase, fault, targets, verdicts, passed) ==
  [stream |-> s, phase |-> phase, policy |-> plugin.policy, fault |-> fault,
   targets |-> targets, verdicts |-> verdicts, size |-> 0, whole |-> TRUE, steady |-> TRUE,
   passed |-> passed]

(* A phase the shim skips passes without looking at anything.              *)
Skipped(s, phase) == Decision(s, phase, "none", {}, << >>, TRUE)

(* A phase refused before any rule runs.                                   *)
Refused(s, phase, targets) == Decision(s, phase, "none", targets, << >>, FALSE)

(* A phase evaluated: its input gathered, then every target decided.       *)
Evaluations(s, phase, targets, faults) ==
  {Decision(s, phase, f, targets, << >>, FALSE) : f \in faults \cap Fatal}
    \cup
  {Decision(s, phase, f, targets, v, DecideTargets(targets, v)) :
     f \in faults \ Fatal, v \in VerdictsOn(targets)}

-----------------------------------------------------------------------------
(* What a callback hands back: whether iteration continues, and the status *)
(* of the local response it asked for (0: none).                           *)
Return(action, status) == [action |-> action, status |-> status]

(* Mutant: a deny that lets iteration go on.                               *)
MutantDeniedContinues == Return("continue", 403)

Allowed == Return("continue", 0)
RequestDenied == Return("pause", 403)
ResponseDenied == Return("continue", 503)

(* denyWithStatus discards what proxy_send_local_response returns: whether *)
(* the host sent the response or refused makes no difference to the shim.  *)
Deliveries == BOOLEAN

(* What the host makes of it.  On the request side a local response ends   *)
(* the stream and iteration must stop with it; a stream that is stopped    *)
(* stays so, and is called back for its request no more.  On the response  *)
(* side the local response takes the place of the response and iteration   *)
(* must go on.                                                             *)
RequestStage(r, delivered, next) ==
  CASE r.action = "continue" /\ r.status = 0 -> next
    [] r.action = "continue" /\ r.status # 0 -> "overrun"
    [] r.action = "pause" /\ r.status = 0 -> "stranded"
    [] r.action = "pause" /\ r.status # 0 -> IF delivered THEN "answered" ELSE "stalled"

ResponseFate(r, delivered) ==
  CASE r.action = "pause" -> "stranded"
    [] r.action = "continue" /\ r.status = 0 -> "upstream"
    [] r.action = "continue" /\ r.status # 0 -> IF delivered THEN "replaced" ELSE "undenied"

Denials(st, side, passed) == IF passed THEN st.denied ELSE st.denied \cup {side}

(* The stream after a callback on either side of it.                       *)
AfterRequest(st, passed, delivered, next) ==
  [st EXCEPT !.stage = RequestStage(IF passed THEN Allowed ELSE RequestDenied, delivered, next),
             !.held = 0,
             !.denied = Denials(st, "request", passed)]

AfterResponse(st, passed, delivered) ==
  [st EXCEPT !.response = ResponseFate(IF passed THEN Allowed ELSE ResponseDenied, delivered),
             !.denied = Denials(st, "response", passed)]

-----------------------------------------------------------------------------
(* proxy_on_request_headers                                                *)
RequestDecisions(s) ==
  IF plugin.policy = NoPolicy
    THEN {Refused(s, "request", {})}
    ELSE Evaluations(s, "request", plugin.request, HeaderFaults)

RequestHeaders(s) ==
  /\ Idle
  /\ streams[s].stage = "new"
  /\ event' \in RequestDecisions(s)
  /\ \E delivered \in Deliveries :
       streams' = [streams EXCEPT ![s] =
         AfterRequest(streams[s], event'.passed, delivered, "open")]
  /\ UNCHANGED <<plugin, live, job>>

(* Mutant: chunks are forwarded as they arrive.                            *)
MutantNeverBuffering == FALSE

(* proxy_on_request_body before end of stream: hold the body if a rule     *)
(* will want it, forward it otherwise.                                     *)
Buffering == plugin.has_allow_body

Hold(st) == [st EXCEPT !.held = st.held + 1]

Forward(st) == [st EXCEPT !.held = 0, !.passed = st.passed + st.held + 1]

BodyChunk(s) ==
  /\ Idle
  /\ streams[s].stage = "open"
  /\ streams[s].held + streams[s].passed < MaxLength
  /\ streams' = [streams EXCEPT ![s] =
       IF Buffering THEN Hold(streams[s]) ELSE Forward(streams[s])]
  /\ UNCHANGED <<plugin, live, job, event>>

(* proxy_on_request_body at end of stream: `size` is what the host shows.  *)
Truncated(size) == size > MaxBody

BodyDecisions(s, size) ==
  IF ~plugin.has_allow_body
    THEN {Skipped(s, "body")}
  ELSE IF plugin.policy = NoPolicy \/ (Truncated(size) /\ plugin.body_class # "no_body_refs")
    THEN {Refused(s, "body", plugin.body)}
  ELSE Evaluations(s, "body", plugin.body, BodyFaults(size))

(* Host side: what it showed of the body, and whether it was all of it.    *)
WithBody(e, size, st) ==
  [e EXCEPT !.size = size, !.whole = st.passed = 0, !.steady = st.steady]

BodyEnd(s, last) ==
  /\ Idle
  /\ streams[s].stage = "open"
  /\ streams[s].held + streams[s].passed + last <= MaxLength
  /\ LET size == streams[s].held + last
     IN  \E e \in BodyDecisions(s, size) : event' = WithBody(e, size, streams[s])
  /\ \E delivered \in Deliveries :
       streams' = [streams EXCEPT ![s] =
         AfterRequest(streams[s], event'.passed, delivered, "sent")]
  /\ UNCHANGED <<plugin, live, job>>

(* proxy_on_response_headers: a deny replaces the response, and iteration  *)
(* continues either way.  The host also runs it for its local responses,   *)
(* its timeout of a stalled stream among them, and an upstream may answer  *)
(* before the body is complete.                                            *)
ResponseDecisions(s) ==
  IF ~plugin.has_allow_response
    THEN {Skipped(s, "response")}
  ELSE IF plugin.policy = NoPolicy
    THEN {Refused(s, "response", {})}
  ELSE Evaluations(s, "response", plugin.response, HeaderFaults)

ResponseHeaders(s) ==
  /\ Idle
  /\ streams[s].stage \in {"open", "sent", "answered", "stalled"}
  /\ streams[s].response = "none"
  /\ event' \in ResponseDecisions(s)
  /\ \E delivered \in Deliveries :
       streams' = [streams EXCEPT ![s] = AfterResponse(streams[s], event'.passed, delivered)]
  /\ UNCHANGED <<plugin, live, job>>

(* proxy_on_done, or the client went away: the context is gone.            *)
StreamDone(s) ==
  /\ Idle
  /\ streams[s].stage # "new"
  /\ streams' = [streams EXCEPT ![s] = NewStream]
  /\ UNCHANGED <<plugin, live, job, event>>

-----------------------------------------------------------------------------
Configure ==
  \/ BeginCompile
  \/ RejectPolicy
  \/ AdoptPolicy

Callback(s) ==
  \/ RequestHeaders(s)
  \/ BodyChunk(s)
  \/ \E last \in {0, 1} : BodyEnd(s, last)
  \/ ResponseHeaders(s)
  \/ StreamDone(s)

Next == Configure \/ \E s \in Streams : Callback(s)

Spec == Init /\ [][Next]_vars

-----------------------------------------------------------------------------
(* Properties.                                                             *)

TypeOK ==
  /\ plugin.arena \in Arenas \cup {NoArena}
  /\ plugin.policy \in Documents \cup {NoPolicy}
  /\ plugin.has_allow_body \in BOOLEAN /\ plugin.has_allow_response \in BOOLEAN
  /\ plugin.has_allow_body <=> plugin.body # {}
  /\ plugin.has_allow_response <=> plugin.response # {}
  /\ plugin.body_class \in Classes
  /\ live \subseteq Arenas
  /\ job = NoJob \/ job \in [arena : Arenas, policy : Documents]
  /\ \A s \in Streams :
       streams[s] \in
         [stage : {"new", "open", "sent", "answered", "stalled", "stranded", "overrun"},
          held : 0 .. MaxLength, passed : 0 .. MaxLength, steady : BOOLEAN,
          response : {"none", "upstream", "replaced", "undenied", "stranded"},
          denied : SUBSET {"request", "response"}]
  /\ event.phase \in Phases \cup {"none"}

(* Between callbacks exactly the arena of the policy in force is           *)
(* allocated: a rejected replacement leaks nothing, an adopted one frees   *)
(* its predecessor, and the loaded policy is never freed under the shim    *)
(* (proxy_wasm.zig:229-241, 284-286).                                      *)
PolicyArenaOwned ==
  /\ live = {plugin.arena, job.arena} \ {NoArena}
  /\ plugin.arena = job.arena => live = {}
  /\ plugin.policy = NoPolicy <=> plugin.arena = NoArena

(* No request passes unasked: behind every request that is let through     *)
(* there is an enforcing rule, one the policy defines, that allowed it     *)
(* (targets.zig:141-153; proxy_wasm.zig:343-358).                          *)
NothingPassesUnasked ==
  event.phase = "request" /\ event.passed =>
    \E t \in event.targets : /\ t.enforce
                             /\ RuleExists(event.policy, t.package, t.rule)
                             /\ event.verdicts[PairOf(t)] = "allow"

(* No rule meant for a phase is left out of it: whatever a targets block   *)
(* names is evaluated as named, and without one a body or response rule    *)
(* anywhere in the policy means the phase runs (targets.zig:35-40,179-186).*)
NoRuleIgnored ==
  plugin.policy # NoPolicy =>
    /\ plugin.policy.targets # Absent =>
         \A e \in plugin.policy.targets :
           \E phase \in Phases : e.phase = phase /\ TargetOf(e) \in plugin[phase]
    /\ plugin.policy.targets = Absent =>
         \A phase \in {"body", "response"} :
           (\E r \in plugin.policy.rules : r.name = DefaultRule[phase])
             => Target(ImplicitPackage, DefaultRule[phase], TRUE) \in plugin[phase]

(* A body larger than the buffer never gets past an enforcing rule that    *)
(* reads bodies, in whatever package the rule is (proxy_wasm.zig:300-304). *)
TruncatedNeverDecides ==
  event.phase = "body" /\ event.passed /\ Truncated(event.size) =>
    \A t \in event.targets : t.enforce => AnalyzeTarget(event.policy, t) = "no_body_refs"

(* The body a rule decides on is the body the upstream would get: no chunk *)
(* went ahead of the decision, unless the policy was replaced meanwhile    *)
(* (proxy_wasm.zig:371-378).                                               *)
BodyDecidedWhole ==
  event.phase = "body" /\ event.targets # {} /\ event.steady => event.whole

(* Nothing of a denied request goes on, not even when the host would not   *)
(* send the answer: it then stays stopped.  Only a denial stops a stream,  *)
(* each with an answer asked for, none lets iteration go on behind it, no  *)
(* response is held back, and a response is let through that was denied    *)
(* only where the host refused the one to replace it (proxy_wasm.zig:334,  *)
(* 421-425, 666-677).                                                      *)
IterationSound ==
  \A s \in Streams :
    LET st == streams[s] IN
    /\ st.stage \notin {"stranded", "overrun"} /\ st.response # "stranded"
    /\ "request" \in st.denied <=> st.stage \in {"answered", "stalled"}
    /\ "response" \in st.denied <=> st.response \in {"replaced", "undenied"}

(* The shim, with all it caches of the configuration, decides as the gate  *)
(* the configuration describes.                                            *)
Gate == INSTANCE AuthzGate WITH policy <- plugin.policy, outcome <- event

GateImplemented == Gate!GateSpec

-----------------------------------------------------------------------------
(* What the documentation says beyond that.                                *)

(* docs/proxy-wasm.md, failure modes: a host call that fails denies.       *)
HostErrorDenies == event.fault # "none" => ~event.passed

(* docs/proxy-wasm.md, targets: an advisory target never blocks.           *)
AdvisoryNeverBlocks ==
  event.policy # NoPolicy /\ ~event.passed => \E t \in event.targets : t.enforce
=============================================================================
