-------------------------- MODULE ProxyWasmProofs --------------------------
(***************************************************************************)
(* Proofs about the proxy-wasm shim and its targets, for every set of      *)
(* configurations, streams and arenas, and every cap on the body.          *)
(***************************************************************************)
EXTENDS ProxyWasm, TLAPS

USE BodyAssumption, DocumentAssumption, ArenaAssumption

-----------------------------------------------------------------------------
(* The body analysis.                                                      *)

(* Joining classes gives a class, and the least one only if nothing above  *)
(* it went in (body_deps.zig).                                             *)
LEMMA JoinClass ==
  ASSUME NEW S \in SUBSET Classes
  PROVE  /\ Join(S) \in Classes
         /\ Join(S) = "no_body_refs" <=> \A c \in S : c = "no_body_refs"
  BY DEF Join, Classes

(* A target's class is the least one exactly when no rule of that name in  *)
(* that package reads the body.                                            *)
LEMMA TargetClass ==
  ASSUME NEW d \in Documents, NEW t
  PROVE  /\ AnalyzeTarget(d, t) \in Classes
         /\ AnalyzeTarget(d, t) = "no_body_refs" <=> ~Gate!ReadsBody(d, PairOf(t))
<1> DEFINE S == {r.reads : r \in {x \in d.rules : x.package = t.package /\ x.name = t.rule}}
<1>1. S \in SUBSET Classes
  OBVIOUS
<1>2. AnalyzeTarget(d, t) = Join(S)
  BY DEF AnalyzeTarget
<1>3. (\A c \in S : c = "no_body_refs") <=> ~Gate!ReadsBody(d, PairOf(t))
  BY DEF Gate!ReadsBody, PairOf
<1> QED
  BY <1>1, <1>2, <1>3, JoinClass

(* The truncation class speaks for every enforcing body target, and for    *)
(* nothing else (proxy_wasm.zig:300-312).                                  *)
LEMMA BodyClassClass ==
  ASSUME NEW d \in Documents
  PROVE  /\ BodyClass(d) \in Classes
         /\ BodyClass(d) = "no_body_refs" <=>
              \A t \in Build(d, "body") : t.enforce => AnalyzeTarget(d, t) = "no_body_refs"
<1> DEFINE S == {AnalyzeTarget(d, t) : t \in {x \in Build(d, "body") : x.enforce}}
<1>1. S \in SUBSET Classes
  BY TargetClass
<1>2. BodyClass(d) = Join(S)
  BY DEF BodyClass
<1> QED
  BY <1>1, <1>2, JoinClass

-----------------------------------------------------------------------------
(* The targets of a document.                                              *)

(* What compilePolicy accepts.                                             *)
Accepted(d) == d.builds /\ ShapeOK(d) /\ BuildOK(d)

(* The implicit package is the same one on both sides.                     *)
LEMMA SameImplicit == Gate!Implicit = ImplicitPackage
  BY Zenon DEF Gate!Implicit, ImplicitPackage

(* The targets of a phase are the rules the document names for it ...      *)
LEMMA TargetsEvaluated ==
  ASSUME NEW d, NEW phase \in Phases
  PROVE  {PairOf(t) : t \in Build(d, phase)} = Gate!Evaluated(d, phase)
<1>1. CASE d.targets # Absent
  <2>1. Build(d, phase) = {TargetOf(e) : e \in {x \in d.targets : x.phase = phase}}
    BY <1>1 DEF Build, ListedTargets
  <2>2. \A e : PairOf(TargetOf(e)) = Gate!Named(e)
    BY SameImplicit DEF PairOf, TargetOf, Target, Gate!Named, PackageOf
  <2>3. Gate!Evaluated(d, phase) = {Gate!Named(e) : e \in {x \in d.targets : x.phase = phase}}
    BY <1>1 DEF Gate!Evaluated
  <2> QED
    BY <2>1, <2>2, <2>3
<1>2. CASE d.targets = Absent
  <2>1. DefaultRule[phase] = Gate!PhaseRule(phase)
    BY DEF DefaultRule, Gate!PhaseRule, Phases
  <2> DEFINE t == Target(ImplicitPackage, DefaultRule[phase], TRUE)
             pair == <<ImplicitPackage, Gate!PhaseRule(phase)>>
             present == phase = "request" \/ RuleExists(d, ImplicitPackage, DefaultRule[phase])
  <2>2. PairOf(t) = pair /\ pair[1] = ImplicitPackage /\ pair[2] = Gate!PhaseRule(phase)
    BY <2>1 DEF PairOf, Target
  <2>3. present <=> phase = "request" \/ Gate!Defines(d, pair[1], pair[2])
    BY <2>1, <2>2 DEF RuleExists, Gate!Defines
  <2>4. Build(d, phase) = IF present THEN {t} ELSE {}
    BY <1>2 DEF Build, DefaultTargets
  <2>5. Gate!Evaluated(d, phase) = {r \in {pair} : phase = "request" \/ Gate!Defines(d, r[1], r[2])}
    BY <1>2, SameImplicit DEF Gate!Evaluated
  <2> HIDE DEF t, pair, present
  <2>6. CASE present
    <3>1. Build(d, phase) = {t}
      BY <2>4, <2>6
    <3>2. Gate!Evaluated(d, phase) = {pair}
      BY <2>3, <2>5, <2>6
    <3>3. {PairOf(x) : x \in {t}} = {PairOf(t)}
      OBVIOUS
    <3> QED
      BY <2>2, <3>1, <3>2, <3>3
  <2>7. CASE ~present
    <3>1. Build(d, phase) = {}
      BY <2>4, <2>7
    <3>2. Gate!Evaluated(d, phase) = {}
      BY <2>3, <2>5, <2>7
    <3> QED
      BY <3>1, <3>2
  <2> QED
    BY <2>6, <2>7
<1> QED
  BY <1>1, <1>2

(* ... and the enforcing ones those whose entry does not say "log".        *)
LEMMA TargetsEnforced ==
  ASSUME NEW d, NEW phase \in Phases
  PROVE  {PairOf(t) : t \in {x \in Build(d, phase) : x.enforce}} = Gate!Enforced(d, phase)
<1>1. CASE d.targets # Absent
  <2>1. Build(d, phase) = {TargetOf(e) : e \in {x \in d.targets : x.phase = phase}}
    BY <1>1 DEF Build, ListedTargets
  <2>2. \A e : PairOf(TargetOf(e)) = Gate!Named(e) /\ (TargetOf(e).enforce <=> e.on_deny # "log")
    BY SameImplicit DEF PairOf, TargetOf, Target, Gate!Named, PackageOf
  <2>3. Gate!Enforced(d, phase)
          = {Gate!Named(e) : e \in {x \in d.targets : x.phase = phase /\ x.on_deny # "log"}}
    BY <1>1 DEF Gate!Enforced
  <2> QED
    BY <2>1, <2>2, <2>3
<1>2. CASE d.targets = Absent
  <2>1. \A t \in Build(d, phase) : t.enforce
    BY <1>2 DEF Build, DefaultTargets, Target
  <2>2. {x \in Build(d, phase) : x.enforce} = Build(d, phase)
    BY <2>1
  <2>3. Gate!Enforced(d, phase) = Gate!Evaluated(d, phase)
    BY <1>2 DEF Gate!Enforced
  <2> QED
    BY <2>2, <2>3, TargetsEvaluated
<1> QED
  BY <1>1, <1>2

(* An accepted document has a target in the request phase that can deny    *)
(* (targets.zig:141-153).                                                  *)
LEMMA RequestGuarded ==
  ASSUME NEW d, Accepted(d)
  PROVE  \E t \in Build(d, "request") : t.enforce
<1>1. CASE d.targets = Absent
  <2>1. Build(d, "request") = {Target(ImplicitPackage, DefaultRule["request"], TRUE)}
    BY <1>1 DEF Build, DefaultTargets
  <2>2. Target(ImplicitPackage, DefaultRule["request"], TRUE).enforce
    BY DEF Target
  <2> QED
    BY <2>1, <2>2
<1>2. CASE d.targets # Absent
  BY <1>2 DEF Accepted, BuildOK, ListedOK, Build
<1> QED
  BY <1>1, <1>2

(* It evaluates only rules it defines, but for the default `allow`, which  *)
(* may be missing and then denies.                                         *)
LEMMA TargetsDefined ==
  ASSUME NEW d, Accepted(d), NEW phase \in Phases, NEW t \in Build(d, phase)
  PROVE  RuleExists(d, t.package, t.rule) \/ PairOf(t) = <<ImplicitPackage, "allow">>
<1>1. CASE d.targets = Absent
  <2>1. /\ t = Target(ImplicitPackage, DefaultRule[phase], TRUE)
        /\ phase = "request" \/ RuleExists(d, ImplicitPackage, DefaultRule[phase])
    BY <1>1 DEF Build, DefaultTargets
  <2>2. t.package = ImplicitPackage /\ t.rule = DefaultRule[phase]
    BY <2>1 DEF Target
  <2>3. DefaultRule["request"] = "allow"
    BY DEF DefaultRule
  <2> QED
    BY <2>1, <2>2, <2>3 DEF PairOf
<1>2. CASE d.targets # Absent
  <2>1. PICK e \in d.targets : e.phase = phase /\ t = TargetOf(e)
    BY <1>2 DEF Build, ListedTargets
  <2>2. t.package = PackageOf(e) /\ t.rule = e.rule
    BY <2>1 DEF TargetOf, Target
  <2>3. EntryOK(d, e)
    BY <1>2, <2>1 DEF Accepted, BuildOK, ListedOK
  <2> QED
    BY <2>2, <2>3 DEF EntryOK
<1> QED
  BY <1>1, <1>2

(* What is accepted is what the abstract gate can have in force.           *)
LEMMA AcceptedCoherent ==
  ASSUME NEW d, Accepted(d)
  PROVE  Gate!Coherent(d)
<1>1. d.builds /\ (d.targets # Absent => d.wrapped)
  BY DEF Accepted, ShapeOK
<1>2. ASSUME NEW phase \in Phases, NEW rule \in Gate!Enforced(d, phase)
      PROVE  Gate!Defines(d, rule[1], rule[2]) \/ rule = <<Gate!Implicit, "allow">>
  <2>1. PICK t \in Build(d, phase) : rule = PairOf(t)
    BY TargetsEnforced
  <2>2. RuleExists(d, t.package, t.rule) \/ PairOf(t) = <<ImplicitPackage, "allow">>
    BY TargetsDefined
  <2>3. rule[1] = t.package /\ rule[2] = t.rule
    BY <2>1 DEF PairOf
  <2> QED
    BY <2>1, <2>2, <2>3, SameImplicit DEF RuleExists, Gate!Defines
<1>3. Gate!Enforced(d, "request") # {}
  <2>1. PICK t \in Build(d, "request") : t.enforce
    BY RequestGuarded
  <2>2. "request" \in Phases
    BY DEF Phases
  <2> QED
    BY <2>1, <2>2, TargetsEnforced
<1> QED
  BY <1>1, <1>2, <1>3 DEF Gate!Coherent, Phases

-----------------------------------------------------------------------------
(* The globals: between callbacks they are all of one document's, or none  *)
(* is set.                                                                 *)

PluginInv ==
  \/ plugin = Unconfigured
  \/ /\ plugin.policy \in Documents
     /\ plugin.arena \in Arenas
     /\ Accepted(plugin.policy)
     /\ plugin = Adopted(plugin.policy, plugin.arena)

JobOK == job = NoJob \/ job \in [arena : Arenas, policy : Documents]

ArenaInv == JobOK /\ live \subseteq Arenas /\ PolicyArenaOwned

PolicyInv == PluginInv /\ ArenaInv

(* A configuration in force, spelled out.                                  *)
LEMMA InForce ==
  ASSUME PluginInv, plugin.policy # NoPolicy
  PROVE  /\ plugin.policy \in Documents
         /\ plugin.arena \in Arenas
         /\ Accepted(plugin.policy)
         /\ plugin.request = Build(plugin.policy, "request")
         /\ plugin.body = Build(plugin.policy, "body")
         /\ plugin.response = Build(plugin.policy, "response")
         /\ plugin.has_allow_body = (plugin.body # {})
         /\ plugin.has_allow_response = (plugin.response # {})
         /\ plugin.body_class = BodyClass(plugin.policy)
<1>1. plugin # Unconfigured
  BY DEF Unconfigured
<1> QED
  BY <1>1 DEF PluginInv, Adopted

(* No configuration, spelled out.                                          *)
LEMMA NoneInForce ==
  ASSUME PluginInv, plugin.policy = NoPolicy
  PROVE  plugin = Unconfigured
  BY DEF PluginInv

(* What the swap leaves.                                                   *)
LEMMA AdoptedFields ==
  ASSUME JobOK, AdoptPolicy
  PROVE  /\ job \in [arena : Arenas, policy : Documents]
         /\ Accepted(job.policy)
         /\ plugin'.arena = job.arena
         /\ plugin'.policy = job.policy
         /\ plugin' = Adopted(job.policy, job.arena)
  BY DEF JobOK, AdoptPolicy, Idle, Adopted, Accepted

LEMMA PolicyInit == Init => PolicyInv
  BY DEF Init, PolicyInv, PluginInv, ArenaInv, JobOK, PolicyArenaOwned, Unconfigured, NoJob

(* A callback of a stream touches neither the globals nor the arenas.      *)
LEMMA CallbackKeeps ==
  ASSUME NEW s \in Streams, Callback(s)
  PROVE  UNCHANGED <<plugin, live, job>> /\ Idle
<1>1. CASE RequestHeaders(s)
  BY <1>1 DEF RequestHeaders
<1>2. CASE BodyChunk(s)
  BY <1>2 DEF BodyChunk
<1>3. CASE \E last \in {0, 1} : BodyEnd(s, last)
  <2> PICK last \in {0, 1} : BodyEnd(s, last)
    BY <1>3
  <2> QED
    BY DEF BodyEnd
<1>4. CASE ResponseHeaders(s)
  BY <1>4 DEF ResponseHeaders
<1>5. CASE StreamDone(s)
  BY <1>5 DEF StreamDone
<1> QED
  BY <1>1, <1>2, <1>3, <1>4, <1>5 DEF Callback

LEMMA PolicyKept == PolicyInv /\ UNCHANGED <<plugin, live, job>> => PolicyInv'
  BY DEF PolicyInv, PluginInv, ArenaInv, JobOK, PolicyArenaOwned, Adopted

(* Every step keeps the globals of one document and exactly its arena.     *)
LEMMA PolicyStep == PolicyInv /\ [Next]_vars => PolicyInv'
<1> SUFFICES ASSUME PolicyInv, [Next]_vars PROVE PolicyInv'
  OBVIOUS
<1> USE DEF PolicyInv
<1>0. /\ NoArena \notin live
      /\ job.arena # NoArena \/ Idle
      /\ plugin.arena = NoArena \/ plugin.arena \in Arenas
  BY DEF ArenaInv, JobOK, Idle, PluginInv, Unconfigured, PolicyArenaOwned
<1>1. CASE BeginCompile
  <2>1. PICK d \in Documents, a \in Arenas \ live :
          live' = live \cup {a} /\ job' = [arena |-> a, policy |-> d]
    BY <1>1 DEF BeginCompile
  <2>2. Idle /\ plugin' = plugin
    BY <1>1 DEF BeginCompile
  <2>3. PluginInv'
    BY <2>2 DEF PluginInv, Adopted
  <2>4. job.arena = NoArena
    BY <2>2 DEF Idle, NoJob
  <2>5. JobOK' /\ job'.arena = a
    BY <2>1 DEF JobOK
  <2>6. live' \subseteq Arenas
    BY <2>1 DEF ArenaInv
  <2>7. PolicyArenaOwned'
    BY <2>1, <2>2, <2>4, <2>5, <1>0 DEF ArenaInv, PolicyArenaOwned
  <2> QED
    BY <2>3, <2>5, <2>6, <2>7 DEF ArenaInv
<1>2. CASE RejectPolicy
  <2>1. PluginInv' /\ plugin' = plugin
    BY <1>2 DEF RejectPolicy, PluginInv, Adopted
  <2>2. live' = live \ {job.arena} /\ job'.arena = NoArena /\ job' = NoJob /\ ~Idle
    BY <1>2 DEF RejectPolicy, NoJob
  <2>3. JobOK' /\ live' \subseteq Arenas
    BY <2>2 DEF JobOK, ArenaInv
  <2>4. job.arena \in Arenas
    BY <2>2 DEF ArenaInv, JobOK, Idle
  <2>5. plugin.arena # job.arena
    BY <2>2, <2>4 DEF ArenaInv, PolicyArenaOwned
  <2>6. PolicyArenaOwned'
    BY <2>1, <2>2, <2>4, <2>5 DEF ArenaInv, PolicyArenaOwned
  <2> QED
    BY <2>1, <2>3, <2>6 DEF ArenaInv
<1>3. CASE AdoptPolicy
  <2>1. /\ job \in [arena : Arenas, policy : Documents]
        /\ Accepted(job.policy)
        /\ plugin'.arena = job.arena
        /\ plugin'.policy = job.policy
        /\ plugin' = Adopted(job.policy, job.arena)
    BY <1>3, AdoptedFields DEF ArenaInv
  <2>2. live' = live \ {plugin.arena} /\ job' = NoJob /\ job'.arena = NoArena
    BY <1>3 DEF AdoptPolicy, NoJob
  <2>3. PluginInv'
    BY <2>1 DEF PluginInv, Adopted
  <2>4. JobOK' /\ live' \subseteq Arenas
    BY <2>2 DEF JobOK, ArenaInv
  <2>5. plugin.arena # job.arena
    BY <2>1 DEF ArenaInv, PolicyArenaOwned
  <2>6. job.arena # NoArena /\ job.policy # NoPolicy
    BY <2>1
  <2>7. PolicyArenaOwned'
    BY <2>1, <2>2, <2>5, <2>6 DEF ArenaInv, PolicyArenaOwned
  <2> QED
    BY <2>3, <2>4, <2>7 DEF ArenaInv
<1>4. CASE \E s \in Streams : Callback(s)
  BY <1>4, CallbackKeeps, PolicyKept
<1>5. CASE UNCHANGED vars
  BY <1>5, PolicyKept DEF vars
<1> QED
  BY <1>1, <1>2, <1>3, <1>4, <1>5 DEF Next, Configure

LEMMA PolicyAlways == Spec => []PolicyInv
<1> QED
  BY PolicyInit, PolicyStep, PTL DEF Spec

(* Whatever configurations fail on the way, the nine globals are always    *)
(* those one accepted document gives, or none is set: no target, switch or *)
(* body class of an older policy outlives a reconfigure                    *)
(* (proxy_wasm.zig:281-320).                                               *)
THEOREM OneDocument == Spec => []PluginInv
<1>1. PolicyInv => PluginInv
  BY DEF PolicyInv
<1> QED
  BY <1>1, PolicyAlways, PTL

(* Between callbacks exactly the arena of the policy in force is           *)
(* allocated (proxy_wasm.zig:229-241, 284-286).                            *)
THEOREM ArenaOwned == Spec => []PolicyArenaOwned
<1>1. PolicyInv => PolicyArenaOwned
  BY DEF PolicyInv, ArenaInv
<1> QED
  BY <1>1, PolicyAlways, PTL

-----------------------------------------------------------------------------
(* What a decision is made of.                                             *)

(* The phase is not looked at: no policy, or none of its rules, covers it. *)
Uncovered(o) ==
  /\ o.passed
  /\ o.targets = {}
  /\ o.phase # "request"
  /\ plugin.policy # NoPolicy => Build(plugin.policy, o.phase) = {}

(* It denies before any rule runs: without a policy, on input that could   *)
(* not be had, or on a body too large for the rules that read it.          *)
Unread(o) ==
  /\ ~o.passed
  /\ plugin.policy = NoPolicy => o.phase = "request"
  /\ plugin.policy # NoPolicy =>
       /\ Build(plugin.policy, o.phase) # {}
       /\ \/ o.fault \in Fatal
          \/ Truncated(o.size) /\ plugin.body_class # "no_body_refs"

(* Every rule of the phase came to a verdict, and the verdicts decide.     *)
Weighed(o) ==
  /\ plugin.policy # NoPolicy
  /\ o.targets = Build(plugin.policy, o.phase)
  /\ o.targets # {}
  /\ o.fault \notin Fatal
  /\ Truncated(o.size) => o.phase = "body" /\ plugin.body_class = "no_body_refs"
  /\ o.verdicts \in VerdictsOn(o.targets)
  /\ o.passed <=> DecideTargets(o.targets, o.verdicts)

Outcome(s, phase, o) ==
  /\ o.stream = s /\ o.phase = phase /\ o.policy = plugin.policy
  /\ Uncovered(o) \/ Unread(o) \/ Weighed(o)

(* What can come of a phase that gathers its input: the gathering fails,   *)
(* or every rule comes to a verdict.                                       *)
FailedAs(s, phase, targets, e) ==
  \E f \in Fatal : e = Decision(s, phase, f, targets, << >>, FALSE)

WeighedAs(s, phase, targets, e) ==
  \E v \in VerdictsOn(targets) : \E f :
    /\ f \notin Fatal
    /\ e = Decision(s, phase, f, targets, v, DecideTargets(targets, v))

LEMMA EvaluationShape ==
  ASSUME NEW s, NEW phase, NEW targets, NEW faults, NEW e \in Evaluations(s, phase, targets, faults)
  PROVE  FailedAs(s, phase, targets, e) \/ WeighedAs(s, phase, targets, e)
<1> DEFINE failed == {Decision(s, phase, f, targets, << >>, FALSE) : f \in faults \cap Fatal}
           weighed == {Decision(s, phase, f, targets, v, DecideTargets(targets, v)) :
                         f \in faults \ Fatal, v \in VerdictsOn(targets)}
<1>1. e \in failed \/ e \in weighed
  BY DEF Evaluations, Decision
<1>2. ASSUME e \in failed
      PROVE  FailedAs(s, phase, targets, e)
  BY <1>2 DEF FailedAs, Decision
<1>3. ASSUME e \in weighed
      PROVE  WeighedAs(s, phase, targets, e)
  BY <1>3 DEF WeighedAs, Decision
<1> HIDE DEF failed, weighed
<1> QED
  BY <1>1, <1>2, <1>3

(* Outside the body callback nothing is noted of the body.                 *)
LEMMA EvaluationSize ==
  ASSUME NEW s, NEW phase, NEW targets, NEW faults, NEW e \in Evaluations(s, phase, targets, faults)
  PROVE  ~Truncated(e.size)
<1>1. CASE FailedAs(s, phase, targets, e)
  BY <1>1 DEF FailedAs, Decision, Truncated
<1>2. CASE WeighedAs(s, phase, targets, e)
  BY <1>2 DEF WeighedAs, Decision, Truncated
<1> QED
  BY <1>1, <1>2, EvaluationShape

(* Noting what was seen of the body leaves the rest of a decision alone.   *)
IsDecision(e) ==
  \E s, phase, fault, targets, verdicts, passed :
    e = Decision(s, phase, fault, targets, verdicts, passed)

SameDecision(o, e) ==
  /\ o.stream = e.stream /\ o.phase = e.phase /\ o.policy = e.policy
  /\ o.fault = e.fault /\ o.targets = e.targets /\ o.verdicts = e.verdicts
  /\ o.passed = e.passed

LEMMA WithBodyFields ==
  ASSUME NEW e, IsDecision(e), NEW size, NEW st
  PROVE  /\ SameDecision(WithBody(e, size, st), e)
         /\ WithBody(e, size, st).size = size
         /\ WithBody(e, size, st).whole = (st.passed = 0)
         /\ WithBody(e, size, st).steady = st.steady
<1>1. PICK s, phase, fault, targets, verdicts, passed :
        e = Decision(s, phase, fault, targets, verdicts, passed)
  BY DEF IsDecision
<1> QED
  BY <1>1 DEF Decision, SameDecision, WithBody

LEMMA EvaluationIsDecision ==
  ASSUME NEW s, NEW phase, NEW targets, NEW faults, NEW e \in Evaluations(s, phase, targets, faults)
  PROVE  IsDecision(e)
<1>1. CASE FailedAs(s, phase, targets, e)
  BY <1>1 DEF FailedAs, IsDecision
<1>2. CASE WeighedAs(s, phase, targets, e)
  BY <1>2 DEF WeighedAs, IsDecision
<1> QED
  BY <1>1, <1>2, EvaluationShape

(* A phase that was evaluated is one of the above, whatever the body       *)
(* callback then notes of the body.                                        *)
LEMMA EvaluationOutcome ==
  ASSUME PluginInv, plugin.policy # NoPolicy, NEW s, NEW phase \in Phases,
         NEW faults, NEW targets, targets = Build(plugin.policy, phase), targets # {},
         NEW e \in Evaluations(s, phase, targets, faults),
         NEW o, o.stream = e.stream, o.phase = e.phase, o.policy = e.policy,
         o.fault = e.fault, o.targets = e.targets, o.verdicts = e.verdicts,
         o.passed = e.passed,
         Truncated(o.size) => phase = "body" /\ plugin.body_class = "no_body_refs"
  PROVE  Outcome(s, phase, o)
<1>1. CASE FailedAs(s, phase, targets, e)
  <2>1. PICK f \in Fatal : e = Decision(s, phase, f, targets, << >>, FALSE)
    BY <1>1 DEF FailedAs
  <2>2. /\ e.stream = s /\ e.phase = phase /\ e.policy = plugin.policy /\ e.fault = f
        /\ ~e.passed
    BY <2>1 DEF Decision
  <2> QED
    BY <2>2 DEF Outcome, Unread
<1>2. CASE WeighedAs(s, phase, targets, e)
  <2>1. PICK v \in VerdictsOn(targets) : \E f :
          /\ f \notin Fatal
          /\ e = Decision(s, phase, f, targets, v, DecideTargets(targets, v))
    BY <1>2 DEF WeighedAs
  <2> PICK f : /\ f \notin Fatal
               /\ e = Decision(s, phase, f, targets, v, DecideTargets(targets, v))
    BY <2>1
  <2>2. /\ e.stream = s /\ e.phase = phase /\ e.policy = plugin.policy /\ e.fault = f
        /\ e.targets = targets /\ e.verdicts = v
        /\ e.passed = DecideTargets(targets, v)
    BY DEF Decision
  <2>3. Weighed(o)
    BY <2>2 DEF Weighed
  <2> QED
    BY <2>2, <2>3 DEF Outcome
<1> QED
  BY <1>1, <1>2, EvaluationShape

LEMMA RequestOutcome ==
  ASSUME PluginInv, NEW s \in Streams, RequestHeaders(s)
  PROVE  Outcome(s, "request", event')
<1>1. event' \in RequestDecisions(s)
  BY DEF RequestHeaders
<1>2. CASE plugin.policy = NoPolicy
  <2>1. event' = Decision(s, "request", "none", {}, << >>, FALSE)
    BY <1>1, <1>2 DEF Refused, RequestDecisions
  <2>2. /\ event'.stream = s /\ event'.phase = "request" /\ event'.policy = plugin.policy
        /\ ~event'.passed
    BY <2>1 DEF Decision
  <2> QED
    BY <1>2, <2>2 DEF Outcome, Unread
<1>3. CASE plugin.policy # NoPolicy
  <2>1. event' \in Evaluations(s, "request", plugin.request, HeaderFaults)
    BY <1>1, <1>3 DEF RequestDecisions
  <2>2. plugin.request = Build(plugin.policy, "request") /\ plugin.request # {}
    BY <1>3, InForce, RequestGuarded
  <2>3. ~Truncated(event'.size)
    BY <2>1, EvaluationSize
  <2>4. "request" \in Phases
    BY DEF Phases
  <2> QED
    BY <1>3, <2>1, <2>2, <2>3, <2>4, EvaluationOutcome
<1> QED
  BY <1>2, <1>3

LEMMA ResponseOutcome ==
  ASSUME PluginInv, NEW s \in Streams, ResponseHeaders(s)
  PROVE  Outcome(s, "response", event')
<1>1. event' \in ResponseDecisions(s)
  BY DEF ResponseHeaders
<1>2. CASE ~plugin.has_allow_response
  <2>1. event' = Decision(s, "response", "none", {}, << >>, TRUE)
    BY <1>1, <1>2 DEF Skipped, ResponseDecisions
  <2>2. /\ event'.stream = s /\ event'.phase = "response" /\ event'.policy = plugin.policy
        /\ event'.targets = {} /\ event'.passed
    BY <2>1 DEF Decision
  <2>3. plugin.policy # NoPolicy => Build(plugin.policy, "response") = {}
    BY <1>2, InForce
  <2> QED
    BY <2>2, <2>3 DEF Outcome, Uncovered
<1>3. CASE plugin.has_allow_response
  <2>0. plugin.policy # NoPolicy
    BY <1>3, NoneInForce DEF Unconfigured
  <2>1. event' \in Evaluations(s, "response", plugin.response, HeaderFaults)
    BY <1>1, <1>3, <2>0 DEF ResponseDecisions
  <2>2. plugin.response = Build(plugin.policy, "response") /\ plugin.response # {}
    BY <1>3, <2>0, InForce
  <2>3. ~Truncated(event'.size)
    BY <2>1, EvaluationSize
  <2>4. "response" \in Phases
    BY DEF Phases
  <2> QED
    BY <2>0, <2>1, <2>2, <2>3, <2>4, EvaluationOutcome
<1> QED
  BY <1>2, <1>3

(* At the end of a body the decision also says how much the host showed    *)
(* and whether something had gone ahead of it.                             *)
LEMMA BodyOutcome ==
  ASSUME PluginInv, NEW s \in Streams, NEW last, BodyEnd(s, last)
  PROVE  /\ Outcome(s, "body", event')
         /\ event'.targets # {} => plugin.has_allow_body
         /\ event'.whole = (streams[s].passed = 0)
         /\ event'.steady = streams[s].steady
<1> DEFINE size == streams[s].held + last
<1>0. PICK e \in BodyDecisions(s, size) : event' = WithBody(e, size, streams[s])
  BY DEF BodyEnd
<1> HIDE DEF size
<1>1. ASSUME IsDecision(e)
      PROVE  /\ SameDecision(event', e)
             /\ event'.size = size
             /\ event'.whole = (streams[s].passed = 0)
             /\ event'.steady = streams[s].steady
  BY <1>0, <1>1, WithBodyFields
<1>2. "body" \in Phases
  BY DEF Phases
<1>3. CASE ~plugin.has_allow_body
  <2>1. e = Decision(s, "body", "none", {}, << >>, TRUE)
    BY <1>0, <1>3 DEF BodyDecisions, Skipped
  <2>2. IsDecision(e)
    BY <2>1 DEF IsDecision
  <2>3. /\ e.stream = s /\ e.phase = "body" /\ e.policy = plugin.policy
        /\ e.targets = {} /\ e.passed
    BY <2>1 DEF Decision
  <2>4. plugin.policy # NoPolicy => Build(plugin.policy, "body") = {}
    BY <1>3, InForce
  <2>5. Outcome(s, "body", event')
    BY <1>1, <2>2, <2>3, <2>4 DEF SameDecision, Outcome, Uncovered
  <2> QED
    BY <1>1, <2>2, <2>3, <2>5 DEF SameDecision
<1>4. CASE plugin.has_allow_body
  <2>1. plugin.policy # NoPolicy
    BY <1>4, NoneInForce DEF Unconfigured
  <2>2. plugin.body = Build(plugin.policy, "body") /\ plugin.body # {}
    BY <1>4, <2>1, InForce
  <2>3. CASE Truncated(size) /\ plugin.body_class # "no_body_refs"
    <3>1. e = Decision(s, "body", "none", plugin.body, << >>, FALSE)
      BY <1>0, <1>4, <2>3 DEF BodyDecisions, Refused
    <3>2. IsDecision(e)
      BY <3>1 DEF IsDecision
    <3>3. /\ e.stream = s /\ e.phase = "body" /\ e.policy = plugin.policy
          /\ ~e.passed
      BY <3>1 DEF Decision
    <3>4. Outcome(s, "body", event')
      BY <1>1, <2>1, <2>2, <2>3, <3>2, <3>3 DEF SameDecision, Outcome, Unread
    <3> QED
      BY <1>1, <1>4, <3>2, <3>4
  <2>4. CASE ~(Truncated(size) /\ plugin.body_class # "no_body_refs")
    <3>1. e \in Evaluations(s, "body", plugin.body, BodyFaults(size))
      BY <1>0, <1>4, <2>1, <2>4 DEF BodyDecisions
    <3>2. IsDecision(e)
      BY <3>1, EvaluationIsDecision
    <3>3. Truncated(event'.size) => plugin.body_class = "no_body_refs"
      BY <1>1, <2>4, <3>2
    <3>4. Outcome(s, "body", event')
      BY <1>1, <1>2, <2>1, <2>2, <3>1, <3>2, <3>3, EvaluationOutcome DEF SameDecision
    <3> QED
      BY <1>1, <1>4, <3>2, <3>4
  <2> QED
    BY <2>3, <2>4
<1> QED
  BY <1>3, <1>4

-----------------------------------------------------------------------------
(* What an outcome means.                                                  *)

(* A phase is covered exactly when it has targets.                         *)
LEMMA CoversTargets ==
  ASSUME NEW phase \in Phases, plugin.policy # NoPolicy
  PROVE  Gate!Covers(plugin.policy, phase) <=> Build(plugin.policy, phase) # {}
  BY TargetsEvaluated DEF Gate!Covers

(* The class the truncation check looks at is the least one exactly when   *)
(* no enforcing rule of the body phase reads the body.                     *)
LEMMA ClassReads ==
  ASSUME PluginInv, plugin.policy # NoPolicy
  PROVE  plugin.body_class = "no_body_refs"
           <=> \A rule \in Gate!Enforced(plugin.policy, "body") : ~Gate!ReadsBody(plugin.policy, rule)
<1> DEFINE d == plugin.policy
<1>1. d \in Documents /\ plugin.body_class = BodyClass(d)
  BY InForce
<1>2. {PairOf(t) : t \in {x \in Build(d, "body") : x.enforce}} = Gate!Enforced(d, "body")
  BY TargetsEnforced DEF Phases
<1>3. BodyClass(d) = "no_body_refs" <=>
        \A t \in Build(d, "body") : t.enforce => AnalyzeTarget(d, t) = "no_body_refs"
  BY <1>1, BodyClassClass
<1>4. \A t : AnalyzeTarget(d, t) = "no_body_refs" <=> ~Gate!ReadsBody(d, PairOf(t))
  BY <1>1, TargetClass
<1> HIDE DEF d
<1> QED
  BY <1>1, <1>2, <1>3, <1>4 DEF d

(* The enforcing targets allow exactly when the enforcing rules do.        *)
LEMMA DecideEnforced ==
  ASSUME NEW d, NEW phase \in Phases, NEW v
  PROVE  DecideTargets(Build(d, phase), v)
           <=> \A rule \in Gate!Enforced(d, phase) : v[rule] = "allow"
  BY TargetsEnforced DEF DecideTargets

(* The shim decides as the gate does (AuthzGate's Decide).                 *)
LEMMA GateDecides ==
  ASSUME PluginInv, NEW s, NEW phase \in Phases, NEW o, Outcome(s, phase, o)
  PROVE  o.passed <=> (Gate!Covers(plugin.policy, o.phase) => Gate!Permits(plugin.policy, o))
<1> USE DEF Outcome
<1>1. CASE Uncovered(o)
  <2>1. CASE plugin.policy = NoPolicy
    BY <1>1, <2>1 DEF Uncovered, Gate!Covers
  <2>2. CASE plugin.policy # NoPolicy
    BY <1>1, <2>2, CoversTargets DEF Uncovered
  <2> QED
    BY <1>1, <2>1, <2>2 DEF Uncovered
<1>2. CASE Unread(o)
  <2>1. CASE plugin.policy = NoPolicy
    BY <1>2, <2>1 DEF Unread, Gate!Covers, Gate!Permits
  <2>2. CASE plugin.policy # NoPolicy
    <3>1. Gate!Covers(plugin.policy, o.phase)
      BY <1>2, <2>2, CoversTargets DEF Unread
    <3>2. CASE o.fault \in Fatal
      BY <1>2, <3>1, <3>2 DEF Unread, Gate!Permits, Gate!Unread, Fatal
    <3>3. CASE Truncated(o.size) /\ plugin.body_class # "no_body_refs"
      <4>1. ~Gate!Permits(plugin.policy, o)
        BY <2>2, <3>3, ClassReads DEF Gate!Permits, Truncated
      <4> QED
        BY <1>2, <3>1, <4>1 DEF Unread
    <3> QED
      BY <1>2, <2>2, <3>2, <3>3 DEF Unread
  <2> QED
    BY <2>1, <2>2
<1>3. CASE Weighed(o)
  <2>1. Gate!Covers(plugin.policy, o.phase)
    BY <1>3, CoversTargets DEF Weighed
  <2>2. o.fault \notin Gate!Unread
    BY <1>3 DEF Weighed, Gate!Unread, Fatal
  <2>3. o.size > MaxBody => \A rule \in Gate!Enforced(plugin.policy, "body") :
                              ~Gate!ReadsBody(plugin.policy, rule)
    BY <1>3, ClassReads DEF Weighed, Truncated
  <2>4. o.passed <=> \A rule \in Gate!Enforced(plugin.policy, o.phase) : o.verdicts[rule] = "allow"
    BY <1>3, DecideEnforced DEF Weighed
  <2> QED
    BY <1>3, <2>1, <2>2, <2>3, <2>4 DEF Weighed, Gate!Permits
<1> QED
  BY <1>1, <1>2, <1>3

-----------------------------------------------------------------------------
(* The host's view of the streams.                                         *)

StreamSet ==
  [stage : {"new", "open", "sent", "answered", "stalled"},
   held : 0 .. MaxLength, passed : 0 .. MaxLength, steady : BOOLEAN,
   response : {"none", "upstream", "replaced", "undenied"},
   denied : SUBSET {"request", "response"}]

(* Either side of the stream is where a denial leaves it exactly when a    *)
(* phase denied it.                                                        *)
Settled(st) ==
  /\ "request" \in st.denied <=> st.stage \in {"answered", "stalled"}
  /\ "response" \in st.denied <=> st.response \in {"replaced", "undenied"}

(* No stage is stranded or overrun, denials are settled, and while a body  *)
(* phase is on nothing of a body that began under this policy has gone     *)
(* ahead.                                                                  *)
StreamInv ==
  /\ streams \in [Streams -> StreamSet]
  /\ \A s \in Streams : Settled(streams[s])
  /\ plugin.has_allow_body => \A s \in Streams : streams[s].steady => streams[s].passed = 0

(* A chunk that still fits the longest body fits where it goes.            *)
LEMMA ChunkTyped ==
  ASSUME NEW st \in StreamSet, st.held + st.passed < MaxLength
  PROVE  /\ Hold(st) \in StreamSet /\ Forward(st) \in StreamSet
         /\ Settled(st) => Settled(Hold(st)) /\ Settled(Forward(st))
<1> DEFINE held == st.held + 1
           passed == st.passed + st.held + 1
<1>1. held \in 0 .. MaxLength /\ passed \in 0 .. MaxLength /\ 0 \in 0 .. MaxLength
  BY DEF StreamSet
<1> HIDE DEF held, passed
<1>2. [st EXCEPT !.held = held] \in StreamSet
  BY <1>1 DEF StreamSet
<1>3. [st EXCEPT !.held = 0] \in StreamSet
  BY <1>1 DEF StreamSet
<1>4. [st EXCEPT !.held = 0, !.passed = passed] \in StreamSet
  BY <1>1, <1>3 DEF StreamSet
<1>5. Settled(st) => Settled([st EXCEPT !.held = held])
  BY DEF StreamSet, Settled
<1>6. Settled(st) => Settled([st EXCEPT !.held = 0, !.passed = passed])
  BY DEF StreamSet, Settled
<1> QED
  BY <1>2, <1>4, <1>5, <1>6 DEF Hold, Forward, held, passed

(* A callback that allows lets the stream go on; one that denies asks for  *)
(* an answer and stops it, whether the host then sends the answer or not.  *)
LEMMA StageAfter ==
  ASSUME NEW passed, NEW delivered, NEW next
  PROVE  LET stage == RequestStage(IF passed THEN Allowed ELSE RequestDenied, delivered, next)
         IN  IF passed THEN stage = next ELSE stage \in {"answered", "stalled"}
<1>1. RequestStage(Allowed, delivered, next) = next
  BY DEF RequestStage, Allowed, Return
<1>2. RequestStage(RequestDenied, delivered, next) \in {"answered", "stalled"}
  BY DEF RequestStage, RequestDenied, Return
<1> QED
  BY <1>1, <1>2

LEMMA FateAfter ==
  ASSUME NEW passed, NEW delivered
  PROVE  LET fate == ResponseFate(IF passed THEN Allowed ELSE ResponseDenied, delivered)
         IN  IF passed THEN fate = "upstream" ELSE fate \in {"replaced", "undenied"}
<1>1. ResponseFate(Allowed, delivered) = "upstream"
  BY DEF ResponseFate, Allowed, Return
<1>2. ResponseFate(ResponseDenied, delivered) \in {"replaced", "undenied"}
  BY DEF ResponseFate, ResponseDenied, Return
<1> QED
  BY <1>1, <1>2

(* A stream whose request no phase has denied yet is settled after the     *)
(* next one, and likewise its response.                                    *)
LEMMA RequestSettled ==
  ASSUME NEW st \in StreamSet, Settled(st), st.stage \in {"new", "open"},
         NEW passed, NEW delivered, NEW next \in {"open", "sent"}
  PROVE  LET after == AfterRequest(st, passed, delivered, next)
         IN  /\ after \in StreamSet /\ Settled(after)
             /\ after.steady = st.steady /\ after.passed = st.passed
<1> DEFINE stage == RequestStage(IF passed THEN Allowed ELSE RequestDenied, delivered, next)
           denied == Denials(st, "request", passed)
<1>1. IF passed THEN stage = next ELSE stage \in {"answered", "stalled"}
  BY StageAfter
<1>2. denied = IF passed THEN st.denied ELSE st.denied \cup {"request"}
  BY DEF Denials
<1>3. AfterRequest(st, passed, delivered, next)
        = [st EXCEPT !.stage = stage, !.held = 0, !.denied = denied]
  BY DEF AfterRequest
<1> HIDE DEF stage, denied
<1> DEFINE after == [st EXCEPT !.stage = stage, !.held = 0, !.denied = denied]
<1>4. /\ after.stage = stage /\ after.denied = denied /\ after.response = st.response
      /\ after.steady = st.steady /\ after.passed = st.passed
  BY DEF StreamSet
<1>5. after \in StreamSet
  <2>1. /\ stage \in {"new", "open", "sent", "answered", "stalled"}
        /\ 0 \in 0 .. MaxLength
        /\ denied \in SUBSET {"request", "response"}
    BY <1>1, <1>2, BodyAssumption DEF StreamSet
  <2> QED
    BY <2>1 DEF StreamSet
<1>6. Settled(after)
  <2>1. "request" \notin st.denied
    BY DEF Settled
  <2>2. "request" \in denied <=> stage \in {"answered", "stalled"}
    BY <1>1, <1>2, <2>1
  <2>3. "response" \in denied <=> "response" \in st.denied
    BY <1>2
  <2> HIDE DEF after
  <2> QED
    BY <1>4, <2>2, <2>3 DEF Settled
<1> QED
  BY <1>3, <1>4, <1>5, <1>6

LEMMA ResponseSettled ==
  ASSUME NEW st \in StreamSet, Settled(st), st.response = "none",
         NEW passed, NEW delivered
  PROVE  LET after == AfterResponse(st, passed, delivered)
         IN  /\ after \in StreamSet /\ Settled(after)
             /\ after.steady = st.steady /\ after.passed = st.passed
<1> DEFINE fate == ResponseFate(IF passed THEN Allowed ELSE ResponseDenied, delivered)
           denied == Denials(st, "response", passed)
<1>1. IF passed THEN fate = "upstream" ELSE fate \in {"replaced", "undenied"}
  BY FateAfter
<1>2. denied = IF passed THEN st.denied ELSE st.denied \cup {"response"}
  BY DEF Denials
<1>3. AfterResponse(st, passed, delivered) = [st EXCEPT !.response = fate, !.denied = denied]
  BY DEF AfterResponse
<1> HIDE DEF fate, denied
<1> DEFINE after == [st EXCEPT !.response = fate, !.denied = denied]
<1>4. /\ after.stage = st.stage /\ after.denied = denied /\ after.response = fate
      /\ after.steady = st.steady /\ after.passed = st.passed
  BY DEF StreamSet
<1>5. after \in StreamSet
  <2>1. /\ fate \in {"none", "upstream", "replaced", "undenied"}
        /\ denied \in SUBSET {"request", "response"}
    BY <1>1, <1>2 DEF StreamSet
  <2> QED
    BY <2>1 DEF StreamSet
<1>6. Settled(after)
  <2>1. "response" \notin st.denied
    BY DEF Settled
  <2>2. "response" \in denied <=> fate \in {"replaced", "undenied"}
    BY <1>1, <1>2, <2>1
  <2>3. "request" \in denied <=> "request" \in st.denied
    BY <1>2
  <2> HIDE DEF after
  <2> QED
    BY <1>4, <2>2, <2>3 DEF Settled
<1> QED
  BY <1>3, <1>4, <1>5, <1>6

LEMMA StreamInit == Init => StreamInv
  BY BodyAssumption DEF Init, StreamInv, StreamSet, NewStream, Settled, Unconfigured

(* One stream changes, within the set, and keeps what went ahead of it.    *)
LEMMA OneStream ==
  ASSUME StreamInv, UNCHANGED plugin, NEW s \in Streams, NEW st \in StreamSet, Settled(st),
         streams' = [streams EXCEPT ![s] = st],
         plugin.has_allow_body /\ st.steady => st.passed = 0
  PROVE  StreamInv'
<1>1. streams' \in [Streams -> StreamSet]
  BY DEF StreamInv
<1>2. ASSUME plugin'.has_allow_body, NEW x \in Streams, streams'[x].steady
      PROVE  streams'[x].passed = 0
  BY <1>2 DEF StreamInv
<1>3. \A x \in Streams : Settled(streams'[x])
  BY DEF StreamInv
<1> QED
  BY <1>1, <1>2, <1>3 DEF StreamInv

LEMMA StreamStep == StreamInv /\ PolicyInv /\ [Next]_vars => StreamInv'
<1> SUFFICES ASSUME StreamInv, PolicyInv, [Next]_vars PROVE StreamInv'
  OBVIOUS
<1>1. CASE BeginCompile \/ RejectPolicy \/ UNCHANGED vars
  BY <1>1 DEF BeginCompile, RejectPolicy, vars, StreamInv
<1>2. CASE AdoptPolicy
  <2>1. streams' = [s \in Streams |-> Unsettle(streams[s])]
    BY <1>2 DEF AdoptPolicy
  <2>2. ASSUME NEW s \in Streams
        PROVE  /\ Unsettle(streams[s]) \in StreamSet /\ Settled(Unsettle(streams[s]))
               /\ Unsettle(streams[s]).steady => Unsettle(streams[s]).passed = 0
    <3>1. streams[s] \in StreamSet /\ Settled(streams[s])
      BY DEF StreamInv
    <3>2. streams[s].held \in Nat /\ streams[s].passed \in Nat
      BY <3>1 DEF StreamSet
    <3>3. CASE streams[s].held + streams[s].passed > 0
      BY <3>1, <3>3 DEF Unsettle, StreamSet, Settled
    <3>4. CASE ~(streams[s].held + streams[s].passed > 0)
      <4>1. streams[s].passed = 0
        BY <3>2, <3>4
      <4> QED
        BY <3>1, <3>4, <4>1 DEF Unsettle
    <3> QED
      BY <3>3, <3>4
  <2> QED
    BY <2>1, <2>2 DEF StreamInv
<1>3. ASSUME NEW s \in Streams, Callback(s)
      PROVE  StreamInv'
  <2>0. /\ UNCHANGED plugin
        /\ streams[s] \in StreamSet /\ Settled(streams[s])
        /\ plugin.has_allow_body /\ streams[s].steady => streams[s].passed = 0
    BY <1>3, CallbackKeeps DEF StreamInv
  <2>1. CASE RequestHeaders(s)
    <3>1. PICK delivered \in Deliveries :
            streams' = [streams EXCEPT ![s] =
              AfterRequest(streams[s], event'.passed, delivered, "open")]
      BY <2>1 DEF RequestHeaders
    <3> DEFINE st == AfterRequest(streams[s], event'.passed, delivered, "open")
    <3>2. /\ st \in StreamSet /\ Settled(st)
          /\ st.steady = streams[s].steady /\ st.passed = streams[s].passed
      BY <2>0, <2>1, RequestSettled DEF RequestHeaders
    <3> HIDE DEF st
    <3> QED
      BY <2>0, <3>1, <3>2, OneStream DEF st
  <2>2. CASE BodyChunk(s)
    <3> DEFINE st == IF Buffering THEN Hold(streams[s]) ELSE Forward(streams[s])
    <3>1. streams' = [streams EXCEPT ![s] = st] /\ streams[s].held + streams[s].passed < MaxLength
      BY <2>2 DEF BodyChunk
    <3>2. /\ Hold(streams[s]) \in StreamSet /\ Forward(streams[s]) \in StreamSet
          /\ Settled(Hold(streams[s])) /\ Settled(Forward(streams[s]))
      BY <2>0, <3>1, ChunkTyped
    <3>3. /\ Hold(streams[s]).steady = streams[s].steady
          /\ Hold(streams[s]).passed = streams[s].passed
      BY <2>0 DEF Hold, StreamSet
    <3> QED
      BY <2>0, <3>1, <3>2, <3>3, OneStream DEF Buffering
  <2>3. CASE \E last \in {0, 1} : BodyEnd(s, last)
    <3>1. PICK delivered \in Deliveries :
            streams' = [streams EXCEPT ![s] =
              AfterRequest(streams[s], event'.passed, delivered, "sent")]
      BY <2>3 DEF BodyEnd
    <3> DEFINE st == AfterRequest(streams[s], event'.passed, delivered, "sent")
    <3>2. /\ st \in StreamSet /\ Settled(st)
          /\ st.steady = streams[s].steady /\ st.passed = streams[s].passed
      BY <2>0, <2>3, RequestSettled DEF BodyEnd
    <3> HIDE DEF st
    <3> QED
      BY <2>0, <3>1, <3>2, OneStream DEF st
  <2>4. CASE ResponseHeaders(s)
    <3>1. PICK delivered \in Deliveries :
            streams' = [streams EXCEPT ![s] = AfterResponse(streams[s], event'.passed, delivered)]
      BY <2>4 DEF ResponseHeaders
    <3> DEFINE st == AfterResponse(streams[s], event'.passed, delivered)
    <3>2. /\ st \in StreamSet /\ Settled(st)
          /\ st.steady = streams[s].steady /\ st.passed = streams[s].passed
      BY <2>0, <2>4, ResponseSettled DEF ResponseHeaders
    <3> HIDE DEF st
    <3> QED
      BY <2>0, <3>1, <3>2, OneStream DEF st
  <2>5. CASE StreamDone(s)
    <3>1. NewStream \in StreamSet /\ Settled(NewStream) /\ NewStream.passed = 0
      BY BodyAssumption DEF NewStream, StreamSet, Settled
    <3>2. streams' = [streams EXCEPT ![s] = NewStream]
      BY <2>5 DEF StreamDone
    <3> QED
      BY <2>0, <3>1, <3>2, OneStream
  <2> QED
    BY <1>3, <2>1, <2>2, <2>3, <2>4, <2>5 DEF Callback
<1> QED
  BY <1>1, <1>2, <1>3 DEF Next, Configure

-----------------------------------------------------------------------------
(* The last decision.                                                      *)

EventInv ==
  /\ event.phase \in Phases \cup {"none"}
  /\ NothingPassesUnasked
  /\ TruncatedNeverDecides
  /\ BodyDecidedWhole

LEMMA EventInit == Init => EventInv
  BY DEF Init, EventInv, NoEvent, NothingPassesUnasked, TruncatedNeverDecides, BodyDecidedWhole

(* A request that passes was allowed by an enforcing rule that exists.     *)
LEMMA PassedWasAsked ==
  ASSUME PluginInv, NEW s, NEW o, Outcome(s, "request", o), o.passed
  PROVE  \E t \in o.targets : /\ t.enforce
                              /\ RuleExists(o.policy, t.package, t.rule)
                              /\ o.verdicts[PairOf(t)] = "allow"
<1>1. Weighed(o) /\ o.phase = "request" /\ o.policy = plugin.policy
  BY DEF Outcome, Uncovered, Unread
<1>2. PICK t \in o.targets : t.enforce
  BY <1>1, InForce, RequestGuarded DEF Weighed
<1>3. o.verdicts[PairOf(t)] = "allow"
  BY <1>1, <1>2 DEF Weighed, DecideTargets
<1>4. RuleExists(o.policy, t.package, t.rule)
  BY <1>1, <1>3 DEF Weighed, VerdictsOn
<1> QED
  BY <1>2, <1>3, <1>4

(* A truncated body that passes was read by no enforcing rule.             *)
LEMMA TruncatedWasUnread ==
  ASSUME PluginInv, NEW s, NEW o, Outcome(s, "body", o), o.passed, Truncated(o.size)
  PROVE  \A t \in o.targets : t.enforce => AnalyzeTarget(o.policy, t) = "no_body_refs"
<1>1. CASE Uncovered(o)
  BY <1>1 DEF Uncovered
<1>2. CASE Weighed(o)
  <2>1. /\ o.policy = plugin.policy /\ plugin.policy \in Documents
        /\ BodyClass(plugin.policy) = "no_body_refs"
        /\ o.targets = Build(plugin.policy, "body")
    BY <1>2, InForce DEF Weighed, Outcome
  <2> QED
    BY <2>1, BodyClassClass
<1> QED
  BY <1>1, <1>2 DEF Outcome, Unread

LEMMA EventKept == EventInv /\ UNCHANGED event => EventInv'
  BY DEF EventInv, NothingPassesUnasked, TruncatedNeverDecides, BodyDecidedWhole, Truncated

LEMMA EventStep == EventInv /\ StreamInv /\ PolicyInv /\ [Next]_vars => EventInv'
<1> SUFFICES ASSUME EventInv, StreamInv, PolicyInv, [Next]_vars PROVE EventInv'
  OBVIOUS
<1>0. PluginInv
  BY DEF PolicyInv
<1>1. CASE UNCHANGED event
  BY <1>1, EventKept
<1>2. ASSUME NEW s \in Streams, RequestHeaders(s)
      PROVE  EventInv'
  <2>1. Outcome(s, "request", event') /\ event'.phase = "request"
    BY <1>0, <1>2, RequestOutcome DEF Outcome
  <2>2. NothingPassesUnasked'
    BY <1>0, <2>1, PassedWasAsked DEF NothingPassesUnasked
  <2> QED
    BY <2>1, <2>2 DEF EventInv, TruncatedNeverDecides, BodyDecidedWhole, Phases
<1>3. ASSUME NEW s \in Streams, NEW last \in {0, 1}, BodyEnd(s, last)
      PROVE  EventInv'
  <2>1. /\ Outcome(s, "body", event') /\ event'.phase = "body"
        /\ event'.targets # {} => plugin.has_allow_body
        /\ event'.whole = (streams[s].passed = 0)
        /\ event'.steady = streams[s].steady
    BY <1>0, <1>3, BodyOutcome DEF Outcome
  <2>2. TruncatedNeverDecides'
    BY <1>0, <2>1, TruncatedWasUnread DEF TruncatedNeverDecides, Truncated
  <2>3. BodyDecidedWhole'
    BY <2>1 DEF BodyDecidedWhole, StreamInv
  <2> QED
    BY <2>1, <2>2, <2>3 DEF EventInv, NothingPassesUnasked, Phases
<1>4. ASSUME NEW s \in Streams, ResponseHeaders(s)
      PROVE  EventInv'
  <2>1. event'.phase = "response"
    BY <1>0, <1>4, ResponseOutcome DEF Outcome
  <2> QED
    BY <2>1
    DEF EventInv, NothingPassesUnasked, TruncatedNeverDecides, BodyDecidedWhole, Phases
<1>5. ASSUME NEW s \in Streams, Callback(s)
      PROVE  EventInv'
  <2>1. CASE BodyChunk(s) \/ StreamDone(s)
    BY <1>1, <2>1 DEF BodyChunk, StreamDone
  <2> QED
    BY <1>2, <1>3, <1>4, <1>5, <2>1 DEF Callback
<1>6. CASE Configure \/ UNCHANGED vars
  BY <1>1, <1>6 DEF Configure, BeginCompile, RejectPolicy, AdoptPolicy, vars
<1> QED
  BY <1>5, <1>6 DEF Next

-----------------------------------------------------------------------------
(* The theorems.                                                           *)

ShimInv == PolicyInv /\ StreamInv /\ EventInv

LEMMA ShimAlways == Spec => []ShimInv
<1>1. Init => ShimInv
  BY PolicyInit, StreamInit, EventInit DEF ShimInv
<1>2. ShimInv /\ [Next]_vars => ShimInv'
  BY PolicyStep, StreamStep, EventStep DEF ShimInv
<1> QED
  BY <1>1, <1>2, PTL DEF Spec

(* The switches of a phase say whether it has targets, the class is one,   *)
(* and the host never buffers or forwards more than the longest body.      *)
THEOREM TypeCorrect == Spec => []TypeOK
<1>1. ShimInv => TypeOK
  <2> SUFFICES ASSUME ShimInv PROVE TypeOK
    OBVIOUS
  <2> USE DEF ShimInv, PolicyInv
  <2>1. CASE plugin = Unconfigured
    BY <2>1 DEF Unconfigured, TypeOK, Classes, ArenaInv, JobOK, StreamInv, StreamSet, EventInv
  <2>2. CASE plugin # Unconfigured
    <3>1. plugin.policy # NoPolicy
      BY <2>2, NoneInForce
    <3>2. /\ plugin.arena \in Arenas \cup {NoArena}
          /\ plugin.policy \in Documents \cup {NoPolicy}
          /\ plugin.body_class \in Classes
      BY <3>1, InForce, BodyClassClass
    <3>3. /\ plugin.has_allow_body \in BOOLEAN /\ plugin.has_allow_response \in BOOLEAN
          /\ plugin.has_allow_body <=> plugin.body # {}
          /\ plugin.has_allow_response <=> plugin.response # {}
      BY <3>1, InForce
    <3> QED
      BY <3>2, <3>3 DEF TypeOK, ArenaInv, JobOK, StreamInv, StreamSet, EventInv
  <2> QED
    BY <2>1, <2>2
<1> QED
  BY <1>1, ShimAlways, PTL

(* Behind every request that is let through there is an enforcing rule,    *)
(* one the policy defines, that allowed it (targets.zig:141-153;           *)
(* proxy_wasm.zig:343-358).                                                *)
THEOREM PassingIsAsked == Spec => []NothingPassesUnasked
<1>1. ShimInv => NothingPassesUnasked
  BY DEF ShimInv, EventInv
<1> QED
  BY <1>1, ShimAlways, PTL

(* A body larger than the buffer never gets past an enforcing rule that    *)
(* reads bodies (proxy_wasm.zig:300-304).                                  *)
THEOREM TruncatedUnread == Spec => []TruncatedNeverDecides
<1>1. ShimInv => TruncatedNeverDecides
  BY DEF ShimInv, EventInv
<1> QED
  BY <1>1, ShimAlways, PTL

(* No chunk goes ahead of the decision on its body, unless the policy was  *)
(* replaced meanwhile (proxy_wasm.zig:371-378).                            *)
THEOREM DecidedWhole == Spec => []BodyDecidedWhole
<1>1. ShimInv => BodyDecidedWhole
  BY DEF ShimInv, EventInv
<1> QED
  BY <1>1, ShimAlways, PTL

(* Nothing of a denied request goes on, whether or not the host sends the  *)
(* answer; no other stream is stopped, and no response is held back        *)
(* (proxy_wasm.zig:334, 421-425, 666-677).                                 *)
THEOREM IterationIsSound == Spec => []IterationSound
<1>1. ShimInv => IterationSound
  BY DEF ShimInv, StreamInv, StreamSet, Settled, IterationSound
<1> QED
  BY <1>1, ShimAlways, PTL

(* Whatever a targets block names is evaluated as named, and a phase rule  *)
(* anywhere in the policy means its phase runs (targets.zig:35-40,         *)
(* 179-186).                                                               *)
THEOREM EveryRuleHeeded == Spec => []NoRuleIgnored
<1>1. ShimInv => NoRuleIgnored
  <2> SUFFICES ASSUME ShimInv, plugin.policy # NoPolicy PROVE NoRuleIgnored
    BY DEF NoRuleIgnored
  <2> DEFINE d == plugin.policy
  <2>1. /\ Accepted(d)
        /\ \A phase \in Phases : plugin[phase] = Build(d, phase)
    BY InForce DEF ShimInv, PolicyInv, Phases
  <2>2. ASSUME d.targets # Absent, NEW e \in d.targets
        PROVE  \E phase \in Phases : e.phase = phase /\ TargetOf(e) \in plugin[phase]
    <3>1. e.phase \in Phases
      BY <2>1, <2>2 DEF Accepted, BuildOK, ListedOK, EntryOK
    <3>2. TargetOf(e) \in Build(d, e.phase)
      BY <2>2 DEF Build, ListedTargets
    <3> QED
      BY <2>1, <3>1, <3>2
  <2>3. ASSUME d.targets = Absent, NEW phase \in {"body", "response"},
               \E r \in d.rules : r.name = DefaultRule[phase]
        PROVE  Target(ImplicitPackage, DefaultRule[phase], TRUE) \in plugin[phase]
    <3>1. RuleExists(d, ImplicitPackage, DefaultRule[phase])
      BY <2>1, <2>3 DEF Accepted, BuildOK, DefaultsOK
    <3>2. Target(ImplicitPackage, DefaultRule[phase], TRUE) \in Build(d, phase)
      BY <2>3, <3>1 DEF Build, DefaultTargets
    <3> QED
      BY <2>1, <3>2 DEF Phases
  <2> QED
    BY <2>2, <2>3 DEF NoRuleIgnored
<1> QED
  BY <1>1, ShimAlways, PTL

-----------------------------------------------------------------------------
(* The refinement.                                                         *)

(* A decision of the shim is a decision of the gate.                       *)
LEMMA DecideRefines ==
  ASSUME PluginInv, NEW s \in Streams, NEW phase \in Phases, Outcome(s, phase, event'),
         UNCHANGED plugin
  PROVE  Gate!Decide(s)
<1>1. event'.stream = s
  BY DEF Outcome
<1>2. event'.passed <=> (Gate!Covers(plugin.policy, event'.phase)
                           => Gate!Permits(plugin.policy, event'))
  BY GateDecides
<1> QED
  BY <1>1, <1>2 DEF Gate!Decide

(* The swap is a load of the document it adopts.                           *)
LEMMA AdoptRefines ==
  ASSUME PolicyInv, AdoptPolicy
  PROVE  Gate!Load
<1>1. /\ job \in [arena : Arenas, policy : Documents]
      /\ Accepted(job.policy)
      /\ plugin'.policy = job.policy
  BY AdoptedFields DEF PolicyInv, ArenaInv
<1>2. Gate!Coherent(plugin'.policy)
  BY <1>1, AcceptedCoherent
<1>3. UNCHANGED event
  BY DEF AdoptPolicy
<1> QED
  BY <1>1, <1>2, <1>3 DEF Gate!Load

LEMMA StepRefines == PolicyInv /\ [Next]_vars => [Gate!GateNext]_(Gate!gateVars)
<1> SUFFICES ASSUME PolicyInv, [Next]_vars PROVE [Gate!GateNext]_(Gate!gateVars)
  OBVIOUS
<1>0. PluginInv
  BY DEF PolicyInv
<1>1. CASE UNCHANGED plugin /\ UNCHANGED event
  BY <1>1 DEF Gate!gateVars
<1>2. CASE AdoptPolicy
  BY <1>2, AdoptRefines DEF Gate!GateNext
<1>3. ASSUME NEW s \in Streams, Callback(s)
      PROVE  [Gate!GateNext]_(Gate!gateVars)
  <2>0. UNCHANGED plugin
    BY <1>3, CallbackKeeps
  <2>1. CASE RequestHeaders(s)
    <3>1. Gate!Decide(s)
      BY <1>0, <2>0, <2>1, RequestOutcome, DecideRefines DEF Phases
    <3> QED
      BY <3>1 DEF Gate!GateNext
  <2>2. CASE \E last \in {0, 1} : BodyEnd(s, last)
    <3>1. Gate!Decide(s)
      BY <1>0, <2>0, <2>2, BodyOutcome, DecideRefines DEF Phases
    <3> QED
      BY <3>1 DEF Gate!GateNext
  <2>3. CASE ResponseHeaders(s)
    <3>1. Gate!Decide(s)
      BY <1>0, <2>0, <2>3, ResponseOutcome, DecideRefines DEF Phases
    <3> QED
      BY <3>1 DEF Gate!GateNext
  <2>4. CASE BodyChunk(s) \/ StreamDone(s)
    BY <1>1, <2>0, <2>4 DEF BodyChunk, StreamDone
  <2> QED
    BY <1>3, <2>1, <2>2, <2>3, <2>4 DEF Callback
<1>4. CASE BeginCompile \/ RejectPolicy \/ UNCHANGED vars
  BY <1>1, <1>4 DEF BeginCompile, RejectPolicy, vars
<1> QED
  BY <1>2, <1>3, <1>4 DEF Next, Configure

(* The shim, with all it caches of the configuration, decides every phase  *)
(* of every stream as the configuration in force says, and nothing it      *)
(* refuses is ever in force (proxy_wasm.zig:214-325, 343-515).             *)
THEOREM Implements == Spec => GateImplemented
<1>1. Init => Gate!GateInit
  BY DEF Init, Unconfigured, NoEvent, Gate!GateInit
<1>2. PolicyInv /\ [Next]_vars => [Gate!GateNext]_(Gate!gateVars)
  BY StepRefines
<1> QED
  BY <1>1, <1>2, PolicyAlways, PTL DEF Spec, GateImplemented, Gate!GateSpec
=============================================================================
