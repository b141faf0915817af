------------------------------ MODULE Benchmark ------------------------------
(***************************************************************************)
(* One run of the cross-engine benchmark: the driver of bench/run.mjs and  *)
(* the six engines under bench/engines.  Engines are set up, asked for     *)
(* their decision, timed and closed in the order of ALL_ENGINES, fixture   *)
(* by fixture.  Any of those calls may throw, and the OPA servers live and *)
(* die beside the harness.  How long anything takes is not modelled here.  *)
(***************************************************************************)
EXTENDS Sidecars, Integers, Sequences

CONSTANTS
  Fixtures,   \* the fixtures in the order of their file names, as records
              \* [rego, cedar] of which policies each one carries
  Selections, \* the sets of engines --engines may name; all without it
  Machines,   \* what the harness may find, as records [tools, crate]
  Versions,   \* of cedar-policy
  MaxPolls    \* health checks before waitReady's deadline passes

ASSUME FixturesAssumption ==
  /\ Len(Fixtures) > 0
  /\ Fixtures \in Seq([rego : BOOLEAN, cedar : BOOLEAN])
  /\ Policies = DOMAIN Fixtures

ASSUME MaxPollsAssumption == MaxPolls \in Nat \ {0}

ASSUME ServersAssumption == Servers \subseteq Nat \ {0}

NoVersion == 0
NoBinary  == 0

(* bench/native/cedar: whether cargo answers, the version in Cargo.lock,   *)
(* the one Cargo.toml asks for, and the one the binary was built with.     *)
CrateType ==
  [cargo : BOOLEAN, lock : Versions \cup {NoVersion}, manifest : Versions,
   binary : Versions \cup {NoBinary}]

ASSUME MachinesAssumption ==
  /\ Versions \subseteq Nat \ {0}
  /\ \A m \in Machines : m.crate \in CrateType

VARIABLES
  tools,      \* what is installed, and whether cedar-native is asked for
  live,       \* the engines found available
  claim,      \* the version of Cedar named beside cedar-native
  stage,      \* what the driver is doing
  fixture,    \* the fixture it is doing it for
  todo,       \* the engines that have their turn to come in this stage
  open,       \* the engines set up for the fixture
  decisions,  \* what each engine answered for the fixture
  rows,       \* results: pairs of fixture and engine
  disagreed,  \* disagreements > 0
  aborted,    \* an exception is on its way out of the driver
  exitCode,
  published,  \* the rows reported
  artifacts,  \* opa-wasm: compiled, the policy each Rego text was built to
  opaBuilds,  \* how often `opa build` ran
  native,     \* cedar-native: pending and failure
  tries,      \* how often its harness was built and run
  crate,      \* the crate it is built from, and cargo
  children    \* opa-http: the server of the instance and of the cold start

driverVars == <<tools, live, claim, stage, fixture, todo, open, decisions,
                rows, disagreed, aborted, exitCode, published>>
engineVars == <<artifacts, opaBuilds, native, tries, crate, children>>
vars == <<driverVars, engineVars, servers>>

AllEngines ==
  <<"zopa", "zopa-compiled", "opa-wasm", "opa-http", "cedar", "cedar-native">>

Engines == {AllEngines[i] : i \in DOMAIN AllEngines}

(* An engine --engines names that there is not is an error, before any     *)
(* engine is looked for.                                                   *)
ASSUME SelectionsAssumption == Selections \subseteq SUBSET Engines

Subject == "zopa"

NoAnswer   == 2
Verdicts   == {-1, 0, 1}
NoArtifact == 0
Untried    == [result |-> "untried"]
Failure    == [result |-> "failure"]
NoChild    == [server |-> 0]

Uses == {"instance", "cold"}

NativeType ==
  {Untried, Failure}
    \cup [result : {"rows"}, reported : SUBSET Policies, cargo : BOOLEAN,
          measured : Versions]

ChildType ==
  {NoChild} \cup [server : Servers, polls : 0 .. MaxPolls, ready : BOOLEAN]

(* The state of the harness is what the code can hold: an engine is asked  *)
(* only when set up and timed only when live, and the memo of opa-wasm and *)
(* the cached result of cedar-native hold fixtures of this run.            *)
TypeOK ==
  /\ ServersTypeOK
  /\ tools \in {m.tools : m \in Machines}
  /\ live \subseteq Engines
  /\ claim \in Versions \cup {NoVersion}
  /\ stage \in {"selecting", "setup", "asking", "timing", "closing",
                "reporting", "done"}
  /\ fixture \in Policies
  /\ todo \subseteq live
  /\ open \subseteq live
  /\ stage \in {"asking", "timing"} => todo \subseteq open
  /\ decisions \in [Engines -> Verdicts \cup {NoAnswer}]
  /\ rows \subseteq Policies \X live
  /\ published \subseteq rows
  /\ disagreed \in BOOLEAN
  /\ aborted \in BOOLEAN
  /\ exitCode \in {0, 1}
  /\ artifacts \in [Policies -> {NoArtifact} \cup Policies]
  /\ opaBuilds \in Nat
  /\ native \in NativeType
  /\ tries \in Nat
  /\ crate \in CrateType
  /\ children \in [Uses -> ChildType]

-----------------------------------------------------------------------------
(* Which engines take part.                                                *)

AnyFixture(f) == TRUE
HasRego(f)    == Fixtures[f].rego
HasCedar(f)   == Fixtures[f].cedar

Supports(e, f) ==
  CASE e \in {"zopa", "zopa-compiled"} -> AnyFixture(f)
    [] e \in {"opa-wasm", "opa-http"}  -> HasRego(f)
    [] e \in {"cedar", "cedar-native"} -> HasCedar(f)

ZopaAvailable         == "wasm" \in tools
ZopaCompiledAvailable == {"wasm", "policy_compile"} \subseteq tools
OpaAvailable          == "opa" \in tools
CedarAvailable        == "cedar-wasm" \in tools

(* Opt-in, and either to be built or found built; the version of           *)
(* Cargo.lock is claimed only while there is a cargo to build it with.     *)
NativeAvailable ==
  "opt-in" \in tools /\ (crate.cargo \/ crate.binary # NoBinary)

VersionClaimed == IF crate.cargo THEN crate.lock ELSE NoVersion

Available(e) ==
  CASE e = "zopa"                     -> ZopaAvailable
    [] e = "zopa-compiled"            -> ZopaCompiledAvailable
    [] e \in {"opa-wasm", "opa-http"} -> OpaAvailable
    [] e = "cedar"                    -> CedarAvailable
    [] e = "cedar-native"             -> NativeAvailable

Runnable(f) == {e \in live : Supports(e, f)}

Silent == [e \in Engines |-> NoAnswer]

Init ==
  /\ \E m \in Machines : tools = m.tools /\ crate = m.crate
  /\ live = {}
  /\ claim = NoVersion
  /\ stage = "selecting"
  /\ fixture = 1
  /\ todo = {}
  /\ open = {}
  /\ decisions = Silent
  /\ rows = {}
  /\ disagreed = FALSE
  /\ aborted = FALSE
  /\ exitCode = 0
  /\ published = {}
  /\ artifacts = [f \in Policies |-> NoArtifact]
  /\ opaBuilds = 0
  /\ native = Untried
  /\ tries = 0
  /\ children = [u \in Uses |-> NoChild]
  /\ NoServers

CheckEngines ==
  /\ stage = "selecting"
  /\ \E selected \in Selections : live' = {e \in selected : Available(e)}
  /\ claim' = IF "cedar-native" \in live' THEN VersionClaimed ELSE NoVersion
  /\ IF Subject \in live'
     THEN /\ stage' = "setup"
          /\ todo' = {e \in live' : Supports(e, fixture)}
          /\ UNCHANGED exitCode
     ELSE /\ stage' = "done"
          /\ exitCode' = 1
          /\ UNCHANGED todo
  /\ UNCHANGED <<tools, fixture, open, decisions, rows, disagreed, aborted,
                 published, engineVars, servers>>

-----------------------------------------------------------------------------
(* Turns.  A stage takes the engines one by one, in the order they are     *)
(* listed; whatever throws outside a try of its own ends the run after the *)
(* fixture's engines are closed.                                           *)

Index(e) == CHOOSE i \in DOMAIN AllEngines : AllEngines[i] = e

Turn(e) == e \in todo /\ \A d \in todo : Index(e) <= Index(d)

TurnEnds(e) == todo' = todo \ {e}

Throw ==
  /\ aborted' = TRUE
  /\ stage' = "closing"
  /\ todo' = {}

SetupTurn(e) ==
  /\ stage = "setup"
  /\ Turn(e)
  /\ UNCHANGED <<tools, live, claim, stage, fixture, decisions, rows,
                 disagreed, aborted, published>>

Opened(e) ==
  /\ open' = open \cup {e}
  /\ TurnEnds(e)
  /\ UNCHANGED exitCode

(* Mutant: an engine that cannot be set up is skipped without a trace.       *)
MutantSetupFailed(e) == TurnEnds(e) /\ UNCHANGED <<exitCode, open>>

SetupFailed(e) ==
  /\ exitCode' = 1
  /\ TurnEnds(e)
  /\ UNCHANGED open

TimingTurn(e) ==
  /\ stage = "timing"
  /\ Turn(e)
  /\ UNCHANGED <<tools, live, claim, fixture, open, decisions, disagreed,
                 exitCode, published>>

Row(e) ==
  /\ rows' = rows \cup {<<fixture, e>>}
  /\ TurnEnds(e)
  /\ UNCHANGED <<stage, aborted>>

NoRow == Throw /\ UNCHANGED rows

-----------------------------------------------------------------------------
(* zopa, zopa-compiled and cedar keep nothing beyond the instance that     *)
(* setup returns: cedar takes a fresh policy set id each time.             *)

SetupInstance(e) ==
  /\ SetupTurn(e)
  /\ Opened(e) \/ SetupFailed(e)
  /\ UNCHANGED <<engineVars, servers>>

(* malloc fails, or policy_compile refuses; a Cedar policy set that does   *)
(* not parse, or a probe that errs.                                        *)
SetupZopa         == SetupInstance("zopa")
SetupZopaCompiled == SetupInstance("zopa-compiled")
SetupCedar        == SetupInstance("cedar")

(* What their decide answers.                                              *)
ZopaDecides         == Verdicts
ZopaCompiledDecides == Verdicts
CedarDecides        == Verdicts

(* Warm-up, throughput, latency and a cold start, each of which may throw. *)
TimeInstance(e) ==
  /\ TimingTurn(e)
  /\ Row(e) \/ NoRow
  /\ UNCHANGED <<engineVars, servers>>

-----------------------------------------------------------------------------
(* opa-wasm.  The memo is keyed by the text of the Rego, which no two      *)
(* fixtures share; a failed build is not remembered.                       *)

(* Mutant: the memo is keyed by the entry point, the same for every fixture. *)
MutantKey(f) == 1

Key(f) == f

(* Mutant: compile always builds.                                            *)
MutantCached == FALSE

Cached == artifacts[Key(fixture)] # NoArtifact

Compile ==
  IF Cached
  THEN UNCHANGED <<artifacts, opaBuilds>>
  ELSE /\ opaBuilds' = opaBuilds + 1
       /\ \/ artifacts' = [artifacts EXCEPT ![Key(fixture)] = fixture]
          \/ UNCHANGED artifacts

Compiled == artifacts'[Key(fixture)] # NoArtifact

SetupOpaWasm ==
  /\ SetupTurn("opa-wasm")
  /\ Compile
  /\ \/ Compiled /\ Opened("opa-wasm")
     \/ SetupFailed("opa-wasm")
  /\ UNCHANGED <<native, tries, crate, children, servers>>

(* A result set without a true result is a deny; there is no error.        *)
OpaWasmDecides == {0, 1}

TimeOpaWasm ==
  /\ TimingTurn("opa-wasm")
  /\ Compile
  /\ \/ Compiled /\ Row("opa-wasm")
     \/ NoRow
  /\ UNCHANGED <<native, tries, crate, children, servers>>

-----------------------------------------------------------------------------
(* cedar-native.  The harness is built and run once for all fixtures; its  *)
(* rows, or its failure, are kept.                                         *)

(* Until then cargo may stop or start to answer and Cargo.toml may be      *)
(* edited; Cargo.lock is nobody's to edit but cargo's.  Nothing of it is   *)
(* looked at afterwards.                                                   *)
CrateChanges ==
  /\ native = Untried
  /\ "cedar-native" \in live
  /\ \E cargo \in BOOLEAN, manifest \in Versions :
       crate' = [crate EXCEPT !.cargo = cargo, !.manifest = manifest]
  /\ UNCHANGED <<driverVars, artifacts, opaBuilds, native, tries, children,
                 servers>>

(* Mutant: without --locked: cargo makes Cargo.lock agree with Cargo.toml.   *)
MutantBuild ==
  IF crate.cargo
  THEN crate' = [crate EXCEPT !.lock = crate.manifest, !.binary = crate.manifest]
  ELSE UNCHANGED crate

(* cargo is asked for once more, and builds from Cargo.lock or not at all. *)
Build ==
  IF crate.cargo
  THEN /\ crate.manifest = crate.lock
       /\ crate' = [crate EXCEPT !.binary = crate.lock]
  ELSE UNCHANGED crate

(* What the binary reports is about the version it was built with.         *)
RunHarness ==
  \/ /\ native' = Failure
     /\ Build \/ UNCHANGED crate
  \/ /\ Build
     /\ crate'.binary # NoBinary
     /\ \E reported \in SUBSET {f \in Policies : Fixtures[f].cedar} :
          native' = [result |-> "rows", reported |-> reported,
                     cargo |-> crate.cargo, measured |-> crate'.binary]

(* Mutant: the failure is not kept.                                          *)
MutantNativeRows ==
  IF native.result # "rows"
  THEN RunHarness /\ tries' = tries + 1
  ELSE UNCHANGED <<native, tries, crate>>

NativeRows ==
  IF native = Untried
  THEN RunHarness /\ tries' = tries + 1
  ELSE UNCHANGED <<native, tries, crate>>

HasRow(n) == n.result = "rows" /\ fixture \in n.reported

SetupNative ==
  /\ SetupTurn("cedar-native")
  /\ NativeRows
  /\ IF HasRow(native') THEN Opened("cedar-native") ELSE SetupFailed("cedar-native")
  /\ UNCHANGED <<artifacts, opaBuilds, children, servers>>

NativeDecides == {0, 1}

(* The engine brings its own row; without one only that row is lost.       *)
MeasuredRow == HasRow(native')

MeasureNative ==
  /\ stage = "timing"
  /\ Turn("cedar-native")
  /\ NativeRows
  /\ TurnEnds("cedar-native")
  /\ IF MeasuredRow
     THEN rows' = rows \cup {<<fixture, "cedar-native">>} /\ UNCHANGED exitCode
     ELSE exitCode' = 1 /\ UNCHANGED rows
  /\ UNCHANGED <<tools, live, claim, stage, fixture, open, decisions,
                 disagreed, aborted, published, artifacts, opaBuilds, children,
                 servers>>

-----------------------------------------------------------------------------
(* opa-http.  setup spawns a server on a port it draws and polls /health;  *)
(* the cold start does so again while the first server is up.  Servers     *)
(* bounds how many processes there are at once.                            *)

Port(u) == servers[children[u].server].port

Answers(u) == AnsweringOn(Port(u)) # {}

Spawn(u) ==
  /\ children[u] = NoChild
  /\ \E s \in Servers, port \in Ports :
       /\ servers[s] = Absent
       /\ \A t \in Servers : servers[t] = Absent => s <= t
       /\ servers' = Spawned(s, port, fixture)
       /\ children' = [children EXCEPT
                         ![u] = [server |-> s, polls |-> 0, ready |-> FALSE]]

Kill(us) ==
  /\ servers' = Signalled({children[u].server : u \in us} \ {0})
  /\ children' = [u \in Uses |-> IF u \in us THEN NoChild ELSE children[u]]

(* child.exitCode is set by a server that exits and not by one that is     *)
(* killed, which is waited for until the deadline.                         *)
Exited(u) == servers[children[u].server].status = "exited"

(* Mutant: the loop ends on an early exit only.                              *)
MutantGivesUp(u) == Exited(u)

GivesUp(u) == children[u].polls = MaxPolls \/ Exited(u)

Polling(u) == children[u] # NoChild /\ ~children[u].ready

SidecarDecides == IF Answers("instance") THEN {0, 1} ELSE {}

(* A pass of waitReady that does not give up: the check for an early exit, *)
(* then whoever answers on the port.                                       *)
Healthy(u) ==
  /\ ~GivesUp(u)
  /\ Answers(u)
  /\ children' = [children EXCEPT ![u].ready = TRUE]
  /\ UNCHANGED servers

PollAgain(u) ==
  /\ ~GivesUp(u)
  /\ children' = [children EXCEPT ![u].polls = @ + 1]
  /\ UNCHANGED <<todo, servers>>

SpawnSidecar ==
  /\ SetupTurn("opa-http")
  /\ \/ Spawn("instance") /\ UNCHANGED <<todo, open, exitCode>>
     \/ /\ children["instance"] = NoChild
        /\ SetupFailed("opa-http")
        /\ UNCHANGED <<children, servers>>
  /\ UNCHANGED <<artifacts, opaBuilds, native, tries, crate>>

AwaitSidecar ==
  /\ SetupTurn("opa-http")
  /\ Polling("instance")
  /\ \/ Healthy("instance") /\ Opened("opa-http")
     \/ PollAgain("instance") /\ UNCHANGED <<open, exitCode>>
     \/ GivesUp("instance") /\ Kill({"instance"}) /\ SetupFailed("opa-http")
  /\ UNCHANGED <<artifacts, opaBuilds, native, tries, crate>>

(* Warm-up, throughput and latency, answered by whoever is on the port;    *)
(* then the server of the cold start.                                      *)
TimeSidecar ==
  /\ TimingTurn("opa-http")
  /\ children["cold"] = NoChild
  /\ \/ /\ Answers("instance")
        /\ Spawn("cold")
        /\ UNCHANGED <<todo, stage, aborted, rows>>
     \/ NoRow /\ UNCHANGED <<children, servers>>
  /\ UNCHANGED <<artifacts, opaBuilds, native, tries, crate>>

AwaitCold ==
  /\ TimingTurn("opa-http")
  /\ Polling("cold")
  /\ \/ Healthy("cold") /\ UNCHANGED <<todo, stage, aborted, rows>>
     \/ PollAgain("cold") /\ UNCHANGED <<stage, aborted, rows>>
     \/ GivesUp("cold") /\ Kill({"cold"}) /\ NoRow
  /\ UNCHANGED <<artifacts, opaBuilds, native, tries, crate>>

(* The first decision; the finally closes the second server either way.    *)
DecideCold ==
  /\ TimingTurn("opa-http")
  /\ children["cold"] # NoChild
  /\ children["cold"].ready
  /\ Kill({"cold"})
  /\ \/ Answers("cold") /\ Row("opa-http")
     \/ NoRow
  /\ UNCHANGED <<artifacts, opaBuilds, native, tries, crate>>

-----------------------------------------------------------------------------
(* The driver.                                                             *)

AskEngines ==
  /\ stage = "setup"
  /\ todo = {}
  /\ stage' = "asking"
  /\ todo' = open
  /\ UNCHANGED <<tools, live, claim, fixture, open, decisions, rows, disagreed,
                 aborted, exitCode, published, engineVars, servers>>

Decides(e) ==
  CASE e = "zopa"          -> ZopaDecides
    [] e = "zopa-compiled" -> ZopaCompiledDecides
    [] e = "opa-wasm"      -> OpaWasmDecides
    [] e = "opa-http"      -> SidecarDecides
    [] e = "cedar"         -> CedarDecides
    [] e = "cedar-native"  -> NativeDecides

(* A decision, or an exception: not of cedar-native, which only reads its  *)
(* row.                                                                    *)
Ask(e) ==
  /\ stage = "asking"
  /\ Turn(e)
  /\ \/ /\ \E v \in Decides(e) : decisions' = [decisions EXCEPT ![e] = v]
        /\ TurnEnds(e)
        /\ UNCHANGED <<stage, aborted>>
     \/ e # "cedar-native" /\ Throw /\ UNCHANGED decisions
  /\ UNCHANGED <<tools, live, claim, fixture, open, rows, disagreed, exitCode,
                 published, engineVars, servers>>

(* zopa's answer is undefined when it could not be set up, and then every  *)
(* other engine differs from it.                                           *)
Disagree ==
  \/ \E e \in open : decisions[e] # decisions[Subject]
  \/ decisions[Subject] = -1

(* Mutant: only this fixture's disagreement withholds the timing.            *)
MutantGate ==
  /\ stage = "asking"
  /\ todo = {}
  /\ disagreed' = (disagreed \/ Disagree)
  /\ IF Disagree
     THEN stage' = "closing" /\ UNCHANGED todo
     ELSE stage' = "timing" /\ todo' = open
  /\ UNCHANGED <<tools, live, claim, fixture, open, decisions, rows, aborted,
                 exitCode, published, engineVars, servers>>

Gate ==
  /\ stage = "asking"
  /\ todo = {}
  /\ disagreed' = (disagreed \/ Disagree)
  /\ IF disagreed'
     THEN stage' = "closing" /\ UNCHANGED todo
     ELSE stage' = "timing" /\ todo' = open
  /\ UNCHANGED <<tools, live, claim, fixture, open, decisions, rows, aborted,
                 exitCode, published, engineVars, servers>>

TimingEnds ==
  /\ stage = "timing"
  /\ todo = {}
  /\ stage' = "closing"
  /\ UNCHANGED <<tools, live, claim, fixture, todo, open, decisions, rows,
                 disagreed, aborted, exitCode, published, engineVars, servers>>

(* The closes that do something, and may throw.                            *)
Closeable == {"zopa", "zopa-compiled", "opa-http"}

(* Mutant: one try around all the closes.                                    *)
MutantClosed(failing) ==
  {e \in open : \A f \in failing : Index(e) <= Index(f)}

(* The engines whose close is reached when those in failing throw: each    *)
(* has a try of its own.                                                   *)
Closed(failing) == open

(* An uncaught exception then ends the process with status 1.              *)
CloseAll ==
  /\ stage = "closing"
  /\ \E failing \in SUBSET (open \cap Closeable) :
       Kill(IF "opa-http" \in Closed(failing) THEN {"instance"} ELSE {})
  /\ open' = {}
  /\ IF aborted
     THEN /\ stage' = "done"
          /\ exitCode' = 1
          /\ UNCHANGED <<fixture, todo, decisions>>
     ELSE /\ UNCHANGED exitCode
          /\ IF fixture < Len(Fixtures)
             THEN /\ stage' = "setup"
                  /\ fixture' = fixture + 1
                  /\ todo' = Runnable(fixture + 1)
                  /\ decisions' = Silent
             ELSE /\ stage' = "reporting"
                  /\ UNCHANGED <<fixture, todo, decisions>>
  /\ UNCHANGED <<tools, live, claim, rows, disagreed, aborted, published,
                 artifacts, opaBuilds, native, tries, crate>>

Report ==
  /\ stage = "reporting"
  /\ stage' = "done"
  /\ IF disagreed
     THEN exitCode' = 1 /\ UNCHANGED published
     ELSE published' = rows /\ UNCHANGED exitCode
  /\ UNCHANGED <<tools, live, claim, fixture, todo, open, decisions, rows,
                 disagreed, aborted, engineVars, servers>>

-----------------------------------------------------------------------------
HarnessStep ==
  \/ CheckEngines
  \/ SetupZopa \/ SetupZopaCompiled \/ SetupCedar
  \/ \E e \in {"zopa", "zopa-compiled", "cedar"} : TimeInstance(e)
  \/ SetupOpaWasm \/ TimeOpaWasm
  \/ SetupNative \/ MeasureNative
  \/ SpawnSidecar \/ AwaitSidecar
  \/ TimeSidecar \/ AwaitCold \/ DecideCold
  \/ AskEngines
  \/ \E e \in Engines : Ask(e)
  \/ Gate
  \/ TimingEnds
  \/ CloseAll
  \/ Report

ServerStep == ServersNext /\ UNCHANGED <<driverVars, engineVars>>

(* The process is gone, and so are the servers: it may stop here.          *)
Over ==
  /\ stage = "done"
  /\ \A s \in Servers : ~Running(s)
  /\ UNCHANGED vars

Next == HarnessStep \/ ServerStep \/ CrateChanges \/ Over

(* The harness runs on, every await of its own being bounded by a deadline *)
(* or by a server that answers, and a server that is signalled dies.       *)
Fairness ==
  /\ WF_vars(HarnessStep)
  /\ \A s \in Servers : WF_vars(Die(s) /\ UNCHANGED <<driverVars, engineVars>>)

Spec == Init /\ [][Next]_vars /\ Fairness
-----------------------------------------------------------------------------
(* The promise of the harness (run.mjs 5-9): nothing is timed before every *)
(* engine has answered as zopa did, and a disagreement anywhere withholds  *)
(* all timings, whatever was thrown, skipped or misanswered before.        *)
Fair == INSTANCE FairBenchmark
          WITH answers <- decisions, timed <- rows, condemned <- disagreed,
               LastFixture <- Len(Fixtures)

BenchmarkImplemented == Fair!Spec

(* A run that exits with 0 reports a row for every engine it found and     *)
(* every fixture that engine supports: no failure on the way is swallowed. *)
CleanExitIsComplete ==
  stage = "done" /\ exitCode = 0
    => published = {row \in Policies \X live : Supports(row[2], row[1])}

(* No server is left behind (run.mjs 210-213): one that still runs without *)
(* a signal is one the harness holds, and at the end it holds none.        *)
NoSidecarLost ==
  \A s \in Servers :
    Running(s) /\ ~servers[s].signalled
      => stage # "done" /\ \E u \in Uses : children[u].server = s

(* OPA is asked about the policy of the fixture at hand: opa-wasm holds    *)
(* its artifact, and on the port of a sidecar nobody else answers, but for *)
(* a server of an earlier fixture that has not yet obeyed its signal.      *)
AskedAboutItsFixture ==
  /\ "opa-wasm" \in open => artifacts[Key(fixture)] = fixture
  /\ \A u \in Uses :
       children[u] # NoChild =>
         \A s \in AnsweringOn(Port(u)) :
           servers[s].policy = fixture \/ servers[s].signalled

(* A build that cannot succeed is not tried again for the next fixture     *)
(* (cedar-native.mjs 148-152).                                             *)
HarnessTriedOnce == tries <= 1

(* A version named beside a row is the version the row was measured with   *)
(* (cedar-native.mjs 97-117), whatever binary was lying there and whatever *)
(* became of Cargo.toml since the version was read; unless cargo, there    *)
(* when the version was claimed, was gone when it was to build.            *)
NoUnmeasuredClaim ==
  \A f \in Policies :
    <<f, "cedar-native">> \in rows /\ claim # NoVersion /\ native.cargo
      => native.measured = claim

(* No compiler runs inside a measurement: not for a cold start of opa-wasm *)
(* (opa-wasm.mjs 42-45), not for a row of cedar-native.                    *)
TimingBuildsNothing ==
  [][stage = "timing" => UNCHANGED <<opaBuilds, tries>>]_vars

(* Every run ends, whichever server dies or never answers, and in the end  *)
(* no server is running.                                                   *)
RunEnds == <>[](stage = "done" /\ \A s \in Servers : ~Running(s))

(* What opa-http.mjs 62-64 expects of a drawn port that is taken: "let a   *)
(* collision surface as the early-exit error above".  A server found ready *)
(* would then be the one that was started.                                 *)
CollisionIsAnExit ==
  [][\A u \in Uses :
       Polling(u) /\ children[u]'.server = children[u].server
       /\ children[u]'.ready
         => children[u].server \in AnsweringOn(Port(u))]_vars
=============================================================================
