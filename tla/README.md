# zopa in TLA+

zopa is a policy engine compiled to WebAssembly: a subset of Rego, as a JSON AST,
decided over a JSON input. It runs in two ways. An embedder calls the exports of
`src/main.zig` (one-shot `evaluate*`, or `policy_compile` / `evaluate_compiled*` /
`policy_release`). A proxy loads it as a proxy-wasm filter, and `src/proxy_wasm.zig`
turns host callbacks into inputs, evaluations and local responses. Beside it, `bench/`
holds a harness that compares zopa with OPA and Cedar, and the gate CI runs on its numbers.

This directory models that code, checks the models with TLC and proves some of the
results for every value of the constants with TLAPS. Paths below are relative to
`src/` in the source tree unless they start with `docs/` or `bench/`.

## 1. Inventory

### Components

| component | state it keeps | operations | module here |
|---|---|---|---|
| registry of compiled policies, `policy.zig` | slot table (entry pointer, generation); one heap entry with its own arena per policy | `compile`, `evaluateAddressed`, `release`, `deinit` | `Registry`, promise in `PolicyStore` |
| exports, `main.zig` | the one registry; the request arena is reset when an export returns | `policy_compile`, `policy_release`, `evaluate_compiled*`, one-shot `evaluate*`, `malloc`/`free` | answers and handle conversions in `Registry`, `Evaluator` |
| target resolution, `targets.zig` | none (a function of the configuration) | `shapeOf`, `build`, `defaults` | `Targets` |
| body dependency analysis, `body_deps.zig` | none | `analyzeTarget`, `classifyRef` | `BodyDeps`; per rule in `Targets` |
| proxy-wasm shim, `proxy_wasm.zig` | nine globals: policy and its arena, targets of three phases, two phase switches, body class, last status | configure/reconfigure; request headers, request body, response headers, done | `ProxyWasm`, promise in `AuthzGate` |
| rule combination, `eval.zig` `evalBundle` | a scan position, the decision so far, the fallback | one evaluation | `BundleEval`, meaning in `CompleteRule` |
| expression evaluator, `eval.zig` | recursion: scope chain and depth | one helper per kind of node | `Evaluator`, meaning in `RegoMeaning` |
| AST builder, `ast.zig` | none | `buildModulesBundle`, `buildRule`, `buildExpr`, `validateDefaults` | `Ast`, `BundleEval` |
| values and builtins, `json.zig`, `builtins.zig` | none | lookup, equality, order; four builtins | `Values` |
| header maps, `wire.zig` `decodeHeaderMap` | an offset into the host's dump | one decode | `HeaderMap` |
| benchmark driver, `bench/run.mjs` | live and open engines, answers, rows, disagreements, exit code | select, set up, ask, gate, time, close, report | `Benchmark`, promise in `FairBenchmark` |
| benchmark engines, `bench/engines/*.mjs` | the memo of `opa-wasm`, the cached harness of `cedar-native`, the children of `opa-http` | `available`, `supports`, `setup`, `decide`, `measure`, `close` | `Benchmark`; the server processes in `Sidecars` |
| regression gate, `bench/compare.mjs` | the baseline file | seed, compare | `RegressionGate`, with the window of `run.mjs` |
| JSON parser, `json.zig` | position and depth | `parse` | planned |
| input synthesis, `wire.zig` | none | `buildRequestInput`, `buildBodyInput`, `buildResponseInput` | planned |
| allocators, `memory.zig` | the request arena | `requestArena`, `resetRequestArena`, `hostMalloc`, `hostFree` | planned |

### How they interact

The module runs on one thread of one VM. There is no lock and no await: the
interleavings that exist are those of *calls* (an embedder's, in any legal order) and
of *callbacks* (several streams and the plugin's configuration, one at a time). A
callback makes host calls, each of which can fail on its own: those that read the request, and
the one that sends a denial, whose status the shim discards.

* `policy_compile` → `Registry.compile` → parse → build → install. Each step can fail, an
  `errdefer` undoes the ones before it, and the host gets a handle or -1.
* `proxy_on_configure` → `compilePolicy` → parse → `targets.shapeOf` → build →
  `targets.build` → `body_deps.analyzeTarget` → swap of all globals. Before the swap the old
  policy stays in force; after it, the old arena is gone.
* `proxy_on_request_headers` → header map → input → `decideTargets` → `evalBundle` → the
  expression evaluator → 403 and Pause, or Continue. The body callback adds buffering
  (Pause until end of stream) and the cap on the body; the response callback answers
  503 and Continue.

* `bench/run.mjs` drives the engines one at a time, fixture by fixture, and awaits each call:
  `available` → `setup` → `decide` → the agreement gate → warm-up, throughput, latency, cold
  start → `close` → report. `opa-http` spawns servers that live, bind ports and die on their own
  time; `opa-wasm` and `cedar-native` keep what they built between fixtures.
* `bench/compare.mjs` reads the JSON of a run and either seeds a baseline or compares the two.

### What is hard

* Handles outlive policies: slots and heap addresses are reused, generations run out.
* A failure between two steps of compile or of a reconfigure must leave exactly the right
  thing allocated and in force.
* A reconfigure can fall between two chunks of a stream's body.
* The pair (action, local response) has opposite rules on the request and response sides.
* A phase may have several targets, some advisory, and a body may exceed the buffer.
* An expression can be undefined, and null is spelled like undefined in the code; negation,
  assignment and the recursion cap each have to keep the three apart.
* The static analysis must over-approximate what the evaluator really reads.
* Sizes in a header dump come from the host and are summed in 32-bit words.
* In the benchmark any call may throw between any two others, and a server may die, linger
  after its signal, or answer on a port that another was given.
* Whether a number may be printed depends on answers and failures of other engines and of
  earlier fixtures.
* The gate compares counts of two runs on runners of unknown speed, and a window may be empty.

### What makes each component correct

* registry: a handle names one policy from issue to release and then never again; every
  entry has one owner (`StoreImplemented`, `StaleStaysStale`, `HandleKeepsPolicy`,
  `EntriesOwned`);
* shim: what it decides is what the configuration alone says (`GateImplemented`); nothing
  passes unasked; bodies are decided whole; nothing of a denied request goes on, even where
  the host does not send the answer (`IterationSound`); the arena in force is the arena allocated;
* targets: a configured rule is evaluated or the configuration is refused
  (`NoRuleIgnored`);
* rule combination: the order of rules does not matter (`CompleteRuleImplemented`);
* evaluator: a decision is what the policy means (`DecidesMeaning`), the depth cap is a
  matter of the policy's shape (`ShallowNeverTooDeep`);
* body analysis: a rule's answer depends on no more of the body than its class says
  (`UnreadBodyIrrelevant`, `PrefixSuffices`);
* header maps: only declared bytes of the dump are copied, and only dumps that declare too
  much are refused (`SlicesInBounds`, `RefusedDoesNotFit`);
* benchmark: nothing is timed before everyone agreed and one disagreement withholds
  everything (`BenchmarkImplemented`); an exit status of 0 means a complete report
  (`CleanExitIsComplete`); no server survives (`NoSidecarLost`, `RunEnds`); OPA is asked about the
  fixture at hand (`AskedAboutItsFixture`); nothing is built inside a measurement
  (`TimingBuildsNothing`), the native harness is tried once and what cargo builds is the version
  claimed (`HarnessTriedOnce`, `NoUnmeasuredClaim`);
* regression gate: against the threshold of the baseline, a slow runner does not fire it, a
  loss well above it does, and what is seeded passes against itself (`NoFalseAlarm`, `SlowdownCaught`, `BaselineAcceptsItself`).

`PROJECT.json` lists every hazard at its line with the properties that watch it.

## 2. The modules

Abstract specifications are in modules of their own and know nothing of the code's
mechanics; each detailed module instantiates its own.

### `PolicyStore`, `Registry`, `RegistryProofs`

`slots` is `Registry.slots`, `heap` says what each address holds (nothing, an entry whose
arena is live but empty, or an entry with its bundle), `stage` and `building` are the
progress of `compile`, `answer` is the export that last returned. `CreateEntry`,
`BuildBundle`, `ReuseSlot`/`AppendSlot` are the steps of `compile`; `CreateFails`,
`BuildFails`, `InstallFails` its failures with the `errdefer` chain (`Unwind`). The steps of a
compile are separate actions only because each can fail: nothing else runs between them.
A handle is decoded exactly as in `lookup` (`% IndexSpan`, `\div IndexSpan`), and hosts pass
every i32 around the issued range, including 0 and -1.

`PolicyStore` has no slots and no addresses: `Issue` hands out a handle never issued before,
`Free` ends it, `Decide` answers from the bound policy or refuses. The mapping: `bound` is
the bundle behind every handle that resolves, `spent` is every generation of every slot.

### `Targets`, `AuthzGate`, `ProxyWasm`, `ProxyWasmProofs`

A configuration document is a record of what `compilePolicy` can tell apart (`builds`,
`wrapped`, rules with what they read, targets). `plugin` holds the shim's globals, `job` the
compile under way with its arena, `streams` the host's view of each stream, `event` the last
phase decided. Actions are the callbacks: `BeginCompile` / `RejectPolicy` / `AdoptPolicy`
(`compilePolicy`, whose failures all come before the swap), `RequestHeaders`, `BodyChunk` and
`BodyEnd` (`proxy_on_request_body` before and at end of stream), `ResponseHeaders`,
`StreamDone`. Faults of host calls are drawn per callback: the ones the code turns into a
denial (`Fatal`) and the one it does not, a pseudo-header that cannot be read. The verdicts of
rules are arbitrary but for the rules the policy does not define, which deny.

The host's part (what Pause and Continue do, with and without a local response) is
external: `RequestStage` and `ResponseFate` translate what the comments at
`proxy_wasm.zig:330-335, 365-380, 420-430` say of it. Whether it sends the local response it is
asked for is drawn per callback (`Deliveries`), because `denyWithStatus` discards the status of
`proxy_send_local_response`. A denied request is then `answered`, or `stalled`: paused without an
answer, until the host gives it up (`StreamDone`), possibly with a response of its own. A denied
response is `replaced`, or `undenied`: the upstream's goes out. `denied` records
for each side of a stream whether a phase denied it, and no action reads it; `IterationSound`
compares it with where the stream ended up. A stream that was paused by a denial is taken to get no
further request callbacks, as the host's stop of the iteration means.

`AuthzGate` states what an operator may rely on from the document alone: which rules cover a
phase, which of them enforce, and when a phase passes. The mapping is direct
(`policy <- plugin.policy`, `outcome <- event`), so the refinement says that everything the
shim caches (targets, switches, class) agrees with the document in force at every decision.

### `CompleteRule`, `BundleEval`, `BundleEvalProofs`

`BundleEval` is `evalBundle`'s double loop, flattened, one action per outcome of an
iteration. What a body and a value evaluate to is part of the rule record. `CompleteRule`
defines the decision in one formula over the *set* of rules.

### `Values`, `Ast`, `BodyDeps`, `Evaluator`, `RegoMeaning`, `EvaluatorProofs`, `MeaningProofs`

`Values` is `json.Value` with lookup, equality, order and the builtins; `Ast` the nodes, what
`buildExpr` / `buildRule` accept and the walk of a path; `BodyDeps` the analyser; `Evaluator` the
helpers of `eval.zig` one by one, each with the depth it passes on, errors and undefined kept
apart. A policy of one rule is written statement by statement (`WriteStatement`), built
(`BuildRule`, which refuses what the builder refuses) and decided (`Evaluate`).

What exists is a constant: `JsonValues` the values, with the parts of each among them, `Nodes` the
expressions, with those nested in each among them, and `Height` how deep an expression is nested.
They may be all the values and all the expressions there are; a run takes those its grammar and
its inputs need. Whatever the code computes by recursion is a recursive function over them:
`Equal` and `Order` on pairs of values, `Walk` on a value and a path, `Parts` and `Meaning` on
expressions. The visit of the analyser goes down to every part and tells each part's share from
the part alone, so that `Visit` is a union over `Parts`.

The code's helpers call one another in a cycle (`eval.zig:28`), and nearly every call passes
`depth + 1`. `Eval[d]` is the evaluator at depth `d`: what each helper makes of a node in an
environment (`node`) and what is left of a body makes of one (`body`). A helper is written over
`deeper`, the evaluator from `d + 1` on; the few calls that keep the depth are calls of the
operator itself. At the cap every helper that would go deeper is cut off by `Within`, so nothing
is below. The statements of a body between two assignments are evaluated at one depth: `EvalConditions`
is the loop of `evalBodyScoped` over them, the first that does not hold answering for it.

`evalCall` and `evalCallLifted` differ only in how an argument is resolved and are one
operator with a flag; `resolveOperandLifted` is folded into `ResolveDefined`, its only caller.
The cap on arguments (`max_builtin_args`) cannot be met by a rule that was built, since the
builder checks the arity.

`RegoMeaning` is the reference: three-valued, no depth, no order, no errors, negation as
`docs/ast.md` and the comments of `evalNegation` describe OPA. A body is a set of environments in
which it holds (`Holding`). A meaning is taken with or without an explicit null holding as a
condition; `DecidesMeaning` is about the latter, the run `null_is_truthy` about the former.

### `HeaderMap`, `HeaderMapProofs`

`decodeHeaderMap` field by field over words of a given width; bytes are not kept, offsets
are. The host picks the dump's length, the count and each pair of sizes; an allocation
may fail at each header.

### `FairBenchmark`, `Sidecars`, `Benchmark`, `BenchmarkProofs`

`Benchmark` is one run of `bench/run.mjs`. `stage` is where the driver is (`selecting`, `setup`,
`asking`, `timing`, `closing`, `reporting`, `done`), `todo` the engines whose turn is to come in that
stage: `Turn` takes them in the order of `ALL_ENGINES`, as the `for` loops do. A step is one
awaited call of one engine, so that servers may act in between; the calls of `opa-http` are
split at each poll of `/health`. An exception outside an engine's own `try` is `Throw`: it goes
to `closing` with `aborted` set, as the `finally` of the fixture does, and the process then
ends with status 1. `zopa`, `zopa-compiled` and `cedar` keep nothing between calls and share
`SetupInstance` and `TimeInstance`; their answers are arbitrary.

`Sidecars` holds the OPA servers as processes: `starting`, `listening` (at most one per port),
gone by themselves (`exited`, or `killed` by a signal of somebody else, which leaves
`child.exitCode` null), or `signalled` by the harness and still answering until `Die`. It is
external but for what `opa-http.mjs` does to it. `children` is the harness's side: the server of
the instance and of the cold start, the polls made and whether it was found ready.

`crate` is `bench/native/cedar` as `cedar-native.mjs` meets it: whether `cargo --version` answers, the version of
Cedar in `Cargo.lock`, the one `Cargo.toml` asks for, and the one the binary was built with. `claim`
is the version `available()` names, read from `Cargo.lock` if cargo answered then. `Build` asks for cargo
again, when the harness is run: with it, `cargo build --locked` builds what `Cargo.lock` says or fails
because `Cargo.toml` disagrees; without it, the binary is used as it is. In between
`CrateChanges` lets cargo appear or vanish and `Cargo.toml` change.

`FairBenchmark` knows no engines' mechanics: an engine answers, is timed only when every
answer given is the subject's and is a decision, and rows are published only by a run that
was not condemned. The mapping is `answers <- decisions`, `timed <- rows`,
`condemned <- disagreed`. That an engine which is open has answered, that a throw between two
answers times nothing, and that the subject may be missing are what the refinement checks.

### `RegressionGate`, `RegressionGateProofs`

Time is in ticks and a build is its cost per decision of each fixture and engine. `Measure`
is a run of any subset of the rows on a runner of any speed, with a part of a window lost to
a stall; `WindowCount` is the closed form of the loop of `throughput`, and `MCRegressionGate`
assumes (and TLC evaluates) that the loop counts the same. `Seed`, `Push` and `Compare`
are `compare.mjs` without a baseline, a change, and `compare.mjs` with one. Ratios are kept as
fractions and so are thresholds: a seeded baseline stores the default of 3/2, `Retune` is
whoever stores another or removes it, and the stored one wins (`Effective`). Nothing is rounded.
The two properties of the gate keep a margin of 64/49 to the threshold, which is what two
overrunning windows can add up to; with the default, every build that held its ground is
to pass and every doubled cost is to be caught.

### Abstractions

Strings are sequences of byte codes and names are usually one code; numbers are integers,
where the code has f64 (parsing of numbers and the index bound `max_path_index` are out
of the model; NaN cannot be written in JSON). Body sizes are chunks. `prefix_count` matters
only as zero or not. Logging, the text of responses and counters are left out.

## 3. The runs

| run | instance | what it shows |
|---|---|---|
| `registry` | 2 slots, 3 generations, 3 addresses, 2 good documents and a malformed one, hosts pass -1..12 | ownership, stale and live handles, refinement of `PolicyStore` |
| `proxy_wasm` | 1 stream, 2 arenas, 6 documents, cap 1 chunk, bodies up to 2, local responses sent or refused | all the shim's safety properties and refinement of `AuthzGate` |
| `configurations` | every document over four rules and pairs of target entries | `NoRuleIgnored`, and refinement of `AuthzGate`: no document is decided otherwise than it says |
| `bundle_eval` | every bundle of up to 4 rules of 13 kinds | the loop invariant and refinement of `CompleteRule` |
| `evaluator` | every rule of one statement, or of two that start with a binding, of a grammar of about 300 statements; 15 inputs; depth cap 5; 123,822 states | the decision is the meaning; cap, class and prefix properties |
| `header_map` | 6-bit words, all dump lengths, counts and sizes next to 0 and to the width | slices in bounds, no false refusal |
| `host_error_denies`, `advisory_never_blocks` | as `proxy_wasm` | expected to be violated, see Findings |
| `null_is_truthy` | as `evaluator`, one statement | expected to be violated |
| `benchmark` | 3 fixtures, 7 machines, 2 versions of Cedar, 2 selections, 3 servers at once, 2 ports, 2 polls | refinement of `FairBenchmark`, complete reports, no server lost, no stale policy, no build while timing, no claim of a version that was not measured, and that every run ends |
| `port_collision` | as `benchmark` | expected to be violated |
| `regression_gate` | 2 fixtures, 1 rival, 6 builds, 2 speeds, stored thresholds of 1, 3, the default 3/2 and none, a window of 28 ticks, stalls of none or all of it | no false alarm, no missed slowdown, no baseline that fails itself |

### Why the bounds are enough

* Registry: 2 slots let one be reused while the other is live; 3 generations let a slot be
  reused, reach its last generation and be retired; 3 addresses are one more than slots, so that freed
  addresses are reused by another slot. The proofs have no bounds.
* ProxyWasm: state is shared between streams only through `plugin`, which other streams
  do not write, so one stream meets every interleaving with a reconfigure; 2 arenas are what
  a reconfigure needs (a third is never live at once). Bodies of 0, 1 and 2 chunks lie
  below, at and above the cap. The six documents cover both shapes, defaults, several
  targets per phase, advisory targets, and one that must be refused. The proofs have no bound
  on streams, arenas, documents, the cap or the length of bodies.
* BundleEval: three rules show a conflict before or after a default; four leave room for an
  unrelated rule between. The proofs have no bound.
* Evaluator: the grammar has each kind of node in each position an operand, a condition, a
  source, a body or a bound value can take, over refs that are present, absent, null, of the
  wrong type, bound, and into the body. The cap of 5 (32 in the code) is reached by the
  deeper statements, so that both sides of it occur. The nodes are the statements with all that
  is nested in them, the values those of the literals and inputs with what iterations and builtins
  make of them. Two inputs share a body but for what is raw, and two a prefix of it but for the
  rest, which is what the two properties of the analyser compare. The proofs have no bound: not on
  policies, documents or the cap.
* HeaderMap: 6-bit words make every sum that can wrap wrap. The proofs have no bound.
* Benchmark: two fixtures with all policies show what one leaves to the next (memo, cached
  harness, disagreement, lingering server), the third is one that only the zopa engines
  support. A server per use and one still dying make three; `SpawnSidecar` waits for
  a process to be free only because of that bound. Two ports make a drawn port taken or
  free. Four of the machines let cedar-native be asked for: a fresh crate, one bumped since its binary was
  built, one bumped in `Cargo.toml` only, and a binary without cargo; from there cargo comes and
  goes and `Cargo.toml` changes until the harness is run. Two versions are enough to differ. Two polls (dozens in the code) give a server time to start late or die between them.
  The engines without processes are run with each other and `opa-http` with `zopa`: they
  share only the driver's stages. The proofs have no bound.
* RegressionGate: costs of 1 to 3 ticks on runners of speed 1 and 2 put the ratio on both
  sides of the threshold and at it; a threshold of 3 is above every loss of some pairs and below
  that of others, one of 1 asks for a gain before a build counts as well below it; 28 ticks hold the seven decisions of the properties'
  precondition for most of them and fewer for the dearest on the slow runner. A real window
  holds hundreds of decisions or more, so the precondition costs nothing there. A stall of
  the whole window is a row that counted nothing. The proofs have no bound.

`CHECK_DEADLOCK FALSE` stands where the system really stops: the registry after `deinit`, a
configuration loaded once, a scan that returned, a policy decided once, a dump decoded once.

### Fairness

One property needs it, and only the benchmark has fairness. That a stream held at a body is ever
decided is the host's promise (it delivers the end of a body it started to deliver), about which
the shim's code has nothing to get wrong, so nothing is checked of it.

`RunEnds` (benchmark): `WF(HarnessStep)`, since the driver awaits its own loops, child
processes with deadlines, and HTTP answers; and `WF` of `Die` for each server, since one that
was sent SIGTERM exits. A server is never assumed to start, to become healthy or to stay
up. `CrateChanges` is not fair either: the run ends however often it happens. What is assumed without being enforced by the code: a request to a server that has
accepted the connection is answered (`waitReady`'s deadline is checked between requests and
does not interrupt one).

## 4. The proofs

Eight modules hold theorems; each proves for every value of the constants.

* `RegistryProofs`. `EncodeInverse`, `DecodeInverse` and `EncodeInRange` say that slot and
  generation can be read back from a handle. `RegistryInv == TypeOK /\ EntriesOwned` is
  inductive as it stands (ownership needs to say what each stage of `compile` holds, which
  is why it has a conjunct per stage). Above it, two lemmas classify steps: those that leave the
  handles alone, and those that issue one (`InstallIssues`: the issued handle is not in
  `Issued`, because the slot is new or its generation advances). `StaleHandlesDeny`,
  `LiveHandlesKeepPolicy` and `Implements` follow by cases on the step.
* `BundleEvalProofs`. `BundleInv == TypeOK /\ ScanInv`; the refinement needs only that at
  `Finish` all rules have been passed and at `Fail` one of the error conditions holds.
* `ProxyWasmProofs`, in four layers. First the operators of `Targets`: on an accepted document,
  `Build` gives the rules the operator's view evaluates and enforces (`TargetsEvaluated`,
  `TargetsEnforced`), the request phase has an enforcing one that is defined, and the class
  of the body is the least one exactly when no enforcing rule of the body phase reads bodies (`ClassReads`). Then
  the globals: `PluginInv` says that they are all `Unconfigured` or all what one accepted
  document gives; every cached switch, target and class of a callback is read through it, and
  the theorem `OneDocument` states it. `ArenaInv` adds who owns the arenas while a compile
  runs. Then one decision: `Outcome` splits what a phase can come to into unread (nothing
  covers it), refused or failed before a rule ran, and weighed; each callback's decision has
  that shape (`RequestOutcome`, `BodyOutcome`, `ResponseOutcome`). `EventInv`, the three properties
  of the last decision, follows from it, and so does the refinement (`GateDecides`, then one
  lemma per step). Last the streams: `StreamInv` is what makes `BodyDecidedWhole` inductive,
  namely that while a body phase is on, a stream whose policy was not replaced under its body
  has passed on nothing. It also keeps every stream `Settled`: a side is where a denial leaves it
  exactly when a phase denied it. `RequestSettled` and `ResponseSettled` show that a callback keeps it,
  whether the host sends the answer or not, because a side is called back only until it is denied.
* `HeaderMapProofs`. `SlicesInBounds` is not inductive: the next slice starts at `p`, so
  `HeaderInv` adds `Progress` (`p` is the end of the last header, as many sizes as headers
  are read unless the decoding failed). `TypeOK` contains that `p` never wraps.

* `BenchmarkProofs`. `DriverInv` follows the answers: while an engine is asked, those who have
  answered are `open \ todo`; past the gate those in `open`, all as the subject did unless the
  run is condemned. The refinement fails without it, because `Fair!Time` asks for unanimity
  that was established two stages earlier. One lemma per kind of step shows that it keeps
  `DriverInv` and is a step of `FairBenchmark` or a stutter.
  In the second part `CleanInv` says, stage by stage, which rows a run without a failure has so far
  (those of earlier fixtures, and of the engines that had their turn in this one); a step
  that loses a row sets the exit status or `aborted`. `NativeInv` ties `tries`, the cached
  result, the rows of `cedar-native`, the version claimed and the lockfile together: the version
  was read from `Cargo.lock`, nothing but an unlocked build would rewrite that (`BuildKeeps`), and
  rows made with cargo there are of a binary built from it.
  In the third part `HeldInv` says that a running server without a signal is the child of a use, that the
  child of the instance belongs to an open engine or to the one being set up, and that of
  the cold start to the engine being timed. `OneTurn` (turns are unique) is what keeps
  another engine's throw from losing the cold start's server. `ArtifactInv` and `NativeTried`
  are the same for what is compiled. The type invariant of `Benchmark` is proved here as well,
  because it needs all of these: `Roster` (the engines to come, those open and those with
  rows are live ones, and nothing is published that is not a row), `Polled` (no child was
  polled past its deadline) and `Made` (what is built, and how often).
* `RegressionGateProofs`. `GateInv` says where the counts of a run come from; the rest is
  arithmetic. A count fills its window, and with seven decisions up to an eighth more
  (`Filled`, `NotOverfilled`); the runner's speed cancels from the product of a ratio's counts, so that a change is
  the true one within a factor of 64/49, and a true change that far below or above the stored
  threshold is judged as it should be (`CountsFollowCosts`, `CountsFollowLoss`).

* `EvaluatorProofs`, for any policies, values, documents and cap. TLAPS cannot do induction over
  data, so the module reduces it to the order of the naturals: a set of naturals that is not empty
  has a least element, hence what holds of an expression whenever it holds of all lower ones
  holds of all (`ByHeight`), and a function whose value at each argument depends only on lower
  arguments has a solution (`RecursionSolved`: solutions up to a height agree, and their union is
  the function). With expressions measured by `Height`, paths by their length and depths by the
  distance to the cap, the recursive functions get their defining equations (`PartsUnfolded`,
  `WalkUnfolded`, `LiftedUnfolded`, `LevelsUnfolded`, `EvalUnfolded`). Everything else about the evaluator
  is proved of one level, a lemma for each helper, under the assumption that the level below has it, and
  carried from the cap to depth 0 (`FromTheCap`):
    * `TypedLevel`: what each helper can answer (a condition never undefined, a body never anything
      but true, false or an error). It gives `TypeCorrect`.
    * `AlikeLevel`: on two documents in which the refs of an expression have the same values, it
      is evaluated alike. A rule classified `no_body_refs` or `prefix_only` has only refs that
      `ClassifyRef` does not call whole, and such a path has the same value in documents that
      agree beside the body (`SamePath`), for a prefix because the property's premise says so; hence `UnreadBody` and `PrefixesSuffice`. No
      part of the argument looks at what the analyser says of a collection that is scanned: a ref
      that is scanned is a ref.
    * `ShallowLevel`: an answer `EvalTooDeep` at depth `d` means that the cap is within the levels the
      expression can consume, `Cost` of the helper, or those of the rest of the body, where each
      assignment passed counts one (`Costly`). It gives `ShallowPolicies`.
  The inductive invariant `IInv` (TLC checks it on the evaluator's instance too) adds to `TypeOK` that
  a rule that was built builds and that the outcome kept is the evaluator's answer on the input kept: the four
  others speak of `body`, `value` and `input` long after the evaluation.
* `MeaningProofs`: `Holding` and `Meaning` get their equations as above. `MeansLevel` relates every helper to
  the meaning: the helper's answer is an error, or it is `Expected`. That is the meaning itself
  for an operand; the meaning with undefined as null for the helpers that fold the two; for a
  negation, undefined when a lifted term is undefined and otherwise the negated truth; for a body,
  that it holds. The folds are harmless where they occur because the caller takes null for
  undefined or false too; that is what the lemmas per helper establish (`NotMean`, `LiftedMean`).
  `DecisionsMeanIt` follows.

They rest on the assumptions declared with the constants: spans greater than 1 and
distinct special values (`Registry`), bundles are sequences of rules and a missing or failing
value is not a value (`BundleEval`), a word holds the number 4 (`HeaderMap`),
fixtures that are numbered by `Policies` and servers that are positive numbers (`Benchmark`),
machines whose crates have known versions (`Benchmark`), positive costs, speeds, thresholds and
window, and stalls no longer than it (`RegressionGate`); the rules of
a document have one of the four classes, and null is neither a document nor an arena
(`ProxyWasm`); `--engines` names engines that exist, or the run stops at once (`Benchmark`); values and
expressions have the fields their kind gives them, their parts and what iterations and `count` make of
them are among them, an expression is higher than what is nested in it (`ValuesAssumption`,
`NodesAssumption`), and `input`, `body` and `body_raw` are three strings (`KeysAssumption`). TLC
evaluates all of them in the runs.

Only model-checked: liveness (`RunEnds`), which needs ENABLED. Every other
property of a passing run is a theorem. What `Equal` and `Order` compute on nested values is not
proved anything about, and no theorem needs it: the evaluator and its meaning compare with the same two.

## 5. Findings

Places where a document or comment says one thing and the code another. Each has a run that TLC
refutes.

1. `docs/proxy-wasm.md:202` says host call errors deny. A pseudo-header that cannot be read
   is taken as missing (`proxy_wasm.zig:633`), and the rules decide without it.
2. `docs/proxy-wasm.md:117` says an advisory target never blocks. A phase with only advisory
   targets denies when its input cannot be gathered (`proxy_wasm.zig:491`).
3. `eval.zig:38` says only false and undefined are falsy. An explicit null is falsy too
   (`eval.zig:45`): `not input.x` holds when `x` is null.
4. `bench/engines/opa-http.mjs:62` lets a drawn port that is taken "surface as the early-exit
   error above". Whoever holds the port answers `/health`, so the second server is found ready
   (`opa-http.mjs:49`) and the other one answers in its place, warm where a cold start is
   timed.

Observations without a run, on the module: `docs/architecture.md:69` and `ast.zig:154` say rules
of one name OR-combine, but two that hold with different values are an error, which denies
(`eval.zig:210`), as in Rego; `docs/proxy-wasm.md:117` and `:125` disagree on what is logged for an
advisory denial; a reconfigure in the middle of a body may let the new policy decide on
what the old one did not hold back (`BodyDecidedWhole` is about a policy that stays);
a bare policy whose only `allow` is in another package is accepted and denies everything;
`docs/ast.md:302` does not say that calls, `in` and assignments consume depth as well; an
assignment under a `not` is accepted by the builder and is an error only if it is
reached. `proxy_wasm.zig:418-419` and `docs/proxy-wasm.md:207` say that a denied response is
replaced with a 503: when the host refuses the local response, the upstream's goes out unchanged, since
`denyWithStatus` discards the status and the callback continues (`undenied` in the model); a
denied request whose 403 is refused stays stopped, without an answer.

On the benchmark: `bench/README.md:68` says every other engine still runs and reports when
one fails to set up, which is not so for zopa itself: its answer is then undefined, every
other engine disagrees with it and nothing is reported. `throughput` counts the decision
that overruns the deadline but divides by the nominal window, so a cost of more than a
window is reported as one window, where `main.rs` divides by the elapsed time; on a runner so
slow that windows hold a few decisions the gate can fire without a regression, which is why
`NoFalseAlarm` asks for seven. `compare.mjs` guards against an infinite cost, which JSON has
already turned into null. A `decide` that throws ends the whole run, and a `setup` that throws
only costs a row. A server killed by a foreign signal has a null `exitCode`, so `waitReady`
polls on until its deadline. `cedar-native` asks for cargo twice: when it answers at
`available()` and not at `build()`, the binary that happens to be there is measured under the version already
claimed, although `cedar-native.mjs:107` says that `available()` "already vouched for a prebuilt
binary". `NoUnmeasuredClaim` leaves that case out (without its `native.cargo` TLC finds it: a crate
bumped to version 2, a binary of version 1, cargo gone before the build).

## 6. Not modelled, and why

* JSON scanning (characters, escapes, numbers): data, covered by the repository's fuzz
  tests. The two parts with a boundary, duplicate keys and nesting, are planned.
* Per-field type checks of the AST builder (`requireString` and the like).
* The one-shot `evaluate*` exports: no state but the request arena.
* The one part of an engine nothing calls: `decide(nextInput)` of the zopa engines.
* Argument parsing, percentiles, the timer's resolution and the tables of `run.mjs`; a `Cargo.lock`
  edited by somebody else than cargo while a run is under way; a threshold that is zero, negative or
  not a number of the form a/b; the timing loops of `bench/native/cedar` (external code
  as `cedar-native.mjs` sees it).
* `rego2ast.py`, examples, tests, build files: not part of the module or the benchmark.

## 7. Plan

Done, in this order: `PolicyStore`, `Registry` and its proofs; `Targets`, `AuthzGate`,
`ProxyWasm` and its proofs; `CompleteRule`, `BundleEval` and its proofs; `Values`, `Ast`, `BodyDeps`,
`Evaluator`, `RegoMeaning` and their proofs; `HeaderMap` and its proofs; `Sidecars`, `FairBenchmark`, `Benchmark`,
`RegressionGate` and their proofs.

Next:

1. `JsonObject`: `parseObject`'s two ways of dropping duplicate keys (a scan per key below 16
   members, `dedupeWide`'s sort above) against one definition of "last value, first position",
   with a proof of the scanning loop; nesting depth of `parse`, and `buildBodyInput`'s inlining one
   level deeper (run `input`, next to the limits).
2. `Memory`: the request arena across exports, host buffers with their prefix (run `memory`).
3. The bundle shapes of `buildModulesBundle` in `Ast`.
