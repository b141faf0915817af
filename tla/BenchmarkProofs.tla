--------------------------- MODULE BenchmarkProofs ---------------------------
(***************************************************************************)
(* The promises of the benchmark harness, proved for every list of         *)
(* fixtures, every installation and any number of servers and ports, in    *)
(* three parts.  The gate: DriverInv follows the answers of a fixture to   *)
(* the gate and beyond it, and every run is a fair benchmark.  The report: *)
(* a clean exit leaves no row out, and the row of cedar-native is one      *)
(* harness, built or found once.  What the engines keep beside the         *)
(* harness: no OPA server is left behind, none but one on its way out      *)
(* answers for a fixture it was not started for, and what is compiled is   *)
(* compiled before the timing.                                             *)
(***************************************************************************)
EXTENDS Benchmark, TLAPS

USE FixturesAssumption, MaxPollsAssumption, ServersAssumption

LEMMA EnginesAre ==
  Engines = {"zopa", "zopa-compiled", "opa-wasm", "opa-http", "cedar",
             "cedar-native"}
  BY DEF Engines, AllEngines

LEMMA FixtureCount == Len(Fixtures) \in Nat \ {0} /\ Policies = 1 .. Len(Fixtures)
  OBVIOUS

-----------------------------------------------------------------------------
(* The gate.                                                               *)

(* Exactly the engines that are open have answered, and as the subject     *)
(* did.                                                                    *)
Asked(es) == \A e \in Engines : decisions[e] = NoAnswer <=> e \notin es

Agreed == Asked(open) /\ ~Disagree

DriverInv ==
  /\ fixture \in 1 .. Len(Fixtures)
  /\ open \subseteq Engines
  /\ decisions \in [Engines -> Verdicts \cup {NoAnswer}]
  /\ \A row \in rows : row[1] \in Nat /\ row[1] <= fixture
  /\ stage \in {"selecting", "setup"} => decisions = Silent
  /\ stage \in {"selecting", "setup", "asking"} =>
       \A row \in rows : row[1] < fixture
  /\ stage = "asking" => todo \subseteq open /\ Asked(open \ todo)
  /\ stage = "timing" => todo \subseteq open /\ Agreed /\ ~disagreed
  /\ stage = "closing" /\ ~aborted => Agreed \/ disagreed
  /\ stage = "reporting" => fixture = Len(Fixtures) /\ Fair!Settled

LEMMA DriverInit == Init => DriverInv
  BY FixtureCount DEF Init, DriverInv, Silent, NoAnswer

LEMMA AgreedIsUnanimous ==
  ASSUME DriverInv, Agreed, NEW e \in open
  PROVE  Fair!Unanimous /\ decisions[e] # NoAnswer
<1>1. e \in Engines /\ Subject \in Engines
  BY EnginesAre DEF DriverInv, Subject
<1>2. decisions[e] # NoAnswer /\ decisions[e] = decisions[Subject]
  BY <1>1 DEF Agreed, Asked, Disagree
<1>3. decisions[Subject] \in {0, 1}
  BY <1>1, <1>2 DEF Agreed, Disagree, DriverInv, Verdicts, NoAnswer
<1>4. \A d \in Engines : decisions[d] \in {NoAnswer, decisions[Subject]}
  BY DEF Agreed, Asked, Disagree
<1> QED
  BY <1>2, <1>3, <1>4 DEF Fair!Unanimous, Fair!NoAnswer, NoAnswer

LEMMA AgreedIsSettled ==
  ASSUME DriverInv, Agreed
  PROVE  Fair!Settled
<1>1. CASE open = {}
  <2>1. decisions = Fair!Silent
    BY <1>1 DEF DriverInv, Agreed, Asked, NoAnswer, Fair!Silent, Fair!NoAnswer
  <2> QED
    BY <2>1 DEF Fair!Settled
<1>2. CASE open # {}
  BY <1>2, AgreedIsUnanimous DEF Fair!Settled
<1> QED
  BY <1>1, <1>2

LEMMA DisagreeIsNotUnanimous ==
  ASSUME DriverInv, Asked(open), Disagree
  PROVE  ~Fair!Unanimous
<1>1. CASE decisions[Subject] = -1
  BY <1>1 DEF Fair!Unanimous
<1>2. CASE \E e \in open : decisions[e] # decisions[Subject]
  BY <1>2 DEF Fair!Unanimous, Fair!NoAnswer, NoAnswer, Asked, DriverInv
<1> QED
  BY <1>1, <1>2 DEF Disagree

-----------------------------------------------------------------------------
(* Steps of the harness, by what they do to the driver's state.  Each one  *)
(* keeps the invariant and is a step of FairBenchmark or none.             *)
FairStep == Fair!Next \/ UNCHANGED Fair!vars

LEMMA SettingUp ==
  ASSUME DriverInv, stage = "setup", open' \subseteq Engines,
         UNCHANGED <<stage, fixture, decisions, rows, disagreed, aborted, published>>
  PROVE  DriverInv' /\ FairStep
  BY DEF DriverInv, FairStep, Fair!vars

LEMMA TurnIsOpen ==
  ASSUME DriverInv, NEW e, Turn(e), stage \in {"asking", "timing"}
  PROVE  e \in open /\ e \in Engines
  BY DEF DriverInv, Turn

LEMMA WithRow ==
  ASSUME DriverInv, stage = "timing", NEW e \in todo,
         rows' = rows \cup {<<fixture, e>>}, todo' = todo \ {e},
         UNCHANGED <<stage, fixture, open, decisions, disagreed, aborted, published>>
  PROVE  DriverInv' /\ FairStep
<1>1. e \in open /\ e \in Engines /\ Agreed /\ ~disagreed
  BY DEF DriverInv
<1>2. Fair!Time(e)
  BY <1>1, AgreedIsUnanimous DEF Fair!Time, Fair!NoAnswer, NoAnswer
<1>3. DriverInv'
  BY <1>1 DEF DriverInv, Agreed, Asked, Disagree
<1> QED
  BY <1>1, <1>2, <1>3 DEF FairStep, Fair!Next

LEMMA Timing ==
  ASSUME DriverInv, NEW e, TimingTurn(e),
         \/ Row(e)
         \/ NoRow
         \/ UNCHANGED <<stage, aborted, rows>> /\ todo' \subseteq todo
  PROVE  DriverInv' /\ FairStep
<1>1. CASE Row(e)
  BY <1>1, WithRow DEF TimingTurn, Row, TurnEnds, Turn
<1>2. CASE NoRow
  BY <1>2 DEF TimingTurn, NoRow, Throw, DriverInv, FairStep, Fair!vars
<1>3. CASE UNCHANGED <<stage, aborted, rows>> /\ todo' \subseteq todo
  BY <1>3 DEF TimingTurn, DriverInv, Agreed, Asked, Disagree, FairStep, Fair!vars
<1> QED
  BY <1>1, <1>2, <1>3

LEMMA CheckEnginesStep ==
  ASSUME DriverInv, CheckEngines
  PROVE  DriverInv' /\ FairStep
  BY DEF CheckEngines, DriverInv, FairStep, Fair!vars

LEMMA AskEnginesStep ==
  ASSUME DriverInv, AskEngines
  PROVE  DriverInv' /\ FairStep
<1>1. Asked(open \ open)
  BY DEF AskEngines, DriverInv, Asked, Silent
<1> QED
  BY <1>1 DEF AskEngines, DriverInv, Asked, FairStep, Fair!vars

LEMMA DecidesVerdict ==
  ASSUME NEW e \in Engines, NEW v \in Decides(e)
  PROVE  v \in {-1, 0, 1}
  BY EnginesAre DEF Decides, ZopaDecides, ZopaCompiledDecides, OpaWasmDecides,
     SidecarDecides, CedarDecides, NativeDecides, Verdicts

LEMMA AskStep ==
  ASSUME DriverInv, NEW e \in Engines, Ask(e)
  PROVE  DriverInv' /\ FairStep
<1>1. stage = "asking" /\ e \in open /\ e \in todo
  BY TurnIsOpen DEF Ask, Turn
<1>2. CASE /\ \E v \in Decides(e) : decisions' = [decisions EXCEPT ![e] = v]
           /\ TurnEnds(e)
           /\ UNCHANGED <<stage, aborted>>
  <2>1. PICK v \in Decides(e) : decisions' = [decisions EXCEPT ![e] = v]
    BY <1>2
  <2>2. v \in {-1, 0, 1} /\ v # NoAnswer
    BY DecidesVerdict DEF NoAnswer
  <2>3. decisions' \in [Engines -> Verdicts \cup {NoAnswer}]
    BY <2>1, <2>2 DEF DriverInv, Verdicts
  <2>4. todo' \subseteq open /\ Asked(open \ todo)'
    <3>1. todo \subseteq open /\ Asked(open \ todo) /\ todo' = todo \ {e} /\ open' = open
      BY <1>1, <1>2 DEF DriverInv, TurnEnds, Ask
    <3>2. decisions'[e] = v /\ \A d \in Engines \ {e} : decisions'[d] = decisions[d]
      BY <2>1 DEF DriverInv
    <3>3. e \in open' \ todo'
      BY <1>1, <3>1
    <3>4. ASSUME NEW d \in Engines
          PROVE  decisions'[d] = NoAnswer <=> d \notin open' \ todo'
      <4>1. CASE d = e
        BY <2>2, <3>2, <3>3, <4>1
      <4>2. CASE d # e
        BY <3>1, <3>2, <4>2 DEF Asked
      <4> QED
        BY <4>1, <4>2
    <3> QED
      BY <3>1, <3>4 DEF Asked
  <2>5. DriverInv'
    BY <1>1, <1>2, <2>3, <2>4 DEF DriverInv, Ask
  <2>6. decisions[e] = Fair!NoAnswer /\ ~\E d \in Engines : <<fixture, d>> \in rows
    <3>1. Asked(open \ todo) /\ \A row \in rows : row[1] < fixture
      BY <1>1 DEF DriverInv
    <3>2. decisions[e] = NoAnswer
      BY <1>1, <3>1 DEF Asked
    <3>3. ASSUME NEW d \in Engines, <<fixture, d>> \in rows
          PROVE  FALSE
      <4>1. <<fixture, d>>[1] < fixture
        BY <3>1, <3>3
      <4> QED
        BY <4>1, FixtureCount DEF DriverInv
    <3> QED
      BY <3>2, <3>3 DEF NoAnswer, Fair!NoAnswer
  <2>7. Fair!Answer(e)
    BY <2>1, <2>2, <2>6 DEF Fair!Answer, Ask
  <2> QED
    BY <2>5, <2>7 DEF FairStep, Fair!Next
<1>3. CASE Throw /\ UNCHANGED decisions
  BY <1>1, <1>3 DEF Ask, Throw, DriverInv, FairStep, Fair!vars
<1> QED
  BY <1>2, <1>3 DEF Ask

LEMMA GateStep ==
  ASSUME DriverInv, disagreed \in BOOLEAN, Gate
  PROVE  DriverInv' /\ FairStep
<1>1. Asked(open)
  BY DEF Gate, DriverInv, Asked
<1>2. UNCHANGED <<open, decisions, fixture, rows, aborted, published>>
  BY DEF Gate
<1>3. disagreed' = (disagreed \/ Disagree) /\ stage = "asking"
  BY DEF Gate
<1>4. Asked(open)' /\ (Disagree' <=> Disagree)
  BY <1>1, <1>2 DEF Asked, Disagree
<1>5. CASE disagreed'
  <2>1. stage' = "closing"
    BY <1>5 DEF Gate
  <2>2. DriverInv'
    BY <1>2, <1>5, <2>1 DEF DriverInv
  <2>3. CASE Disagree
    <3>1. Fair!Condemn
      BY <1>1, <1>2, <1>5, <2>3, DisagreeIsNotUnanimous DEF Fair!Condemn
    <3> QED
      BY <2>2, <3>1 DEF FairStep, Fair!Next
  <2>4. CASE ~Disagree
    BY <1>2, <1>3, <1>5, <2>2, <2>4 DEF FairStep, Fair!vars, Gate
  <2> QED
    BY <2>3, <2>4
<1>6. CASE ~disagreed'
  <2>1. ~disagreed /\ ~Disagree /\ stage' = "timing" /\ todo' = open
    BY <1>3, <1>6 DEF Gate
  <2>2. DriverInv'
    BY <1>2, <1>4, <1>6, <2>1 DEF DriverInv, Agreed
  <2>3. disagreed = FALSE /\ disagreed' = FALSE
    BY <1>6, <2>1, <2>2
  <2>4. UNCHANGED Fair!vars
    BY <1>2, <2>3 DEF Fair!vars
  <2> QED
    BY <2>2, <2>4 DEF FairStep
<1> QED
  BY <1>5, <1>6

LEMMA TimingEndsStep ==
  ASSUME DriverInv, TimingEnds
  PROVE  DriverInv' /\ FairStep
  BY DEF TimingEnds, DriverInv, Agreed, Asked, Disagree, FairStep, Fair!vars

LEMMA CloseAllStep ==
  ASSUME DriverInv, CloseAll
  PROVE  DriverInv' /\ FairStep
<1>1. stage = "closing" /\ open' = {} /\ UNCHANGED <<rows, disagreed, aborted, published>>
  BY DEF CloseAll
<1>2. CASE aborted
  BY <1>1, <1>2 DEF CloseAll, DriverInv, FairStep, Fair!vars
<1>3. CASE ~aborted
  <2>1. Fair!Settled
    BY <1>1, <1>3, AgreedIsSettled DEF DriverInv, Fair!Settled
  <2>2. CASE fixture < Len(Fixtures)
    <3>1. stage' = "setup" /\ fixture' = fixture + 1 /\ decisions' = Silent
      BY <1>3, <2>2 DEF CloseAll
    <3>2. DriverInv'
      <4>1. fixture \in 1 .. Len(Fixtures) /\ \A row \in rows : row[1] \in Nat /\ row[1] <= fixture
        BY DEF DriverInv
      <4>2. fixture' \in 1 .. Len(Fixtures)
        BY <2>2, <3>1, <4>1, FixtureCount
      <4>3. \A row \in rows' : row[1] \in Nat /\ row[1] <= fixture' /\ row[1] < fixture'
        BY <1>1, <3>1, <4>1, FixtureCount
      <4>4. decisions' \in [Engines -> Verdicts \cup {NoAnswer}]
        BY <3>1 DEF Silent
      <4> QED
        BY <1>1, <3>1, <4>2, <4>3, <4>4 DEF DriverInv
    <3>3. Fair!NextFixture
      BY <1>1, <2>1, <2>2, <3>1 DEF Fair!NextFixture, Silent, Fair!Silent,
         NoAnswer, Fair!NoAnswer
    <3> QED
      BY <3>2, <3>3 DEF FairStep, Fair!Next
  <2>3. CASE ~(fixture < Len(Fixtures))
    <3>1. stage' = "reporting" /\ UNCHANGED <<fixture, decisions>>
      BY <1>3, <2>3 DEF CloseAll
    <3>2. Fair!Settled'
      BY <1>1, <2>1, <3>1 DEF Fair!Settled, Fair!Unanimous
    <3>3. fixture' = Len(Fixtures)
      BY <2>3, <3>1, FixtureCount DEF DriverInv
    <3>4. DriverInv'
      BY <1>1, <3>1, <3>2, <3>3 DEF DriverInv
    <3>5. UNCHANGED Fair!vars
      BY <1>1, <3>1 DEF Fair!vars
    <3> QED
      BY <3>4, <3>5 DEF FairStep
  <2> QED
    BY <2>2, <2>3
<1> QED
  BY <1>2, <1>3

LEMMA ReportStep ==
  ASSUME DriverInv, Report
  PROVE  DriverInv' /\ FairStep
<1>1. DriverInv'
  BY DEF Report, DriverInv
<1>2. CASE disagreed
  BY <1>1, <1>2 DEF Report, FairStep, Fair!vars
<1>3. CASE ~disagreed
  <2>1. Fair!Publish
    BY <1>3 DEF Report, DriverInv, Fair!Publish
  <2> QED
    BY <1>1, <2>1 DEF FairStep, Fair!Next
<1> QED
  BY <1>2, <1>3
-----------------------------------------------------------------------------
(* The engines' own steps are one of these.                                *)

LEMMA SetupStep ==
  ASSUME DriverInv,
         \/ SetupZopa \/ SetupZopaCompiled \/ SetupCedar
         \/ SetupOpaWasm \/ SetupNative \/ SpawnSidecar \/ AwaitSidecar
  PROVE  DriverInv' /\ FairStep
<1>1. ASSUME NEW e \in Engines, SetupTurn(e),
             Opened(e) \/ SetupFailed(e) \/ UNCHANGED open
      PROVE  DriverInv' /\ FairStep
  <2>1. open' \subseteq Engines
    BY <1>1 DEF Opened, SetupFailed, DriverInv
  <2> QED
    BY <1>1, <2>1, SettingUp DEF SetupTurn
<1>2. CASE SetupZopa \/ SetupZopaCompiled \/ SetupCedar
  BY <1>1, <1>2, EnginesAre DEF SetupZopa, SetupZopaCompiled, SetupCedar, SetupInstance
<1>3. CASE SetupOpaWasm
  BY <1>1, <1>3, EnginesAre DEF SetupOpaWasm
<1>4. CASE SetupNative
  BY <1>1, <1>4, EnginesAre DEF SetupNative
<1>5. CASE SpawnSidecar
  BY <1>1, <1>5, EnginesAre DEF SpawnSidecar
<1>6. CASE AwaitSidecar
  BY <1>1, <1>6, EnginesAre DEF AwaitSidecar
<1> QED
  BY <1>2, <1>3, <1>4, <1>5, <1>6

LEMMA TimingStep ==
  ASSUME DriverInv,
         \/ \E e \in {"zopa", "zopa-compiled", "cedar"} : TimeInstance(e)
         \/ TimeOpaWasm \/ TimeSidecar \/ AwaitCold \/ DecideCold
  PROVE  DriverInv' /\ FairStep
<1>1. CASE \E e \in {"zopa", "zopa-compiled", "cedar"} : TimeInstance(e)
  BY <1>1, Timing DEF TimeInstance
<1>2. CASE TimeOpaWasm
  BY <1>2, Timing DEF TimeOpaWasm
<1>3. CASE TimeSidecar
  BY <1>3, Timing DEF TimeSidecar
<1>4. CASE AwaitCold
  <2>1. TimingTurn("opa-http")
    BY <1>4 DEF AwaitCold
  <2>2. \/ UNCHANGED <<stage, aborted, rows>> /\ todo' \subseteq todo
        \/ NoRow
    BY <1>4 DEF AwaitCold, PollAgain
  <2> QED
    BY <2>1, <2>2, Timing
<1>5. CASE DecideCold
  BY <1>5, Timing DEF DecideCold
<1> QED
  BY <1>1, <1>2, <1>3, <1>4, <1>5

LEMMA MeasureNativeStep ==
  ASSUME DriverInv, MeasureNative
  PROVE  DriverInv' /\ FairStep
<1>1. stage = "timing" /\ "cedar-native" \in todo /\ todo' = todo \ {"cedar-native"}
  BY DEF MeasureNative, Turn, TurnEnds
<1>2. UNCHANGED <<stage, fixture, open, decisions, disagreed, aborted, published>>
  BY DEF MeasureNative
<1>3. CASE MeasuredRow
  <2>1. rows' = rows \cup {<<fixture, "cedar-native">>}
    BY <1>3 DEF MeasureNative
  <2> QED
    BY <1>1, <1>2, <2>1, WithRow
<1>4. CASE ~MeasuredRow
  <2>1. rows' = rows
    BY <1>4 DEF MeasureNative
  <2>2. DriverInv'
    BY <1>1, <1>2, <2>1 DEF DriverInv, Agreed, Asked, Disagree
  <2> QED
    BY <1>2, <2>1, <2>2 DEF FairStep, Fair!vars
<1> QED
  BY <1>3, <1>4

LEMMA DriverStep ==
  ASSUME DriverInv, disagreed \in BOOLEAN, [Next]_vars
  PROVE  DriverInv' /\ FairStep
<1>1. CASE HarnessStep
  BY <1>1, CheckEnginesStep, SetupStep, TimingStep, MeasureNativeStep,
     AskEnginesStep, AskStep, GateStep, TimingEndsStep, CloseAllStep,
     ReportStep DEF HarnessStep
<1>2. CASE ServerStep \/ CrateChanges \/ UNCHANGED vars
  <2>1. UNCHANGED driverVars
    BY <1>2 DEF ServerStep, CrateChanges, vars
  <2> QED
    BY <2>1 DEF driverVars, DriverInv, Agreed, Asked, Disagree, FairStep,
       Fair!vars, Fair!Settled, Fair!Unanimous
<1> QED
  BY <1>1, <1>2 DEF Next, Over

LEMMA GateBoolean == Spec => [](disagreed \in BOOLEAN)
<1>1. Init => disagreed \in BOOLEAN
  BY DEF Init
<1>2. disagreed \in BOOLEAN /\ [Next]_vars => (disagreed \in BOOLEAN)'
  <2>1. CASE Gate
    BY <2>1 DEF Gate
  <2>2. CASE UNCHANGED disagreed
    BY <2>2
  <2> QED
    BY <2>1, <2>2 DEF vars, driverVars, Next, HarnessStep, ServerStep, Over, CrateChanges,
       CheckEngines, SetupZopa, SetupZopaCompiled, SetupCedar, SetupInstance,
       SetupTurn, SetupOpaWasm, SetupNative, SpawnSidecar, AwaitSidecar,
       TimeInstance, TimingTurn, TimeOpaWasm, MeasureNative, TimeSidecar,
       AwaitCold, DecideCold, AskEngines, Ask, TimingEnds, CloseAll, Report
<1> QED
  BY <1>1, <1>2, PTL DEF Spec

(* What the driver has heard and may do with it, in every state: the       *)
(* answers follow open and todo, and past the gate they agree.             *)
THEOREM DriverInvariant == Spec => []DriverInv
<1>1. disagreed \in BOOLEAN /\ DriverInv /\ [Next]_vars => DriverInv'
  BY DriverStep
<1> QED
  BY <1>1, DriverInit, GateBoolean, PTL DEF Spec

(* Every run of the harness is a fair benchmark (run.mjs 5-9): whatever is *)
(* installed, selected, thrown or killed, nothing is timed on a fixture    *)
(* that some engine answers differently or not at all, and one             *)
(* disagreement withholds every timing.                                    *)
THEOREM Implements == Spec => BenchmarkImplemented
<1>1. Init => Fair!Init
  BY DEF Init, Fair!Init, Silent, Fair!Silent, NoAnswer, Fair!NoAnswer
<1>2. disagreed \in BOOLEAN /\ DriverInv /\ [Next]_vars => [Fair!Next]_(Fair!vars)
  BY DriverStep DEF FairStep
<1> QED
  BY <1>1, <1>2, DriverInvariant, GateBoolean, PTL
     DEF Spec, BenchmarkImplemented, Fair!Spec

-----------------------------------------------------------------------------
(* cedar-native.  Its result is made once and kept, and what it says was   *)
(* measured with the version in Cargo.lock if cargo was there to build it. *)

NativeInv ==
  /\ native = Untried => tries = 0
  /\ native # Untried => tries = 1
  /\ native.result = "rows" /\ native.cargo => native.measured = crate.lock
  /\ claim \in {NoVersion, crate.lock}
  /\ crate \in CrateType
  /\ \A row \in rows : row[2] = "cedar-native" => native.result = "rows"

(* Every other step leaves the result and Cargo.lock alone, claims no      *)
(* version but that one and measures another engine.                       *)
Elsewhere ==
  /\ UNCHANGED <<native, tries, crate>>
  /\ claim' \in {claim, NoVersion, crate.lock}
  /\ \A row \in rows' : row \in rows \/ row[2] # "cedar-native"

LEMMA ElsewhereKeeps ==
  ASSUME NativeInv, Elsewhere
  PROVE  NativeInv'
  BY DEF NativeInv, Elsewhere

(* Building with --locked writes Cargo.lock neither way.                   *)
LEMMA BuildKeeps ==
  ASSUME crate \in CrateType, Build
  PROVE  /\ crate' \in CrateType /\ crate'.lock = crate.lock
         /\ crate.cargo => crate'.binary = crate.lock
<1>1. CASE crate.cargo
  <2>1. /\ crate.manifest = crate.lock
        /\ crate' = [crate EXCEPT !.binary = crate.lock]
    BY <1>1 DEF Build
  <2>2. crate.lock \in Versions \cup {NoBinary}
    BY <2>1 DEF CrateType
  <2> QED
    BY <2>1, <2>2 DEF CrateType
<1>2. CASE ~crate.cargo
  BY <1>2 DEF Build
<1> QED
  BY <1>1, <1>2

LEMMA NativeRowsKeep ==
  ASSUME NativeInv, NativeRows
  PROVE  /\ native' # Untried /\ tries' = 1
         /\ native'.result = "rows" /\ native'.cargo => native'.measured = crate'.lock
         /\ crate' \in CrateType /\ crate'.lock = crate.lock
         /\ native.result = "rows" => native'.result = "rows"
<1>0. crate \in CrateType
  BY DEF NativeInv
<1>1. CASE native = Untried
  <2>1. RunHarness /\ tries' = 1
    BY <1>1 DEF NativeRows, NativeInv
  <2>2. CASE native' = Failure /\ (Build \/ UNCHANGED crate)
    BY <1>0, <1>1, <2>1, <2>2, BuildKeeps DEF Failure, Untried
  <2>3. ASSUME Build, NEW reported,
               native' = [result |-> "rows", reported |-> reported,
                          cargo |-> crate.cargo, measured |-> crate'.binary]
        PROVE  /\ native' # Untried
               /\ native'.cargo => native'.measured = crate'.lock
               /\ crate' \in CrateType /\ crate'.lock = crate.lock
               /\ native'.result = "rows"
    <3>1. /\ native'.result = "rows" /\ native'.cargo = crate.cargo
          /\ native'.measured = crate'.binary
      BY <2>3
    <3> QED
      BY <1>0, <2>3, <3>1, BuildKeeps DEF Untried
  <2> QED
    BY <1>1, <2>1, <2>2, <2>3 DEF RunHarness, Untried
<1>2. CASE native # Untried
  BY <1>2 DEF NativeRows, NativeInv
<1> QED
  BY <1>1, <1>2

LEMMA NativeStep ==
  ASSUME NativeInv, [Next]_vars
  PROVE  NativeInv'
<1>1. CASE SetupNative
  <2>1. NativeRows /\ UNCHANGED <<claim, rows>>
    BY <1>1 DEF SetupNative, SetupTurn
  <2> QED
    BY <2>1, NativeRowsKeep DEF NativeInv
<1>2. CASE MeasureNative
  <2>1. NativeRows /\ UNCHANGED claim
    BY <1>2 DEF MeasureNative
  <2>2. \A row \in rows' : row \in rows \/ native'.result = "rows"
    BY <1>2 DEF MeasureNative, MeasuredRow, HasRow
  <2> QED
    BY <2>1, <2>2, NativeRowsKeep DEF NativeInv
<1>3. CASE Elsewhere
  BY <1>3, ElsewhereKeeps
<1>4. ASSUME NEW e \in Engines, TimingTurn(e), e # "cedar-native",
             Row(e) \/ NoRow \/ UNCHANGED rows, UNCHANGED <<native, tries, crate>>
      PROVE  Elsewhere
  BY <1>4 DEF TimingTurn, Row, NoRow, Elsewhere
<1>5. CASE \E e \in {"zopa", "zopa-compiled", "cedar"} : TimeInstance(e)
  BY <1>3, <1>4, <1>5, EnginesAre DEF TimeInstance, engineVars
<1>6. CASE TimeOpaWasm
  BY <1>3, <1>4, <1>6, EnginesAre DEF TimeOpaWasm
<1>7. CASE TimeSidecar \/ AwaitCold \/ DecideCold
  BY <1>3, <1>4, <1>7, EnginesAre DEF TimeSidecar, AwaitCold, DecideCold
<1>8. CASE UNCHANGED <<claim, native, tries, crate, rows>>
  BY <1>3, <1>8 DEF Elsewhere
<1>9. CASE CheckEngines
  <2>1. claim' \in {NoVersion, crate.lock} /\ UNCHANGED <<native, tries, crate, rows>>
    BY <1>9 DEF CheckEngines, VersionClaimed, engineVars
  <2> QED
    BY <1>3, <2>1 DEF Elsewhere
<1>10. CASE CrateChanges
  <2>1. PICK cargo \in BOOLEAN, manifest \in Versions :
          crate' = [crate EXCEPT !.cargo = cargo, !.manifest = manifest]
    BY <1>10 DEF CrateChanges
  <2>2. crate' \in CrateType /\ crate'.lock = crate.lock
    BY <2>1 DEF NativeInv, CrateType
  <2>3. UNCHANGED <<claim, native, tries, rows>>
    BY <1>10 DEF CrateChanges, driverVars
  <2> QED
    BY <2>2, <2>3 DEF NativeInv
<1> QED
  BY <1>1, <1>2, <1>5, <1>6, <1>7, <1>8, <1>9, <1>10 DEF vars, driverVars,
     engineVars, Next, HarnessStep, ServerStep, Over, SetupZopa, SetupZopaCompiled,
     SetupCedar, SetupInstance, SetupTurn, SetupOpaWasm, SpawnSidecar,
     AwaitSidecar, AskEngines, Ask, Gate, TimingEnds, CloseAll, Report

LEMMA NativeInvariant == Spec => []NativeInv
<1>1. Init => NativeInv
  BY MachinesAssumption DEF Init, NativeInv, Untried
<1>2. NativeInv /\ [Next]_vars => NativeInv'
  BY NativeStep
<1> QED
  BY <1>1, <1>2, PTL DEF Spec

(* The native harness is built and run at most once in a run of the        *)
(* benchmark (cedar-native.mjs 148-152), whatever came of it.              *)
THEOREM TriedOnce == Spec => []HarnessTriedOnce
<1>1. NativeInv => HarnessTriedOnce
  BY DEF NativeInv, HarnessTriedOnce
<1> QED
  BY <1>1, NativeInvariant, PTL

(* The Cedar version named beside a row is the one the row was measured    *)
(* with, whatever binary was there and whatever became of Cargo.toml: what *)
(* cargo builds, it builds from the Cargo.lock the version was read from.  *)
THEOREM ClaimIsMeasured == Spec => []NoUnmeasuredClaim
<1>1. NativeInv => NoUnmeasuredClaim
  <2> SUFFICES ASSUME NativeInv, NEW f \in Policies, <<f, "cedar-native">> \in rows,
                      claim # NoVersion, native.cargo
               PROVE  native.measured = claim
    BY DEF NoUnmeasuredClaim
  <2>1. <<f, "cedar-native">>[2] = "cedar-native"
    OBVIOUS
  <2>2. native.result = "rows"
    BY <2>1 DEF NativeInv
  <2> QED
    BY <2>2 DEF NativeInv
<1> QED
  BY <1>1, NativeInvariant, PTL

-----------------------------------------------------------------------------
(* The rows of a run in which nothing has failed so far.                   *)

Owed(row) == row \in Policies \X live /\ Supports(row[2], row[1])

RowsBefore == \A row : row \in rows <=> Owed(row) /\ row[1] < fixture

RowsThrough == \A row : row \in rows <=> Owed(row) /\ row[1] <= fixture

RowsTimed ==
  \A row : row \in rows <=>
             /\ Owed(row)
             /\ row[1] < fixture \/ (row[1] = fixture /\ row[2] \notin todo)

CleanInv ==
  exitCode = 0 =>
    /\ stage = "selecting" => rows = {} /\ open = {} /\ fixture = 1
    /\ ~disagreed =>
         /\ stage = "setup" => RowsBefore /\ open \cup todo = Runnable(fixture)
         /\ stage = "asking" => RowsBefore /\ open = Runnable(fixture)
         /\ stage = "timing" => RowsTimed /\ todo \subseteq Runnable(fixture)
         /\ stage = "closing" /\ ~aborted => RowsThrough
         /\ stage = "reporting" => RowsThrough
    /\ stage = "done" => \A row : row \in published <=> Owed(row)

ExitCodes == exitCode \in {0, 1} /\ fixture \in Policies

(* An exit code of 1 is never taken back.                                  *)
LEMMA FailedIsClean ==
  ASSUME exitCode # 0
  PROVE  CleanInv
  BY DEF CleanInv

LEMMA OwedRunnable ==
  ASSUME NEW e
  PROVE  fixture \in Policies =>
           (Owed(<<fixture, e>>) <=> e \in Runnable(fixture))
  BY DEF Owed, Runnable

LEMMA CleanSelect ==
  ASSUME CleanInv, ExitCodes, CheckEngines
  PROVE  CleanInv'
<1>1. CASE Subject \in live'
  <2>1. stage' = "setup" /\ todo' = Runnable(fixture)' /\ stage = "selecting"
    BY <1>1 DEF CheckEngines, Runnable
  <2>2. UNCHANGED <<open, rows, fixture, exitCode>>
    BY <1>1 DEF CheckEngines
  <2>3. ASSUME exitCode = 0
        PROVE  RowsBefore' /\ (open \cup todo = Runnable(fixture))'
    <3>1. rows' = {} /\ open' = {} /\ fixture' = 1
      BY <2>1, <2>2, <2>3 DEF CleanInv
    <3>2. \A row : ~(Owed(row)' /\ row[1] < 1)
      BY FixtureCount DEF Owed
    <3> QED
      BY <2>1, <3>1, <3>2 DEF RowsBefore
  <2> QED
    BY <2>1, <2>2, <2>3 DEF CleanInv
<1>2. CASE Subject \notin live'
  BY <1>2, FailedIsClean DEF CheckEngines, CleanInv
<1> QED
  BY <1>1, <1>2

LEMMA CleanSetup ==
  ASSUME CleanInv, ExitCodes, NEW e, SetupTurn(e),
         \/ Opened(e) \/ SetupFailed(e)
         \/ UNCHANGED <<todo, open, exitCode>>
  PROVE  CleanInv'
<1>1. CASE SetupFailed(e)
  BY <1>1 DEF SetupFailed, CleanInv
<1>2. CASE Opened(e) \/ UNCHANGED <<todo, open, exitCode>>
  <2>1. open' \cup todo' = open \cup todo /\ stage = "setup" /\ exitCode' = exitCode
    BY <1>2 DEF SetupTurn, Turn, Opened, TurnEnds
  <2>2. UNCHANGED <<live, stage, fixture, rows, disagreed>>
    BY DEF SetupTurn
  <2> QED
    BY <2>1, <2>2 DEF CleanInv, RowsBefore, Owed, Runnable
<1> QED
  BY <1>1, <1>2

LEMMA CleanTiming ==
  ASSUME CleanInv, ExitCodes, NEW e, stage = "timing", e \in todo,
         UNCHANGED <<live, fixture, disagreed>>,
         \/ Row(e) /\ UNCHANGED exitCode
         \/ exitCode' = 1
         \/ aborted' /\ stage' = "closing" /\ UNCHANGED exitCode
         \/ UNCHANGED <<stage, todo, rows, exitCode>>
  PROVE  CleanInv'
<1>1. CASE Row(e) /\ UNCHANGED exitCode
  <2>1. ASSUME RowsTimed, todo \subseteq Runnable(fixture)
        PROVE  RowsTimed'
    <3>1. rows' = rows \cup {<<fixture, e>>} /\ todo' = todo \ {e}
      BY <1>1 DEF Row, TurnEnds
    <3>2. Owed(<<fixture, e>>)
      BY <2>1, OwedRunnable DEF ExitCodes
    <3>3. ASSUME NEW row
          PROVE  row \in rows' <=>
                   /\ Owed(row)
                   /\ row[1] < fixture \/ (row[1] = fixture /\ row[2] \notin todo')
      <4>1. CASE row = <<fixture, e>>
        BY <3>1, <3>2, <4>1
      <4>2. CASE row # <<fixture, e>> /\ Owed(row)
        <5>1. row = <<row[1], row[2]>>
          BY <4>2 DEF Owed
        <5>2. row[1] = fixture => row[2] # e
          BY <4>2, <5>1
        <5>3. row \in rows <=> row[1] < fixture \/ (row[1] = fixture /\ row[2] \notin todo)
          BY <2>1, <4>2 DEF RowsTimed
        <5>4. row \in rows' <=> row \in rows
          BY <3>1, <4>2
        <5>5. row[1] = fixture => (row[2] \notin todo' <=> row[2] \notin todo)
          BY <3>1, <5>2
        <5> QED
          BY <4>2, <5>3, <5>4, <5>5
      <4>3. CASE row # <<fixture, e>> /\ ~Owed(row)
        BY <2>1, <3>1, <4>3 DEF RowsTimed
      <4> QED
        BY <4>1, <4>2, <4>3
    <3> QED
      BY <3>3 DEF RowsTimed, Owed
  <2>2. stage' = "timing"
    BY <1>1 DEF Row
  <2>3. todo' \subseteq todo /\ Runnable(fixture)' = Runnable(fixture)
    BY <1>1 DEF Row, TurnEnds, Runnable
  <2> QED
    BY <1>1, <2>1, <2>2, <2>3 DEF CleanInv
<1>2. CASE exitCode' = 1
  BY <1>2 DEF CleanInv
<1>3. CASE aborted' /\ stage' = "closing" /\ UNCHANGED exitCode
  BY <1>3 DEF CleanInv
<1>4. CASE UNCHANGED <<stage, todo, rows, exitCode>>
  BY <1>4 DEF CleanInv, RowsTimed, Owed, Runnable
<1> QED
  BY <1>1, <1>2, <1>3, <1>4

LEMMA CleanGate ==
  ASSUME CleanInv, ExitCodes, disagreed \in BOOLEAN, Gate
  PROVE  CleanInv'
<1>1. stage = "asking" /\ UNCHANGED <<live, fixture, open, rows, exitCode>>
  BY DEF Gate
<1>2. CASE disagreed'
  BY <1>1, <1>2 DEF Gate, CleanInv
<1>3. CASE ~disagreed'
  <2>1. ~disagreed /\ stage' = "timing" /\ todo' = open
    BY <1>3 DEF Gate
  <2>2. ASSUME RowsBefore, open = Runnable(fixture)
        PROVE  RowsTimed' /\ todo' \subseteq Runnable(fixture)'
    <3>1. Runnable(fixture)' = Runnable(fixture)
      BY <1>1 DEF Runnable
    <3>2. ASSUME NEW row, Owed(row), row[1] = fixture
          PROVE  row[2] \in open
      BY <2>2, <3>2 DEF Owed, Runnable
    <3> QED
      BY <1>1, <2>1, <2>2, <3>1, <3>2 DEF RowsBefore, RowsTimed, Owed
  <2> QED
    BY <1>1, <2>1, <2>2 DEF CleanInv
<1> QED
  BY <1>2, <1>3

LEMMA CleanTimingEnds ==
  ASSUME CleanInv, ExitCodes, TimingEnds
  PROVE  CleanInv'
<1>1. stage = "timing" /\ stage' = "closing" /\ todo = {}
  BY DEF TimingEnds
<1>2. UNCHANGED <<live, fixture, rows, disagreed, exitCode>>
  BY DEF TimingEnds
<1>3. fixture \in Nat /\ \A row : Owed(row) => row[1] \in Nat
  BY FixtureCount DEF ExitCodes, Owed
<1>4. RowsTimed => RowsThrough'
  BY <1>1, <1>2, <1>3 DEF RowsTimed, RowsThrough, Owed
<1> QED
  BY <1>1, <1>2, <1>4 DEF CleanInv

LEMMA CleanClose ==
  ASSUME CleanInv, ExitCodes, CloseAll
  PROVE  CleanInv'
<1>1. stage = "closing" /\ open' = {} /\ UNCHANGED <<live, rows, disagreed, aborted>>
  BY DEF CloseAll
<1>2. CASE aborted
  BY <1>2 DEF CloseAll, CleanInv
<1>3. CASE ~aborted /\ fixture < Len(Fixtures)
  <2>1. /\ stage' = "setup" /\ fixture' = fixture + 1 /\ exitCode' = exitCode
        /\ todo' = Runnable(fixture + 1)
    BY <1>3 DEF CloseAll
  <2>2. open' \cup todo' = Runnable(fixture)'
    BY <1>1, <2>1 DEF Runnable
  <2>3. \A row : Owed(row) => (row[1] <= fixture <=> row[1] < fixture + 1)
    BY FixtureCount DEF ExitCodes, Owed
  <2>4. RowsThrough => RowsBefore'
    BY <1>1, <2>1, <2>3 DEF RowsThrough, RowsBefore, Owed
  <2> QED
    BY <1>1, <1>3, <2>1, <2>2, <2>4 DEF CleanInv
<1>4. CASE ~aborted /\ ~(fixture < Len(Fixtures))
  <2>1. stage' = "reporting" /\ UNCHANGED <<fixture, exitCode>>
    BY <1>4 DEF CloseAll
  <2> QED
    BY <1>1, <1>4, <2>1 DEF CleanInv, RowsThrough, Owed
<1> QED
  BY <1>2, <1>3, <1>4

LEMMA CleanReport ==
  ASSUME CleanInv, DriverInv, ExitCodes, Report
  PROVE  CleanInv'
<1>1. stage = "reporting" /\ stage' = "done" /\ UNCHANGED <<live, rows, disagreed>>
  BY DEF Report
<1>2. CASE disagreed
  BY <1>2 DEF Report, CleanInv
<1>3. CASE ~disagreed
  <2>1. published' = rows /\ exitCode' = exitCode
    BY <1>3 DEF Report
  <2>2. fixture = Len(Fixtures)
    BY <1>1 DEF DriverInv
  <2>3. \A row : Owed(row) => row[1] <= fixture
    BY <2>2, FixtureCount DEF Owed
  <2>4. exitCode = 0 => RowsThrough
    BY <1>1, <1>3 DEF CleanInv
  <2> QED
    BY <1>1, <2>1, <2>3, <2>4 DEF CleanInv, RowsThrough, Owed
<1> QED
  BY <1>2, <1>3

LEMMA CleanElsewhere ==
  ASSUME CleanInv, UNCHANGED <<driverVars>>
  PROVE  CleanInv'
  BY DEF driverVars, CleanInv, RowsBefore, RowsThrough, RowsTimed, Owed, Runnable

LEMMA CleanStep ==
  ASSUME CleanInv, DriverInv, ExitCodes, disagreed \in BOOLEAN, [Next]_vars
  PROVE  CleanInv'
<1>1. CASE CheckEngines
  BY <1>1, CleanSelect
<1>2. CASE SetupZopa \/ SetupZopaCompiled \/ SetupCedar
  BY <1>2, CleanSetup DEF SetupZopa, SetupZopaCompiled, SetupCedar, SetupInstance
<1>3. CASE SetupOpaWasm
  BY <1>3, CleanSetup DEF SetupOpaWasm
<1>4. CASE SetupNative
  BY <1>4, CleanSetup DEF SetupNative
<1>5. CASE SpawnSidecar \/ AwaitSidecar
  BY <1>5, CleanSetup DEF SpawnSidecar, AwaitSidecar, PollAgain
<1>6. ASSUME NEW e, TimingTurn(e),
             Row(e) \/ NoRow \/ UNCHANGED <<stage, todo, rows>>
      PROVE  CleanInv'
  BY <1>6, CleanTiming DEF TimingTurn, Turn, NoRow, Throw
<1>7. CASE \E e \in {"zopa", "zopa-compiled", "cedar"} : TimeInstance(e)
  BY <1>6, <1>7 DEF TimeInstance
<1>8. CASE TimeOpaWasm
  BY <1>6, <1>8 DEF TimeOpaWasm
<1>9. CASE TimeSidecar \/ AwaitCold \/ DecideCold
  BY <1>6, <1>9 DEF TimeSidecar, AwaitCold, PollAgain, DecideCold, TimingTurn
<1>10. CASE MeasureNative
  <2>1. stage = "timing" /\ "cedar-native" \in todo
    BY <1>10 DEF MeasureNative, Turn
  <2>2. UNCHANGED <<live, fixture, disagreed, stage, aborted>>
    BY <1>10 DEF MeasureNative
  <2>3. (Row("cedar-native") /\ UNCHANGED exitCode) \/ exitCode' = 1
    BY <1>10, <2>2 DEF MeasureNative, Row
  <2> QED
    BY <2>1, <2>2, <2>3, CleanTiming
<1>11. CASE AskEngines
  <2>1. stage = "setup" /\ todo = {} /\ stage' = "asking"
    BY <1>11 DEF AskEngines
  <2>2. UNCHANGED <<live, fixture, open, rows, disagreed, exitCode>>
    BY <1>11 DEF AskEngines
  <2> QED
    BY <2>1, <2>2 DEF CleanInv, RowsBefore, Owed, Runnable
<1>12. CASE \E e \in Engines : Ask(e)
  <2>1. stage = "asking" /\ UNCHANGED <<live, fixture, open, rows, disagreed, exitCode>>
    BY <1>12 DEF Ask
  <2>2. stage' = "asking" \/ (stage' = "closing" /\ aborted')
    BY <1>12, <2>1 DEF Ask, Throw
  <2> QED
    BY <2>1, <2>2 DEF CleanInv, RowsBefore, Owed, Runnable
<1>13. CASE Gate
  BY <1>13, CleanGate
<1>14. CASE TimingEnds
  BY <1>14, CleanTimingEnds
<1>15. CASE CloseAll
  BY <1>15, CleanClose
<1>16. CASE Report
  BY <1>16, CleanReport
<1>17. CASE UNCHANGED driverVars
  BY <1>17, CleanElsewhere
<1> QED
  BY <1>1, <1>2, <1>3, <1>4, <1>5, <1>7, <1>8, <1>9, <1>10, <1>11, <1>12,
     <1>13, <1>14, <1>15, <1>16, <1>17
     DEF Next, HarnessStep, ServerStep, Over, CrateChanges, vars

LEMMA ExitCodesStep ==
  ASSUME ExitCodes, DriverInv, DriverInv', [Next]_vars
  PROVE  ExitCodes'
<1>1. fixture' \in Policies
  BY FixtureCount DEF DriverInv
<1>2. exitCode' \in {0, 1}
  BY DEF ExitCodes, vars, driverVars, Next, HarnessStep, ServerStep, Over, CrateChanges,
     CheckEngines, SetupZopa, SetupZopaCompiled, SetupCedar, SetupInstance,
     SetupTurn, Opened, SetupFailed, SetupOpaWasm, SetupNative, SpawnSidecar,
     AwaitSidecar, TimeInstance, TimingTurn, TimeOpaWasm, MeasureNative,
     TimeSidecar, AwaitCold, DecideCold, AskEngines, Ask, Gate, TimingEnds,
     CloseAll, Report
<1> QED
  BY <1>1, <1>2 DEF ExitCodes

(* A run that exits with 0 reports a row of every engine that was          *)
(* available, for every fixture the engine supports: whatever failed,      *)
(* threw or was skipped on the way shows in the exit code.                 *)
THEOREM CleanExit == Spec => []CleanExitIsComplete
<1>1. Init => CleanInv /\ ExitCodes
  BY FixtureCount DEF Init, CleanInv, ExitCodes
<1>2. CleanInv /\ ExitCodes /\ DriverInv /\ DriverInv' /\ disagreed \in BOOLEAN
        /\ [Next]_vars => CleanInv' /\ ExitCodes'
  BY CleanStep, ExitCodesStep
<1>3. CleanInv => CleanExitIsComplete
  <2>1. ASSUME CleanInv, stage = "done", exitCode = 0
        PROVE  published = {row \in Policies \X live : Supports(row[2], row[1])}
    BY <2>1 DEF CleanInv, Owed
  <2> QED
    BY <2>1 DEF CleanExitIsComplete
<1> QED
  BY <1>1, <1>2, <1>3, DriverInvariant, GateBoolean, PTL DEF Spec

-----------------------------------------------------------------------------
(* The servers, and what is compiled.                                      *)

(* The engines take their turns one at a time.                             *)
LEMMA OneTurn ==
  ASSUME NEW e \in Engines, NEW d \in Engines, Turn(e), Turn(d)
  PROVE  e = d
<1>1. \A x \in Engines : Index(x) \in DOMAIN AllEngines /\ AllEngines[Index(x)] = x
  BY DEF Engines, Index
<1>2. DOMAIN AllEngines = 1 .. 6
  BY DEF AllEngines
<1>3. Index(e) <= Index(d) /\ Index(d) <= Index(e)
  BY DEF Turn
<1>4. Index(e) = Index(d)
  BY <1>1, <1>2, <1>3
<1> QED
  BY <1>1, <1>4

-----------------------------------------------------------------------------
Holder(s) == \E u \in Uses : children[u].server = s

Children ==
  [Uses -> {NoChild} \cup [server : Servers, polls : Nat, ready : BOOLEAN]]

HeldInv ==
  /\ ServersTypeOK
  /\ children \in Children
  /\ \A s \in Servers :
       Running(s) /\ ~servers[s].signalled =>
         Holder(s) /\ servers[s].policy = fixture
  /\ stage \in {"selecting", "reporting", "done"} => open = {}
  /\ children["instance"] # NoChild =>
       \/ "opa-http" \in open
       \/ stage = "setup" /\ Turn("opa-http")
  /\ children["cold"] # NoChild => stage = "timing" /\ Turn("opa-http")

LEMMA NoOneHeld ==
  ASSUME HeldInv, stage = "done", NEW s \in Servers, Running(s)
  PROVE  servers[s].signalled
<1>1. \A u \in Uses : children[u] = NoChild
  BY DEF HeldInv, Uses
<1>2. ~Holder(s)
  BY <1>1, ServersAssumption DEF Holder, NoChild
<1> QED
  BY <1>2 DEF HeldInv

-----------------------------------------------------------------------------
(* What a step does to the servers.                                        *)

Kept ==
  /\ ServersTypeOK'
  /\ children' \in Children
  /\ \A s \in Servers :
       Running(s)' /\ ~servers'[s].signalled =>
         Holder(s)' /\ servers'[s].policy = fixture'

LEMMA SpawnKeeps ==
  ASSUME HeldInv, DriverInv, NEW u \in Uses, Spawn(u), UNCHANGED fixture
  PROVE  /\ Kept
         /\ \A v \in Uses \ {u} : children'[v] = children[v]
         /\ children'[u] # NoChild
<1>1. PICK s \in Servers, port \in Ports :
        /\ servers[s] = Absent
        /\ servers' = [servers EXCEPT ![s] = Process(port, fixture)]
        /\ children' = [children EXCEPT
                          ![u] = [server |-> s, polls |-> 0, ready |-> FALSE]]
  BY DEF Spawn, Spawned
<1>2. /\ children'[u] = [server |-> s, polls |-> 0, ready |-> FALSE]
      /\ \A v \in Uses \ {u} : children'[v] = children[v]
      /\ children' \in Children
  BY <1>1 DEF HeldInv, Children
<1>3. fixture \in Policies
  BY FixtureCount DEF DriverInv
<1>4. Process(port, fixture) \in ProcessType /\ Process(port, fixture).policy = fixture
  BY <1>3 DEF Process, ProcessType
<1>5. ServersTypeOK'
  BY <1>1, <1>4 DEF HeldInv, ServersTypeOK
<1>6. ASSUME NEW t \in Servers, Running(t)', ~servers'[t].signalled
      PROVE  Holder(t)' /\ servers'[t].policy = fixture'
  <2>1. CASE t = s
    BY <1>1, <1>2, <1>4, <2>1 DEF HeldInv, ServersTypeOK, Holder
  <2>2. CASE t # s
    <3>1. servers'[t] = servers[t]
      BY <1>1, <2>2 DEF HeldInv, ServersTypeOK
    <3>2. Holder(t) /\ servers[t].policy = fixture
      BY <1>6, <3>1 DEF HeldInv, Running
    <3>3. PICK v \in Uses : children[v].server = t
      BY <3>2 DEF Holder
    <3>4. v # u
      BY <3>3, ServersAssumption DEF Spawn, NoChild
    <3> QED
      BY <1>2, <3>1, <3>2, <3>3, <3>4 DEF Holder
  <2> QED
    BY <2>1, <2>2
<1>7. children'[u] # NoChild
  BY <1>2, ServersAssumption DEF NoChild
<1> QED
  BY <1>2, <1>5, <1>6, <1>7 DEF Kept

LEMMA KillKeeps ==
  ASSUME HeldInv, NEW us \in SUBSET Uses, Kill(us),
         fixture' = fixture \/ {u \in Uses : children[u] # NoChild} \subseteq us
  PROVE  /\ Kept
         /\ \A u \in us : children'[u] = NoChild
         /\ \A u \in Uses \ us : children'[u] = children[u]
<1>1. children' = [u \in Uses |-> IF u \in us THEN NoChild ELSE children[u]]
  BY DEF Kill
<1>2. children' \in Children
  BY <1>1 DEF HeldInv, Children
<1> DEFINE killed == {children[u].server : u \in us} \ {0}
<1>3. servers' = [s \in Servers |->
                    IF s \notin killed THEN servers[s]
                    ELSE IF Running(s) THEN [servers[s] EXCEPT !.signalled = TRUE]
                    ELSE Absent]
  BY DEF Kill, Signalled
<1> HIDE DEF killed
<1>4. ServersTypeOK'
  <2>1. ASSUME NEW s \in Servers, Running(s)
        PROVE  [servers[s] EXCEPT !.signalled = TRUE] \in ProcessType
    <3>1. servers[s] \in ProcessType
      BY <2>1 DEF HeldInv, ServersTypeOK, Running, Absent
    <3> QED
      BY <3>1 DEF ProcessType
  <2> QED
    BY <1>3, <2>1 DEF HeldInv, ServersTypeOK
<1>5. ASSUME NEW s \in Servers, Running(s)', ~servers'[s].signalled
      PROVE  Holder(s)' /\ servers'[s].policy = fixture'
  <2>1. s \notin killed /\ servers'[s] = servers[s]
    <3>1. CASE s \in killed /\ Running(s)
      <4>1. servers'[s] = [servers[s] EXCEPT !.signalled = TRUE]
        BY <1>3, <3>1
      <4>2. servers[s] \in ProcessType
        BY <3>1 DEF HeldInv, ServersTypeOK, Running, Absent
      <4> QED
        BY <1>5, <4>1, <4>2 DEF ProcessType
    <3>2. CASE s \in killed /\ ~Running(s)
      BY <1>3, <1>5, <3>2 DEF Running, Absent
    <3> QED
      BY <1>3, <3>1, <3>2
  <2>2. Holder(s) /\ servers[s].policy = fixture
    BY <1>5, <2>1 DEF HeldInv, Running
  <2>3. PICK u \in Uses : children[u].server = s
    BY <2>2 DEF Holder
  <2>4. u \notin us
    BY <2>1, <2>3, ServersAssumption DEF killed
  <2>5. children[u] # NoChild
    BY <2>3, ServersAssumption DEF NoChild
  <2> QED
    BY <1>1, <2>1, <2>2, <2>3, <2>4, <2>5 DEF Holder
<1> QED
  BY <1>1, <1>2, <1>4, <1>5 DEF Kept

LEMMA StillKept ==
  ASSUME HeldInv, UNCHANGED <<servers, children, fixture>>
  PROVE  Kept
  BY DEF HeldInv, Kept, ServersTypeOK, Running, Holder

(* waitReady counts a pass, or finds the port answered.                    *)
LEMMA PollKeeps ==
  ASSUME HeldInv, NEW u \in Uses, children[u] # NoChild,
         UNCHANGED <<servers, fixture>>,
         \/ children' = [children EXCEPT ![u].ready = TRUE]
         \/ children' = [children EXCEPT ![u].polls = @ + 1]
  PROVE  /\ Kept
         /\ \A v \in Uses : children'[v] # NoChild <=> children[v] # NoChild
<1>1. children[u] \in [server : Servers, polls : Nat, ready : BOOLEAN]
  BY DEF HeldInv, Children
<1>2. /\ children'[u] \in [server : Servers, polls : Nat, ready : BOOLEAN]
      /\ children'[u].server = children[u].server
      /\ \A v \in Uses \ {u} : children'[v] = children[v]
      /\ children' = [v \in Uses |-> children'[v]]
  <2>1. CASE children' = [children EXCEPT ![u].ready = TRUE]
    <3>1. children'[u] = [children[u] EXCEPT !.ready = TRUE]
      BY <2>1 DEF HeldInv, Children
    <3> QED
      BY <1>1, <2>1, <3>1 DEF HeldInv, Children
  <2>2. CASE children' = [children EXCEPT ![u].polls = @ + 1]
    <3>1. children'[u] = [children[u] EXCEPT !.polls = @ + 1]
      BY <2>2 DEF HeldInv, Children
    <3>2. children[u].polls + 1 \in Nat
      BY <1>1
    <3>3. /\ children'[u] \in [server : Servers, polls : Nat, ready : BOOLEAN]
          /\ children'[u].server = children[u].server
      BY <1>1, <3>1, <3>2
    <3> QED
      BY <2>2, <3>3 DEF HeldInv, Children
  <2> QED
    BY <2>1, <2>2
<1>3. children' \in Children
  BY <1>2 DEF HeldInv, Children
<1>4. \A s \in Servers : Holder(s)' <=> Holder(s)
  BY <1>2 DEF Holder
<1>5. children'[u] # NoChild
  BY <1>2, ServersAssumption DEF NoChild
<1> QED
  BY <1>2, <1>3, <1>4, <1>5 DEF HeldInv, Kept, ServersTypeOK, Running

LEMMA ServerKeeps ==
  ASSUME HeldInv, ServersNext, UNCHANGED <<children, fixture>>
  PROVE  Kept
<1>1. PICK s \in Servers : Listen(s) \/ Exit(s) \/ Die(s)
  BY DEF ServersNext
<1>2. servers[s] \in ProcessType
  BY <1>1 DEF HeldInv, ServersTypeOK, Listen, Exit, Die, Running, Absent
<1>3. CASE Die(s)
  <2>1. servers' = [servers EXCEPT ![s] = Absent]
    BY <1>3 DEF Die
  <2>2. /\ servers'[s] = Absent
        /\ \A t \in Servers \ {s} : servers'[t] = servers[t]
        /\ ServersTypeOK'
    BY <2>1 DEF HeldInv, ServersTypeOK
  <2>3. ~Running(s)'
    BY <2>2 DEF Running, Absent
  <2> QED
    BY <2>2, <2>3 DEF HeldInv, Kept, Running, Holder
<1>4. CASE Listen(s) \/ Exit(s)
  <2>1. PICK status \in {"listening", "exited", "killed"} :
          /\ servers' = [servers EXCEPT ![s].status = status]
          /\ Running(s)
    BY <1>4 DEF Listen, Exit, Running
  <2>2. /\ servers'[s] = [servers[s] EXCEPT !.status = status]
        /\ \A t \in Servers \ {s} : servers'[t] = servers[t]
        /\ servers' = [t \in Servers |-> servers'[t]]
    BY <2>1 DEF HeldInv, ServersTypeOK
  <2>3. /\ servers'[s] \in ProcessType
        /\ servers'[s].signalled = servers[s].signalled
        /\ servers'[s].policy = servers[s].policy
    BY <1>2, <2>2 DEF ProcessType
  <2>4. ServersTypeOK'
    BY <2>2, <2>3 DEF HeldInv, ServersTypeOK
  <2> QED
    BY <2>1, <2>2, <2>3, <2>4 DEF HeldInv, Kept, Running, Holder
<1> QED
  BY <1>1, <1>3, <1>4

-----------------------------------------------------------------------------
(* Steps of the harness, by what they do to the sidecars.                  *)

LEMMA HttpTurn == "opa-http" \in Engines
  BY EnginesAre

(* A turn of another engine: no server is then in the making.              *)
LEMMA AnotherTurn ==
  ASSUME HeldInv, NEW e \in Engines, e # "opa-http", Turn(e),
         UNCHANGED <<servers, children, fixture>>,
         todo' \subseteq todo, open \subseteq open', open' \subseteq Engines,
         stage' \notin {"selecting", "reporting", "done"}
  PROVE  HeldInv'
<1>1. ~Turn("opa-http")
  BY OneTurn, HttpTurn
<1>2. children["cold"] = NoChild
  BY <1>1 DEF HeldInv
<1>3. children["instance"] # NoChild => "opa-http" \in open
  BY <1>1 DEF HeldInv
<1>4. Kept
  BY StillKept
<1> QED
  BY <1>2, <1>3, <1>4 DEF Kept, HeldInv

LEMMA SetupHeld ==
  ASSUME HeldInv, DriverInv, NEW e \in Engines, e # "opa-http", SetupTurn(e),
         Opened(e) \/ SetupFailed(e), UNCHANGED <<children, servers>>
  PROVE  HeldInv'
<1>1. stage' = "setup" /\ Turn(e) /\ fixture' = fixture
  BY DEF SetupTurn
<1>2. todo' \subseteq todo /\ open \subseteq open' /\ open' \subseteq Engines
  BY DEF Opened, SetupFailed, TurnEnds, DriverInv
<1> QED
  BY <1>1, <1>2, AnotherTurn

LEMMA TimingHeld ==
  ASSUME HeldInv, DriverInv, NEW e \in Engines, e # "opa-http", TimingTurn(e),
         Row(e) \/ NoRow, UNCHANGED <<children, servers>>
  PROVE  HeldInv'
<1>1. stage' \in {"timing", "closing"} /\ Turn(e) /\ fixture' = fixture /\ open' = open
  BY DEF TimingTurn, Row, NoRow, Throw
<1>2. todo' \subseteq todo
  BY DEF Row, NoRow, Throw, TurnEnds
<1> QED
  BY <1>1, <1>2, AnotherTurn DEF DriverInv

LEMMA SpawnSidecarHeld ==
  ASSUME HeldInv, DriverInv, SpawnSidecar
  PROVE  HeldInv'
<1>1. stage = "setup" /\ stage' = "setup" /\ Turn("opa-http") /\ fixture' = fixture
  BY DEF SpawnSidecar, SetupTurn
<1>2. CASE Spawn("instance") /\ UNCHANGED <<todo, open, exitCode>>
  <2>1. Kept /\ children'["cold"] = children["cold"]
    BY <1>1, <1>2, SpawnKeeps DEF Uses
  <2>2. Turn("opa-http")'
    BY <1>1, <1>2 DEF Turn
  <2> QED
    BY <1>1, <1>2, <2>1, <2>2 DEF Kept, HeldInv
<1>3. CASE SetupFailed("opa-http") /\ children["instance"] = NoChild
           /\ UNCHANGED <<children, servers>>
  <2>1. Kept
    BY <1>1, <1>3, StillKept
  <2>2. todo' \subseteq todo
    BY <1>3 DEF SetupFailed, TurnEnds
  <2>3. children["cold"] = NoChild
    BY <1>1 DEF HeldInv
  <2> QED
    BY <1>1, <1>3, <2>1, <2>2, <2>3 DEF Kept, HeldInv
<1> QED
  BY <1>2, <1>3 DEF SpawnSidecar

LEMMA AwaitSidecarHeld ==
  ASSUME HeldInv, DriverInv, AwaitSidecar
  PROVE  HeldInv'
<1>1. stage = "setup" /\ stage' = "setup" /\ Turn("opa-http") /\ fixture' = fixture
  BY DEF AwaitSidecar, SetupTurn
<1>2. children["cold"] = NoChild /\ children["instance"] # NoChild
  BY <1>1 DEF HeldInv, AwaitSidecar, Polling
<1>3. CASE Healthy("instance") /\ Opened("opa-http")
  <2>1. Kept /\ children'["cold"] = NoChild
    BY <1>1, <1>2, <1>3, PollKeeps DEF Healthy, Uses
  <2>2. todo' \subseteq todo /\ "opa-http" \in open'
    BY <1>3 DEF Opened, TurnEnds
  <2> QED
    BY <1>1, <2>1, <2>2 DEF Kept, HeldInv
<1>4. CASE PollAgain("instance") /\ UNCHANGED open
  <2>1. Kept /\ children'["cold"] = NoChild
    BY <1>1, <1>2, <1>4, PollKeeps DEF PollAgain, Uses
  <2>2. Turn("opa-http")' /\ todo' = todo
    BY <1>1, <1>4 DEF Turn, PollAgain
  <2> QED
    BY <1>1, <1>4, <2>1, <2>2 DEF Kept, HeldInv
<1>5. CASE Kill({"instance"}) /\ SetupFailed("opa-http")
  <2>1. Kept /\ children'["instance"] = NoChild /\ children'["cold"] = NoChild
    BY <1>1, <1>2, <1>5, KillKeeps DEF Uses
  <2>2. todo' \subseteq todo
    BY <1>5 DEF SetupFailed, TurnEnds
  <2> QED
    BY <1>1, <2>1, <2>2 DEF Kept, HeldInv
<1> QED
  BY <1>3, <1>4, <1>5 DEF AwaitSidecar

LEMMA ColdHeld ==
  ASSUME HeldInv, DriverInv, TimeSidecar \/ AwaitCold \/ DecideCold
  PROVE  HeldInv'
<1>1. stage = "timing" /\ Turn("opa-http") /\ fixture' = fixture /\ open' = open
  BY DEF TimeSidecar, AwaitCold, DecideCold, TimingTurn
<1>2. children["instance"] # NoChild => "opa-http" \in open
  BY <1>1 DEF HeldInv
<1>3. Row("opa-http") \/ NoRow => /\ todo' \subseteq todo
                                 /\ stage' \in {"timing", "closing"}
  BY <1>1 DEF Row, NoRow, Throw, TurnEnds
<1>4. UNCHANGED <<todo, stage>> => stage' = "timing" /\ Turn("opa-http")' /\ todo' = todo
  BY <1>1 DEF Turn
<1>5. CASE Kill({"cold"}) /\ (Row("opa-http") \/ NoRow)
  <2>1. /\ Kept
        /\ children'["cold"] = NoChild
        /\ children'["instance"] = children["instance"]
    BY <1>1, <1>5, KillKeeps DEF Uses
  <2> QED
    BY <1>1, <1>2, <1>3, <1>5, <2>1 DEF Kept, HeldInv
<1>6. CASE Spawn("cold") /\ UNCHANGED <<todo, stage>>
  <2>1. Kept /\ children'["instance"] = children["instance"]
    BY <1>1, <1>6, SpawnKeeps DEF Uses
  <2> QED
    BY <1>1, <1>2, <1>4, <1>6, <2>1 DEF Kept, HeldInv
<1>7. CASE NoRow /\ children["cold"] = NoChild /\ UNCHANGED <<children, servers>>
  <2>1. Kept
    BY <1>1, <1>7, StillKept
  <2> QED
    BY <1>1, <1>2, <1>3, <1>7, <2>1 DEF Kept, HeldInv
<1>8. CASE Polling("cold") /\ (Healthy("cold") \/ PollAgain("cold"))
           /\ UNCHANGED <<todo, stage>>
  <2>1. Kept /\ (children'["instance"] # NoChild <=> children["instance"] # NoChild)
    BY <1>1, <1>8, PollKeeps DEF Healthy, PollAgain, Polling, Uses
  <2> QED
    BY <1>1, <1>2, <1>4, <1>8, <2>1 DEF Kept, HeldInv
<1>9. CASE TimeSidecar
  BY <1>6, <1>7, <1>9 DEF TimeSidecar
<1>10. CASE AwaitCold
  BY <1>5, <1>8, <1>10 DEF AwaitCold, PollAgain
<1>11. CASE DecideCold
  BY <1>5, <1>11 DEF DecideCold
<1> QED
  BY <1>9, <1>10, <1>11

LEMMA CloseHeld ==
  ASSUME HeldInv, DriverInv, CloseAll
  PROVE  HeldInv'
<1>1. stage = "closing" /\ stage' \in {"setup", "reporting", "done"} /\ open' = {}
  BY DEF CloseAll
<1>2. children["cold"] = NoChild
  BY <1>1 DEF HeldInv
<1>3. Kill(IF "opa-http" \in open THEN {"instance"} ELSE {})
  BY DEF CloseAll, Closed
<1>4. PICK us \in SUBSET Uses :
        /\ Kill(us)
        /\ us \subseteq {"instance"}
        /\ "instance" \in us <=> "opa-http" \in open
  BY <1>3 DEF Uses
<1>5. children["instance"] # NoChild => "instance" \in us
  BY <1>1, <1>4 DEF HeldInv
<1>6. {u \in Uses : children[u] # NoChild} \subseteq us
  BY <1>2, <1>5 DEF Uses
<1>7. Kept /\ children'["instance"] = NoChild /\ children'["cold"] = NoChild
  BY <1>2, <1>4, <1>5, <1>6, KillKeeps DEF Uses
<1> QED
  BY <1>1, <1>7 DEF Kept, HeldInv

LEMMA HeldStep ==
  ASSUME HeldInv, DriverInv, [Next]_vars
  PROVE  HeldInv'
<1>1. CASE SetupZopa \/ SetupZopaCompiled \/ SetupCedar
  BY <1>1, SetupHeld, EnginesAre DEF SetupZopa, SetupZopaCompiled, SetupCedar,
     SetupInstance, engineVars
<1>2. CASE SetupOpaWasm
  BY <1>2, SetupHeld, EnginesAre DEF SetupOpaWasm
<1>3. CASE SetupNative
  BY <1>3, SetupHeld, EnginesAre DEF SetupNative
<1>4. CASE \E e \in {"zopa", "zopa-compiled", "cedar"} : TimeInstance(e)
  BY <1>4, TimingHeld, EnginesAre DEF TimeInstance, engineVars
<1>5. CASE TimeOpaWasm
  BY <1>5, TimingHeld, EnginesAre DEF TimeOpaWasm
<1>6. CASE MeasureNative
  <2>1. stage' = "timing" /\ Turn("cedar-native") /\ todo' \subseteq todo
    BY <1>6 DEF MeasureNative, TurnEnds
  <2>2. UNCHANGED <<servers, children, fixture, open>>
    BY <1>6 DEF MeasureNative
  <2> QED
    BY <2>1, <2>2, AnotherTurn, EnginesAre DEF DriverInv
<1>7. CASE SpawnSidecar
  BY <1>7, SpawnSidecarHeld
<1>8. CASE AwaitSidecar
  BY <1>8, AwaitSidecarHeld
<1>9. CASE TimeSidecar \/ AwaitCold \/ DecideCold
  BY <1>9, ColdHeld
<1>10. CASE CloseAll
  BY <1>10, CloseHeld
<1>11. ASSUME UNCHANGED <<servers, children, fixture, open>>,
              stage # "timing" \/ ~Turn("opa-http"),
              stage # "setup" \/ ~Turn("opa-http"),
              stage' \in {"selecting", "reporting", "done"}
                => stage \in {"selecting", "reporting", "done"}
       PROVE  HeldInv'
  BY <1>11, StillKept DEF Kept, HeldInv
<1>12. CASE CheckEngines
  <2>1. stage = "selecting" /\ UNCHANGED <<servers, children, fixture, open>>
    BY <1>12 DEF CheckEngines, engineVars
  <2> QED
    BY <1>11, <2>1
<1>13. CASE AskEngines
  <2>1. stage' = "asking" /\ todo = {} /\ UNCHANGED <<servers, children, fixture, open>>
    BY <1>13 DEF AskEngines, engineVars
  <2> QED
    BY <1>11, <2>1 DEF Turn
<1>14. CASE \E e \in Engines : Ask(e)
  <2>1. /\ stage = "asking" /\ stage' \in {"asking", "closing"}
        /\ UNCHANGED <<servers, children, fixture, open>>
    BY <1>14 DEF Ask, Throw, engineVars
  <2> QED
    BY <1>11, <2>1
<1>15. CASE Gate \/ TimingEnds
  <2>1. stage' \in {"timing", "closing"} /\ todo = {} /\ UNCHANGED <<servers, children, fixture, open>>
    BY <1>15 DEF Gate, TimingEnds, engineVars
  <2> QED
    BY <1>11, <2>1 DEF Turn
<1>16. CASE Report
  <2>1. stage = "reporting" /\ UNCHANGED <<servers, children, fixture, open>>
    BY <1>16 DEF Report, engineVars
  <2> QED
    BY <1>11, <2>1
<1>17. CASE ServerStep \/ CrateChanges \/ UNCHANGED vars
  <2>1. UNCHANGED <<children, fixture, open, stage, todo>> /\ (ServersNext \/ UNCHANGED servers)
    BY <1>17 DEF ServerStep, CrateChanges, vars, driverVars, engineVars
  <2>2. Kept
    BY <2>1, ServerKeeps, StillKept
  <2> QED
    BY <2>1, <2>2 DEF Kept, HeldInv, Turn
<1> QED
  BY <1>1, <1>2, <1>3, <1>4, <1>5, <1>6, <1>7, <1>8, <1>9, <1>10, <1>12,
     <1>13, <1>14, <1>15, <1>16, <1>17 DEF Next, HarnessStep, Over

LEMMA HeldInvariant == Spec => []HeldInv
<1>1. ASSUME Init
      PROVE  HeldInv
  <2>1. servers = [s \in Servers |-> Absent]
    BY <1>1 DEF Init, NoServers
  <2>2. ServersTypeOK
    BY <1>1 DEF Init, NoServers, ServersTypeOK
  <2>3. children \in Children /\ \A u \in Uses : children[u] = NoChild
    BY <1>1 DEF Init, Children
  <2>4. ASSUME NEW s \in Servers
        PROVE  ~Running(s)
    <3>1. servers[s] = Absent
      BY <2>1
    <3>2. Absent.status = "absent"
      BY DEF Absent
    <3> QED
      BY <3>1, <3>2 DEF Running
  <2>5. stage = "selecting" /\ open = {}
    BY <1>1 DEF Init
  <2> QED
    BY <2>2, <2>3, <2>4, <2>5 DEF HeldInv, Uses
<1>2. HeldInv /\ DriverInv /\ [Next]_vars => HeldInv'
  BY HeldStep
<1> QED
  BY <1>1, <1>2, DriverInvariant, PTL DEF Spec

(* No OPA server outlives the run unnoticed (run.mjs 210-213): one that    *)
(* has not been signalled is held by the harness, which is still at work.  *)
THEOREM NoneLost == Spec => []NoSidecarLost
<1>1. HeldInv => NoSidecarLost
  BY NoOneHeld DEF HeldInv, NoSidecarLost, Holder
<1> QED
  BY <1>1, HeldInvariant, PTL

-----------------------------------------------------------------------------
(* opa-wasm and its memo.                                                  *)

ArtifactInv ==
  /\ artifacts \in [Policies -> {NoArtifact} \cup Policies]
  /\ \A f \in Policies : artifacts[f] \in {NoArtifact, f}
  /\ "opa-wasm" \in open => artifacts[fixture] = fixture

LEMMA CompileKeeps ==
  ASSUME ArtifactInv, DriverInv, Compile
  PROVE  /\ artifacts' \in [Policies -> {NoArtifact} \cup Policies]
         /\ \A f \in Policies : artifacts'[f] \in {NoArtifact, f}
         /\ Compiled => artifacts'[fixture] = fixture
         /\ artifacts[fixture] = fixture => artifacts'[fixture] = fixture
<1>1. fixture \in Policies /\ fixture # NoArtifact
  BY FixtureCount DEF DriverInv, NoArtifact
<1>2. \/ UNCHANGED artifacts
      \/ artifacts' = [artifacts EXCEPT ![fixture] = fixture]
  BY DEF Compile, Key
<1> QED
  BY <1>1, <1>2 DEF ArtifactInv, Compiled, Key

LEMMA ArtifactStep ==
  ASSUME ArtifactInv, DriverInv, [Next]_vars
  PROVE  ArtifactInv'
<1>1. CASE SetupOpaWasm
  <2>1. Compile /\ fixture' = fixture
    BY <1>1 DEF SetupOpaWasm, SetupTurn
  <2>2. Compiled \/ open' = open
    BY <1>1 DEF SetupOpaWasm, SetupFailed
  <2>3. open' \subseteq open \cup {"opa-wasm"}
    BY <1>1 DEF SetupOpaWasm, SetupFailed, Opened
  <2> QED
    BY <2>1, <2>2, <2>3, CompileKeeps DEF ArtifactInv
<1>2. CASE TimeOpaWasm
  <2>1. Compile /\ UNCHANGED <<fixture, open>>
    BY <1>2 DEF TimeOpaWasm, TimingTurn
  <2> QED
    BY <2>1, CompileKeeps DEF ArtifactInv
<1>3. CASE CloseAll
  BY <1>3 DEF CloseAll, ArtifactInv
<1>4. ASSUME UNCHANGED <<artifacts, fixture>>,
             "opa-wasm" \in open' => "opa-wasm" \in open
      PROVE  ArtifactInv'
  BY <1>4 DEF ArtifactInv
<1>5. ASSUME NEW e, e # "opa-wasm", SetupTurn(e), UNCHANGED artifacts,
             Opened(e) \/ SetupFailed(e) \/ UNCHANGED open
      PROVE  ArtifactInv'
  BY <1>4, <1>5 DEF SetupTurn, Opened, SetupFailed
<1>6. CASE SetupZopa \/ SetupZopaCompiled \/ SetupCedar
  BY <1>5, <1>6 DEF SetupZopa, SetupZopaCompiled, SetupCedar, SetupInstance, engineVars
<1>7. CASE SetupNative \/ SpawnSidecar \/ AwaitSidecar
  BY <1>5, <1>7 DEF SetupNative, SpawnSidecar, AwaitSidecar
<1>8. CASE UNCHANGED <<artifacts, fixture, open>>
  BY <1>4, <1>8
<1> QED
  BY <1>1, <1>2, <1>3, <1>6, <1>7, <1>8 DEF Next, HarnessStep, ServerStep, Over, CrateChanges,
     vars, driverVars, engineVars, CheckEngines, TimeInstance, TimingTurn,
     MeasureNative, TimeSidecar, AwaitCold, DecideCold, AskEngines, Ask, Gate,
     TimingEnds, Report

(* An OPA engine is asked about the policy of the fixture at hand: the     *)
(* artifact opa-wasm holds was built from it, and a server that answers on *)
(* a sidecar's port was started for it or is on its way out.               *)
THEOREM AskedItsOwn == Spec => []AskedAboutItsFixture
<1>1. Init => ArtifactInv
  BY FixtureCount DEF Init, ArtifactInv
<1>2. ArtifactInv /\ DriverInv /\ [Next]_vars => ArtifactInv'
  BY ArtifactStep
<1>3. HeldInv /\ ArtifactInv => AskedAboutItsFixture
  <2>1. ASSUME HeldInv, ArtifactInv, NEW u \in Uses, NEW s \in AnsweringOn(Port(u))
        PROVE  servers[s].policy = fixture \/ servers[s].signalled
    BY <2>1 DEF HeldInv, AnsweringOn, Running
  <2> QED
    BY <2>1 DEF ArtifactInv, AskedAboutItsFixture, Key
<1> QED
  BY <1>1, <1>2, <1>3, DriverInvariant, HeldInvariant, PTL DEF Spec

-----------------------------------------------------------------------------
(* cedar-native has been tried by the time it is open.                     *)
NativeTried == "cedar-native" \in open => native # Untried

LEMMA NativeTriedStep ==
  ASSUME NativeTried, [Next]_vars
  PROVE  NativeTried'
<1>1. NativeRows => native' # Untried
  <2>1. RunHarness => native'.result \in {"failure", "rows"}
    BY DEF RunHarness, Failure
  <2>2. Untried.result = "untried"
    BY DEF Untried
  <2>3. RunHarness => native' # Untried
    BY <2>1, <2>2
  <2> QED
    BY <2>3 DEF NativeRows
<1>2. CASE SetupNative \/ MeasureNative
  BY <1>1, <1>2 DEF SetupNative, MeasureNative, NativeTried
<1>3. ASSUME UNCHANGED native, "cedar-native" \in open' => "cedar-native" \in open
      PROVE  NativeTried'
  BY <1>3 DEF NativeTried
<1>4. ASSUME NEW e, e # "cedar-native", SetupTurn(e), UNCHANGED native,
             Opened(e) \/ SetupFailed(e) \/ UNCHANGED open
      PROVE  NativeTried'
  BY <1>3, <1>4 DEF SetupTurn, Opened, SetupFailed
<1>5. CASE SetupZopa \/ SetupZopaCompiled \/ SetupCedar
  BY <1>4, <1>5 DEF SetupZopa, SetupZopaCompiled, SetupCedar, SetupInstance, engineVars
<1>6. CASE SetupOpaWasm \/ SpawnSidecar \/ AwaitSidecar
  BY <1>4, <1>6 DEF SetupOpaWasm, SpawnSidecar, AwaitSidecar
<1>7. CASE CloseAll
  BY <1>7 DEF CloseAll, NativeTried
<1>8. CASE UNCHANGED <<native, open>>
  BY <1>3, <1>8
<1> QED
  BY <1>2, <1>5, <1>6, <1>7, <1>8 DEF Next, HarnessStep, ServerStep, Over, CrateChanges,
     vars, driverVars, engineVars, CheckEngines, TimeInstance, TimingTurn,
     TimeOpaWasm, TimeSidecar, AwaitCold, DecideCold, AskEngines, Ask, Gate,
     TimingEnds, Report

LEMMA TimingStepBuildsNothing ==
  ASSUME ArtifactInv, NativeTried, DriverInv, [Next]_vars, stage = "timing"
  PROVE  UNCHANGED <<opaBuilds, tries>>
<1>1. todo \subseteq open
  BY DEF DriverInv
<1>2. CASE TimeOpaWasm
  <2>1. "opa-wasm" \in open
    BY <1>1, <1>2 DEF TimeOpaWasm, TimingTurn, Turn
  <2>2. fixture # NoArtifact
    BY FixtureCount DEF DriverInv, NoArtifact
  <2>3. Cached
    BY <2>1, <2>2 DEF ArtifactInv, Cached, Key
  <2> QED
    BY <1>2, <2>3 DEF TimeOpaWasm, Compile
<1>3. CASE MeasureNative
  <2>1. native # Untried
    BY <1>1, <1>3 DEF MeasureNative, Turn, NativeTried
  <2> QED
    BY <1>3, <2>1 DEF MeasureNative, NativeRows
<1>4. CASE UNCHANGED <<opaBuilds, tries>>
  BY <1>4
<1> QED
  BY <1>2, <1>3, <1>4 DEF Next, HarnessStep, ServerStep, Over, CrateChanges, vars,
     engineVars, CheckEngines, SetupZopa, SetupZopaCompiled, SetupCedar,
     SetupInstance, SetupTurn, SetupOpaWasm, SetupNative, SpawnSidecar,
     AwaitSidecar, TimeInstance, TimingTurn, TimeSidecar, AwaitCold,
     DecideCold, AskEngines, Ask, Gate, TimingEnds, CloseAll, Report

(* No compiler runs inside a measurement: every artifact timed was made    *)
(* when its engine was set up (opa-wasm.mjs 42-45), and so was every row   *)
(* of cedar-native.                                                        *)
THEOREM NoBuildWhileTiming == Spec => TimingBuildsNothing
<1>1. Init => ArtifactInv /\ NativeTried
  BY FixtureCount DEF Init, ArtifactInv, NativeTried
<1>2. ArtifactInv /\ NativeTried /\ DriverInv /\ [Next]_vars
        => ArtifactInv' /\ NativeTried'
  BY ArtifactStep, NativeTriedStep
<1>3. ArtifactInv /\ NativeTried /\ DriverInv /\ [Next]_vars
        => [stage = "timing" => UNCHANGED <<opaBuilds, tries>>]_vars
  BY TimingStepBuildsNothing
<1> QED
  BY <1>1, <1>2, <1>3, DriverInvariant, PTL DEF Spec, TimingBuildsNothing

-----------------------------------------------------------------------------
(* Who takes part, and what has been reported of them.                     *)

Working == {"setup", "asking", "timing", "closing", "reporting", "done"}

Roster ==
  /\ tools \in {m.tools : m \in Machines}
  /\ live \subseteq Engines
  /\ stage \in {"selecting"} \cup Working
  /\ todo \subseteq live
  /\ open \subseteq live
  /\ rows \subseteq Policies \X live
  /\ published \subseteq rows
  /\ exitCode \in {0, 1}
  /\ stage = "selecting" => rows = {} /\ open = {} /\ todo = {}

(* After the selection the engines stay the same, an engine is opened or   *)
(* gets its row only on its turn, and only the rows there are get out.     *)
Works ==
  /\ UNCHANGED <<tools, live, claim>>
  /\ stage' \in Working
  /\ todo' \subseteq live
  /\ open' \subseteq open \cup todo
  /\ rows' = rows \/ \E e \in todo : rows' = rows \cup {<<fixture, e>>}
  /\ published' \in {published, rows}
  /\ exitCode' \in {0, 1}

LEMMA WorksKeeps ==
  ASSUME Roster, Works, fixture \in Policies
  PROVE  Roster'
<1>1. rows' \subseteq Policies \X live /\ rows \subseteq rows'
  BY DEF Roster, Works
<1>2. published' \subseteq rows'
  BY <1>1 DEF Roster, Works
<1>3. stage' # "selecting"
  BY DEF Works, Working
<1> QED
  BY <1>1, <1>2, <1>3 DEF Roster, Works

LEMMA SelectionRoster ==
  ASSUME Roster, CheckEngines
  PROVE  Roster'
<1>1. PICK selected \in Selections : live' = {e \in selected : Available(e)}
  BY DEF CheckEngines
<1>2. live' \subseteq Engines
  BY <1>1, SelectionsAssumption
<1>3. /\ UNCHANGED <<tools, open, rows, published>>
      /\ stage = "selecting"
      /\ \/ stage' = "setup" /\ todo' \subseteq live' /\ exitCode' = exitCode
         \/ stage' = "done" /\ exitCode' = 1 /\ todo' = todo
  BY DEF CheckEngines
<1>4. rows = {} /\ open = {} /\ todo = {} /\ published = {} /\ exitCode' \in {0, 1}
  BY <1>3 DEF Roster
<1>5. todo' \subseteq live' /\ stage' \in Working /\ stage' # "selecting"
  BY <1>3, <1>4 DEF Working
<1> QED
  BY <1>2, <1>3, <1>4, <1>5 DEF Roster

LEMMA SetupWorks ==
  ASSUME Roster, NEW e, SetupTurn(e),
         \/ Opened(e)
         \/ SetupFailed(e)
         \/ UNCHANGED <<todo, open, exitCode>>
  PROVE  Works
<1>1. /\ UNCHANGED <<tools, live, claim, stage, rows, published>>
      /\ stage \in Working
      /\ e \in todo
  BY DEF SetupTurn, Turn, Working
<1> QED
  BY <1>1 DEF Opened, SetupFailed, TurnEnds, Roster, Works

LEMMA TimingWorks ==
  ASSUME Roster, NEW e, TimingTurn(e),
         \/ Row(e)
         \/ NoRow
         \/ UNCHANGED <<stage, rows>> /\ todo' \subseteq todo
  PROVE  Works
<1>1. /\ UNCHANGED <<tools, live, claim, open, published, exitCode>>
      /\ stage \in Working
      /\ e \in todo
  BY DEF TimingTurn, Turn, Working
<1>2. "closing" \in Working
  BY DEF Working
<1> QED
  BY <1>1, <1>2 DEF Row, NoRow, Throw, TurnEnds, Roster, Works

LEMMA RosterStep ==
  ASSUME Roster, fixture \in Policies, [Next]_vars
  PROVE  Roster'
<1>1. CASE CheckEngines
  BY <1>1, SelectionRoster
<1>2. CASE SetupZopa \/ SetupZopaCompiled \/ SetupCedar
  BY <1>2, SetupWorks, WorksKeeps DEF SetupZopa, SetupZopaCompiled, SetupCedar, SetupInstance
<1>3. CASE SetupOpaWasm \/ SetupNative
  BY <1>3, SetupWorks, WorksKeeps DEF SetupOpaWasm, SetupNative
<1>4. CASE SpawnSidecar
  BY <1>4, SetupWorks, WorksKeeps DEF SpawnSidecar
<1>5. CASE AwaitSidecar
  BY <1>5, SetupWorks, WorksKeeps DEF AwaitSidecar, PollAgain
<1>6. CASE \E e \in {"zopa", "zopa-compiled", "cedar"} : TimeInstance(e)
  BY <1>6, TimingWorks, WorksKeeps DEF TimeInstance
<1>7. CASE TimeOpaWasm
  BY <1>7, TimingWorks, WorksKeeps DEF TimeOpaWasm
<1>8. CASE TimeSidecar \/ AwaitCold \/ DecideCold
  BY <1>8, TimingWorks, WorksKeeps DEF TimeSidecar, AwaitCold, DecideCold, PollAgain
<1>9. CASE MeasureNative
  <2>1. /\ UNCHANGED <<tools, live, claim, stage, open, published>>
        /\ stage \in Working /\ "cedar-native" \in todo /\ todo' \subseteq todo
    BY <1>9 DEF MeasureNative, Turn, TurnEnds, Working
  <2>2. \/ rows' = rows \cup {<<fixture, "cedar-native">>} /\ exitCode' = exitCode
        \/ rows' = rows /\ exitCode' = 1
    BY <1>9 DEF MeasureNative
  <2> QED
    BY <2>1, <2>2, WorksKeeps DEF Works, Roster
<1>10. CASE AskEngines \/ Gate \/ TimingEnds
  <2>1. /\ UNCHANGED <<tools, live, claim, open, rows, published, exitCode>>
        /\ stage' \in Working /\ todo' \subseteq open \cup todo
    BY <1>10 DEF AskEngines, Gate, TimingEnds, Working
  <2> QED
    BY <2>1, WorksKeeps DEF Works, Roster
<1>11. CASE \E e \in Engines : Ask(e)
  <2>1. /\ UNCHANGED <<tools, live, claim, open, rows, published, exitCode>>
        /\ stage' \in Working /\ todo' \subseteq todo
    BY <1>11 DEF Ask, TurnEnds, Throw, Working
  <2> QED
    BY <2>1, WorksKeeps DEF Works, Roster
<1>12. CASE CloseAll
  <2>1. /\ UNCHANGED <<tools, live, claim, rows, published>>
        /\ open' = {} /\ stage' \in Working
        /\ exitCode' \in {exitCode, 1}
        /\ todo' \in {todo, Runnable(fixture + 1)}
    BY <1>12 DEF CloseAll, Working
  <2>2. Runnable(fixture + 1) \subseteq live
    BY DEF Runnable
  <2> QED
    BY <2>1, <2>2, WorksKeeps DEF Works, Roster
<1>13. CASE Report
  <2>1. /\ UNCHANGED <<tools, live, claim, todo, open, rows>>
        /\ stage' \in Working
        /\ published' \in {published, rows} /\ exitCode' \in {exitCode, 1}
    BY <1>13 DEF Report, Working
  <2> QED
    BY <2>1, WorksKeeps DEF Works, Roster
<1>14. CASE UNCHANGED driverVars
  BY <1>14 DEF driverVars, Roster
<1> QED
  BY <1>1, <1>2, <1>3, <1>4, <1>5, <1>6, <1>7, <1>8, <1>9, <1>10, <1>11, <1>12,
     <1>13, <1>14 DEF Next, HarnessStep, ServerStep, Over, CrateChanges, vars

-----------------------------------------------------------------------------
(* What the engines remember.                                              *)

(* A pass of waitReady is counted only while the deadline has not passed.  *)
Polled == children \in [Uses -> ChildType]

LEMMA ChildrenChange ==
  ASSUME Polled, NEW u \in Uses,
         \/ Spawn(u)
         \/ Kill({u}) \/ Kill({})
         \/ Polling(u) /\ (Healthy(u) \/ PollAgain(u))
  PROVE  Polled'
<1>0. MaxPolls \in Nat /\ 0 \in 0 .. MaxPolls
  BY MaxPollsAssumption
<1>1. CASE Spawn(u)
  <2>1. PICK s \in Servers :
          children' = [children EXCEPT ![u] = [server |-> s, polls |-> 0, ready |-> FALSE]]
    BY <1>1 DEF Spawn
  <2>2. [server |-> s, polls |-> 0, ready |-> FALSE] \in ChildType
    BY <1>0 DEF ChildType
  <2> QED
    BY <2>1, <2>2 DEF Polled
<1>2. CASE Kill({u}) \/ Kill({})
  BY <1>2 DEF Kill, Polled, ChildType
<1>3. CASE Polling(u) /\ (Healthy(u) \/ PollAgain(u))
  <2>1. children[u] \in [server : Servers, polls : 0 .. MaxPolls, ready : BOOLEAN]
    BY <1>3 DEF Polling, Polled, ChildType
  <2>2. CASE Healthy(u)
    <3>1. children' = [children EXCEPT ![u] = [children[u] EXCEPT !.ready = TRUE]]
      BY <2>2 DEF Healthy, Polled
    <3>2. [children[u] EXCEPT !.ready = TRUE] \in ChildType
      BY <2>1 DEF ChildType
    <3> QED
      BY <3>1, <3>2 DEF Polled
  <2>3. CASE PollAgain(u)
    <3> DEFINE n == children[u].polls + 1
    <3>1. n \in 0 .. MaxPolls
      BY <1>0, <2>1, <2>3 DEF PollAgain, GivesUp
    <3>2. children' = [children EXCEPT ![u] = [children[u] EXCEPT !.polls = n]]
      BY <2>3 DEF PollAgain, Polled
    <3> HIDE DEF n
    <3>3. [children[u] EXCEPT !.polls = n] \in ChildType
      BY <2>1, <3>1 DEF ChildType
    <3> QED
      BY <3>2, <3>3 DEF Polled
  <2> QED
    BY <1>3, <2>2, <2>3
<1> QED
  BY <1>1, <1>2, <1>3

LEMMA PolledStep ==
  ASSUME Polled, [Next]_vars
  PROVE  Polled'
<1>0. "instance" \in Uses /\ "cold" \in Uses
  BY DEF Uses
<1>1. CASE UNCHANGED children
  BY <1>1 DEF Polled
<1>2. CASE SpawnSidecar \/ AwaitSidecar
  BY <1>0, <1>1, <1>2, ChildrenChange DEF SpawnSidecar, AwaitSidecar
<1>3. CASE TimeSidecar \/ AwaitCold \/ DecideCold
  BY <1>0, <1>1, <1>3, ChildrenChange DEF TimeSidecar, AwaitCold, DecideCold
<1>4. CASE CloseAll
  <2>1. Kill({"instance"}) \/ Kill({})
    BY <1>4 DEF CloseAll
  <2> QED
    BY <1>0, <2>1, ChildrenChange
<1> QED
  BY <1>1, <1>2, <1>3, <1>4 DEF vars, engineVars, Next, HarnessStep, ServerStep, CrateChanges,
     Over, CheckEngines, SetupZopa, SetupZopaCompiled, SetupCedar,
     SetupInstance, SetupOpaWasm, SetupNative, TimeInstance, TimeOpaWasm,
     MeasureNative, AskEngines, Ask, Gate, TimingEnds, Report

(* What is compiled, and how often, and what is claimed of it.             *)
Made ==
  /\ opaBuilds \in Nat
  /\ tries \in Nat
  /\ native \in NativeType
  /\ claim \in Versions \cup {NoVersion}
  /\ crate \in CrateType

LEMMA MadeStep ==
  ASSUME Made, [Next]_vars
  PROVE  Made'
<1>0. crate \in CrateType
  BY DEF Made
<1>1. CASE Compile /\ UNCHANGED <<native, tries, crate, claim>>
  BY <1>1 DEF Compile, Made
<1>2. CASE NativeRows /\ UNCHANGED <<opaBuilds, claim>>
  <2>1. CASE native = Untried
    <3>1. RunHarness /\ tries' = tries + 1
      BY <1>2, <2>1 DEF NativeRows
    <3>2. crate' \in CrateType
      BY <1>0, <3>1, BuildKeeps DEF RunHarness
    <3>3. native' \in NativeType
      <4>1. ASSUME NEW reported \in SUBSET {f \in Policies : Fixtures[f].cedar},
                   crate'.binary # NoBinary
            PROVE  [result |-> "rows", reported |-> reported, cargo |-> crate.cargo,
                    measured |-> crate'.binary] \in NativeType
        BY <1>0, <3>2, <4>1 DEF NativeType, CrateType
      <4> QED
        BY <3>1, <4>1 DEF RunHarness, NativeType
    <3> QED
      BY <1>2, <3>1, <3>2, <3>3 DEF Made
  <2>2. CASE native # Untried
    BY <1>2, <2>2 DEF NativeRows, Made
  <2> QED
    BY <2>1, <2>2
<1>3. CASE SetupOpaWasm \/ TimeOpaWasm
  BY <1>1, <1>3 DEF SetupOpaWasm, TimeOpaWasm, SetupTurn, TimingTurn
<1>4. CASE SetupNative \/ MeasureNative
  BY <1>2, <1>4 DEF SetupNative, MeasureNative, SetupTurn
<1>5. CASE UNCHANGED <<opaBuilds, native, tries, crate, claim>>
  BY <1>5 DEF Made
<1>6. CASE CheckEngines
  <2>1. claim' \in {NoVersion, crate.lock} /\ UNCHANGED <<opaBuilds, native, tries, crate>>
    BY <1>6 DEF CheckEngines, VersionClaimed, engineVars
  <2> QED
    BY <1>0, <2>1 DEF Made, CrateType
<1>7. CASE CrateChanges
  <2>1. crate' \in CrateType
    BY <1>0, <1>7 DEF CrateChanges, CrateType
  <2> QED
    BY <1>7, <2>1 DEF CrateChanges, driverVars, Made
<1> QED
  BY <1>3, <1>4, <1>5, <1>6, <1>7 DEF vars, driverVars, engineVars, Next,
     HarnessStep, ServerStep, Over, SetupZopa, SetupZopaCompiled, SetupCedar,
     SetupInstance, SetupTurn, SpawnSidecar, AwaitSidecar, TimeInstance, TimingTurn,
     TimeSidecar, AwaitCold, DecideCold, AskEngines, Ask, Gate, TimingEnds,
     CloseAll, Report

LEMMA AbortedBoolean == Spec => [](aborted \in BOOLEAN)
<1>1. Init => aborted \in BOOLEAN
  BY DEF Init
<1>2. aborted \in BOOLEAN /\ [Next]_vars => (aborted \in BOOLEAN)'
  <2>1. CASE aborted' = TRUE
    BY <2>1
  <2>2. CASE UNCHANGED aborted
    BY <2>2
  <2> QED
    BY <2>1, <2>2 DEF vars, driverVars, Next, HarnessStep, ServerStep, Over, CrateChanges,
       CheckEngines, SetupZopa, SetupZopaCompiled, SetupCedar, SetupInstance,
       SetupTurn, SetupOpaWasm, SetupNative, SpawnSidecar, AwaitSidecar,
       TimeInstance, TimingTurn, TimeOpaWasm, MeasureNative, TimeSidecar,
       AwaitCold, DecideCold, AskEngines, Ask, Gate, TimingEnds, CloseAll, Report,
       Row, NoRow, Throw
<1> QED
  BY <1>1, <1>2, PTL DEF Spec

Flags == aborted \in BOOLEAN /\ disagreed \in BOOLEAN

LEMMA FlagsBoolean == Spec => []Flags
<1>1. aborted \in BOOLEAN /\ disagreed \in BOOLEAN => Flags
  BY DEF Flags
<1> QED
  BY <1>1, AbortedBoolean, GateBoolean, PTL

(* The harness holds what the code can hold: it asks only what it set up,  *)
(* times only what is live, publishes only rows it has, and never polls    *)
(* past the deadline, for any number of fixtures, servers and polls.       *)
THEOREM TypeCorrect == Spec => []TypeOK
<1>1. Init => Roster /\ Polled /\ Made /\ ArtifactInv
  <2> SUFFICES ASSUME Init PROVE Roster /\ Polled /\ Made /\ ArtifactInv
    OBVIOUS
  <2>1. Roster
    BY DEF Init, Roster
  <2>2. Polled /\ Made
    BY MachinesAssumption DEF Init, Polled, Made, ChildType, NativeType
  <2>3. ArtifactInv
    BY FixturesAssumption, FixtureCount DEF Init, ArtifactInv
  <2> QED
    BY <2>1, <2>2, <2>3
<1>2. DriverInv => fixture \in Policies
  BY FixtureCount DEF DriverInv
<1>3. Roster /\ Polled /\ Made /\ ArtifactInv /\ DriverInv /\ [Next]_vars
        => (Roster /\ Polled /\ Made /\ ArtifactInv)'
  BY <1>2, RosterStep, PolledStep, MadeStep, ArtifactStep
<1>4. Roster /\ Polled /\ Made /\ ArtifactInv /\ DriverInv /\ HeldInv /\ Flags
        => TypeOK
  <2> SUFFICES ASSUME Roster, Polled, Made, ArtifactInv, DriverInv, HeldInv,
                      Flags
               PROVE  TypeOK
    OBVIOUS
  <2>1. /\ ServersTypeOK /\ fixture \in Policies
        /\ stage \in {"asking", "timing"} => todo \subseteq open
        /\ decisions \in [Engines -> Verdicts \cup {NoAnswer}]
        /\ artifacts \in [Policies -> {NoArtifact} \cup Policies]
    BY <1>2 DEF HeldInv, DriverInv, ArtifactInv
  <2>2. /\ opaBuilds \in Nat /\ native \in NativeType /\ tries \in Nat
        /\ children \in [Uses -> ChildType]
        /\ claim \in Versions \cup {NoVersion} /\ crate \in CrateType
    BY DEF Made, Polled
  <2>3. /\ tools \in {m.tools : m \in Machines} /\ live \subseteq Engines
        /\ stage \in {"selecting", "setup", "asking", "timing", "closing", "reporting", "done"}
        /\ todo \subseteq live /\ open \subseteq live
        /\ rows \subseteq Policies \X live /\ published \subseteq rows
        /\ exitCode \in {0, 1}
    BY DEF Roster, Working
  <2> QED
    BY <2>1, <2>2, <2>3 DEF TypeOK, Flags
<1> QED
  BY <1>1, <1>3, <1>4, DriverInvariant, HeldInvariant, FlagsBoolean,
     PTL DEF Spec
=============================================================================
