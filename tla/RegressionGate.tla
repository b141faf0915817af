---------------------------- MODULE RegressionGate ----------------------------
(***************************************************************************)
(* From the throughput windows of bench/run.mjs to the verdict of          *)
(* bench/compare.mjs: a run counts the decisions of every engine in a      *)
(* window, a baseline keeps how the counts relate, and a later run, of     *)
(* another build on another runner, passes or fails against it.  Time is   *)
(* in ticks; a cost is stored as the count it comes from, since            *)
(* amortizedMicros is the window divided by the count.                     *)
(***************************************************************************)
EXTENDS Integers

CONSTANTS
  Fixtures,
  Rivals,     \* the engines besides the reference
  Reference,  \* zopa-compiled
  Window,     \* ticks in a throughput window
  Stalls,     \* ticks the runner may take away from every window of a row
  Costs,      \* the builds: ticks per decision of each fixture and engine
  Thresholds, \* what the threshold in a baseline may be changed to
  Runners     \* how much slower than nominal a runner is

Engines == Rivals \cup {Reference}

Pairs == Fixtures \X Engines

ASSUME GateAssumption ==
  /\ Reference \notin Rivals
  /\ Window \in Nat \ {0}
  /\ Stalls \subseteq 0 .. Window
  /\ Costs \subseteq [Pairs -> Nat \ {0}]
  /\ Thresholds \subseteq [num : Nat \ {0}, den : Nat \ {0}]
  /\ Runners \subseteq Nat \ {0}

VARIABLES
  stage,
  cost,      \* the build that is measured
  run,       \* run.json, and what it was measured under
  baseline,  \* baseline.json, and the run it was seeded from
  verdict

vars == <<stage, cost, run, baseline, verdict>>

None == [made |-> FALSE]

-----------------------------------------------------------------------------
(* The loop of throughput: a decision starts while the deadline is ahead,  *)
(* so the one that overruns it is counted too.                             *)
WindowCount(ticks, stall) == (Window - stall + ticks - 1) \div ticks

(* Mutant: a bare positivity check of the cost: Infinity passes it.          *)
MutantUsable(rows, p) == p \in DOMAIN rows

(* ratios: per fixture and rival, the cost of the rival over the cost of   *)
(* the reference.  A row that counted nothing costs Infinity (null in the  *)
(* JSON) and has no ratio, nor has any row beside such a reference.        *)
Usable(rows, p) == p \in DOMAIN rows /\ rows[p] > 0

Ratios(rows) ==
  [p \in {q \in Fixtures \X Rivals :
            Usable(rows, q) /\ Usable(rows, <<q[1], Reference>>)} |->
     [num |-> rows[<<p[1], Reference>>], den |-> rows[p]]]

ReferenceRan(rows) == \E f \in Fixtures : <<f, Reference>> \in DOMAIN rows

Threshold == [num |-> 3, den |-> 2]

(* A baseline without a number for its threshold.                          *)
Unset == [num |-> 0, den |-> 0]

(* Mutant: the constant decides, whatever the baseline says.                 *)
MutantEffective(b) == Threshold

(* The stored threshold wins.                                              *)
Effective(b) == IF b.threshold = Unset THEN Threshold ELSE b.threshold

(* Mutant: the inverse ratio: fires when the reference gains.                *)
MutantLost(was, now, t) ==
  now.num * was.den * t.den > now.den * was.num * t.num

(* was / now > threshold.                                                  *)
Lost(was, now, t) ==
  was.num * now.den * t.den > was.den * now.num * t.num

Compared(ratios, current) == DOMAIN ratios \cap DOMAIN current

Verdict(b, rows) ==
  LET current == Ratios(rows) IN
  IF ~ReferenceRan(rows) \/ Compared(b.ratios, current) = {} THEN "refused"
  ELSE IF \E p \in Compared(b.ratios, current) :
            Lost(b.ratios[p], current[p], Effective(b))
       THEN "regressed"
       ELSE "passed"

-----------------------------------------------------------------------------
Init ==
  /\ stage = "measuring"
  /\ cost \in Costs
  /\ run = None
  /\ baseline = None
  /\ verdict = "none"

(* A run of some of the engines; stall is the least that the runner took   *)
(* from a window of the row, which is the window that counts.              *)
Measure ==
  /\ stage = "measuring"
  /\ \E measured \in SUBSET Pairs, slow \in Runners :
       \E stall \in [measured -> Stalls] :
         run' = [made |-> TRUE,
                 rows |-> [p \in measured |-> WindowCount(slow * cost[p], stall[p])],
                 cost |-> cost, slow |-> slow, quiet |-> \A p \in measured : stall[p] = 0]
  /\ stage' = "comparing"
  /\ UNCHANGED <<cost, baseline, verdict>>

(* Mutant: seeding checks only that the reference ran.                       *)
MutantSeedable(rows) == ReferenceRan(rows)

(* compare.mjs without a baseline.                                         *)
Seedable(rows) == ReferenceRan(rows) /\ DOMAIN Ratios(rows) # {}

Seed ==
  /\ stage = "comparing"
  /\ ~baseline.made
  /\ IF Seedable(run.rows)
     THEN /\ baseline' = [made |-> TRUE, threshold |-> Threshold,
                          ratios |-> Ratios(run.rows), from |-> run]
          /\ UNCHANGED <<stage, verdict>>
     ELSE /\ verdict' = "refused"
          /\ stage' = "done"
          /\ UNCHANGED baseline
  /\ UNCHANGED <<cost, run>>

(* A change is pushed, and measured on whatever runner CI gives it.        *)
Push ==
  /\ stage = "comparing"
  /\ baseline.made
  /\ cost' \in Costs
  /\ run' = None
  /\ stage' = "measuring"
  /\ UNCHANGED <<baseline, verdict>>

(* Whoever keeps the baseline sets another threshold in it, or none.       *)
Retune ==
  /\ stage = "comparing"
  /\ baseline.made
  /\ \E t \in Thresholds \cup {Unset} :
       baseline' = [baseline EXCEPT !.threshold = t]
  /\ UNCHANGED <<stage, cost, run, verdict>>

Compare ==
  /\ stage = "comparing"
  /\ baseline.made
  /\ verdict' = Verdict(baseline, run.rows)
  /\ stage' = "done"
  /\ UNCHANGED <<cost, run, baseline>>

Over == stage = "done" /\ UNCHANGED vars

Next == Measure \/ Seed \/ Push \/ Retune \/ Compare \/ Over

Spec == Init /\ [][Next]_vars

-----------------------------------------------------------------------------
RunType ==
  [made : {TRUE}, rows : UNION {[d -> 0 .. Window] : d \in SUBSET Pairs},
   cost : Costs, slow : Runners, quiet : BOOLEAN]

(* A count is at most one per tick, and a ratio is of two counts that are  *)
(* not zero: no Infinity and no zero gets into a baseline.                 *)
TypeOK ==
  /\ stage \in {"measuring", "comparing", "done"}
  /\ cost \in Costs
  /\ run.made => run \in RunType
  /\ baseline.made =>
       /\ baseline.from \in RunType
       /\ baseline.threshold \in Thresholds \cup {Threshold, Unset}
       /\ \A p \in DOMAIN baseline.ratios :
            baseline.ratios[p] \in [num : 1 .. Window, den : 1 .. Window]
  /\ verdict \in {"none", "refused", "regressed", "passed"}

(* A pair that both runs measured, with nothing taken from their windows   *)
(* and at least seven decisions fitting in each: real windows hold         *)
(* hundreds.                                                               *)
Enough(r, p) == r.quiet /\ p \in DOMAIN r.rows /\ 7 * r.slow * r.cost[p] <= Window

Measured(p) ==
  \A q \in {p, <<p[1], Reference>>} : Enough(baseline.from, q) /\ Enough(run, q)

(* What the reference costs relative to a rival, then and now.             *)
Then(p) == baseline.from.cost[<<p[1], Reference>>] * run.cost[p]
Now(p)  == run.cost[<<p[1], Reference>>] * baseline.from.cost[p]

Judged == stage = "done" /\ baseline.made

(* The threshold that whoever keeps the baseline asks for.                 *)
Gate == IF baseline.threshold \in Thresholds THEN baseline.threshold ELSE Threshold

(* A window counts up to an eighth too much, and a change is a quotient of *)
(* four counts: it is off by 64/49 at most.  These keep that much off the  *)
(* threshold on either side.                                               *)
WellBelow(p) == 64 * (Gate.den * Now(p)) <= 49 * (Gate.num * Then(p))

WellAbove(p) == 49 * (Gate.den * Now(p)) > 64 * (Gate.num * Then(p))

(* A slow runner scales every engine alike and the ratios hold             *)
(* (compare.mjs 8-12): whatever the speed of the two runners, the gate     *)
(* fires only when the reference lost ground in truth, and that against    *)
(* the threshold the baseline stores (compare.mjs 94-97).  With 3/2 every  *)
(* build passes that held its ground.                                      *)
NoFalseAlarm ==
  Judged /\ (\A p \in Fixtures \X Rivals : Measured(p) /\ WellBelow(p))
    => verdict = "passed"

(* A loss of ground against any one rival is caught, on whatever runner,   *)
(* and whatever else got faster.  With 3/2 that is a doubled cost.         *)
SlowdownCaught ==
  Judged /\ (\E p \in Fixtures \X Rivals : Measured(p) /\ WellAbove(p))
    => verdict = "regressed"

(* A baseline that was accepted passes against the run it came from, so a  *)
(* later failure is the later run's: no baseline without teeth is seeded   *)
(* (compare.mjs 59-63).  A threshold below one asks for a gain.            *)
BaselineAcceptsItself ==
  Judged /\ run = baseline.from /\ Gate.num >= Gate.den => verdict = "passed"
===============================================================================
