------------------------- MODULE RegressionGateProofs -------------------------
(***************************************************************************)
(* The gate of bench/compare.mjs is proved sound for every window, every   *)
(* cost, every speed of the runners and every threshold a baseline may     *)
(* store: it neither fires on a slow runner nor misses a loss.  The        *)
(* invariant says how the counts of a run come from the costs; the rest is *)
(* arithmetic on products of counts.                                       *)
(***************************************************************************)
EXTENDS RegressionGate, TLAPS

(* The loop of throughput stops at the first multiple of the cost that     *)
(* reaches the deadline.                                                   *)
LEMMA CeilBounds ==
  ASSUME NEW w \in Nat, NEW t \in Nat \ {0}
  PROVE  LET n == (w + t - 1) \div t
         IN  n \in Nat /\ w <= t * n /\ t * n < w + t
  OBVIOUS

LEMMA TimesMono ==
  ASSUME NEW a \in Nat, NEW b \in Nat, NEW c \in Nat, NEW d \in Nat,
         a <= b, c <= d
  PROVE  a * c <= b * d
  OBVIOUS

LEMMA Cancel ==
  ASSUME NEW a \in Nat, NEW b \in Nat, NEW x \in Nat \ {0}, x * a <= x * b
  PROVE  a <= b
  OBVIOUS

LEMMA Regroup ==
  ASSUME NEW k \in Nat, NEW l \in Nat, NEW c \in Nat, NEW d \in Nat,
         NEW m \in Nat, NEW n \in Nat
  PROVE  ((k * c) * m) * ((l * d) * n) = ((k * l) * (c * d)) * (m * n)
  OBVIOUS

(* Two counts, of a cost c on a runner of slowness k and of d on l, fill   *)
(* at least the two windows and, when seven decisions fit in each, at most *)
(* 8/7 of either.                                                          *)
LEMMA Filled ==
  ASSUME NEW w \in Nat, NEW k \in Nat, NEW l \in Nat, NEW c \in Nat,
         NEW d \in Nat, NEW m \in Nat, NEW n \in Nat,
         w <= (k * c) * m, w <= (l * d) * n
  PROVE  w * w <= ((k * l) * (c * d)) * (m * n)
<1>1. (k * c) * m \in Nat /\ (l * d) * n \in Nat
  OBVIOUS
<1>2. w * w <= ((k * c) * m) * ((l * d) * n)
  BY <1>1, TimesMono
<1> QED
  BY <1>2, Regroup

LEMMA NotOverfilled ==
  ASSUME NEW w \in Nat, NEW k \in Nat, NEW l \in Nat, NEW c \in Nat,
         NEW d \in Nat, NEW m \in Nat, NEW n \in Nat,
         7 * ((k * c) * m) <= 8 * w, 7 * ((l * d) * n) <= 8 * w
  PROVE  49 * (((k * l) * (c * d)) * (m * n)) <= 64 * (w * w)
<1> DEFINE P == (k * c) * m
           Q == (l * d) * n
<1>1. P \in Nat /\ Q \in Nat
  OBVIOUS
<1>2. P * Q = ((k * l) * (c * d)) * (m * n)
  BY Regroup
<1> HIDE DEF P, Q
<1>3. (7 * P) * (7 * Q) <= (8 * w) * (8 * w)
  <2>1. 7 * P \in Nat /\ 7 * Q \in Nat /\ 8 * w \in Nat
    BY <1>1
  <2>2. 7 * P <= 8 * w /\ 7 * Q <= 8 * w
    BY DEF P, Q
  <2> QED
    BY <2>1, <2>2, TimesMono
<1>4. (7 * P) * (7 * Q) = 49 * (P * Q) /\ (8 * w) * (8 * w) = 64 * (w * w)
  BY <1>1
<1> QED
  BY <1>2, <1>3, <1>4

(* Products are ordered alike when a factor on either side is.             *)
LEMMA Scaled ==
  ASSUME NEW a \in Nat, NEW b \in Nat, NEW c \in Nat, a <= b
  PROVE  c * a <= c * b
  BY TimesMono

LEMMA StrictlyScaled ==
  ASSUME NEW a \in Nat, NEW b \in Nat, NEW c \in Nat \ {0}, a < b
  PROVE  c * a < c * b
<1>1. c * (a + 1) <= c * b
  BY Scaled
<1>2. c * (a + 1) = c * a + c /\ c * a \in Nat /\ c * b \in Nat
  OBVIOUS
<1> QED
  BY <1>1, <1>2

(* x and y are what the reference and the rival cost across the two runs,  *)
(* a and b the counts that stand for them, in the same ratio but for the   *)
(* overrun: what holds of x and y with 49 and 64 holds of a and b.         *)
LEMMA CountsFollowCosts ==
  ASSUME NEW w2 \in Nat, NEW x \in Nat \ {0}, NEW y \in Nat, NEW a \in Nat, NEW b \in Nat,
         NEW num \in Nat, NEW den \in Nat,
         49 * (x * a) <= 64 * w2, w2 <= y * b,
         64 * (den * y) <= 49 * (num * x)
  PROVE  a * den <= b * num
<1> DEFINE P == x * a
           Q == y * b
<1>1. P \in Nat /\ Q \in Nat
  OBVIOUS
<1>2. 49 * (den * P) <= 64 * (den * Q)
  <2>1. 49 * P <= 64 * Q
    BY <1>1
  <2> HIDE DEF P, Q
  <2>2. den * (49 * P) <= den * (64 * Q)
    BY <1>1, <2>1, Scaled
  <2> QED
    BY <1>1, <2>2
<1>3. 64 * (den * Q) <= 49 * (x * (b * num))
  <2>1. den * y \in Nat /\ num * x \in Nat
    OBVIOUS
  <2>2. b * (64 * (den * y)) <= b * (49 * (num * x))
    BY <2>1, Scaled
  <2>3. b * (64 * (den * y)) = 64 * (den * Q)
    OBVIOUS
  <2>4. b * (49 * (num * x)) = 49 * (x * (b * num))
    OBVIOUS
  <2> QED
    BY <2>2, <2>3, <2>4
<1>4. den * P = x * (a * den)
  OBVIOUS
<1> HIDE DEF P, Q
<1>5. a * den \in Nat /\ b * num \in Nat
  OBVIOUS
<1>6. den * Q \in Nat /\ x * (a * den) \in Nat /\ x * (b * num) \in Nat
  BY <1>1, <1>5
<1>7. x * (a * den) <= x * (b * num)
  BY <1>2, <1>3, <1>4, <1>6
<1> QED
  BY <1>5, <1>7, Cancel

LEMMA CountsFollowLoss ==
  ASSUME NEW w2 \in Nat, NEW x \in Nat \ {0}, NEW y \in Nat, NEW a \in Nat,
         NEW b \in Nat \ {0}, NEW num \in Nat, NEW den \in Nat,
         49 * (y * b) <= 64 * w2, w2 <= x * a,
         64 * (num * x) < 49 * (den * y)
  PROVE  b * num < a * den
<1> DEFINE P == y * b
           Q == x * a
<1>1. P \in Nat /\ Q \in Nat
  OBVIOUS
<1>2. 49 * (den * P) <= 64 * (den * Q)
  <2>1. 49 * P <= 64 * Q
    BY <1>1
  <2> HIDE DEF P, Q
  <2>2. den * (49 * P) <= den * (64 * Q)
    BY <1>1, <2>1, Scaled
  <2> QED
    BY <1>1, <2>2
<1>3. 64 * (x * (b * num)) < 49 * (den * P)
  <2>1. 64 * (num * x) \in Nat /\ 49 * (den * y) \in Nat
    OBVIOUS
  <2>2. b * (64 * (num * x)) < b * (49 * (den * y))
    BY <2>1, StrictlyScaled
  <2>3. b * (64 * (num * x)) = 64 * (x * (b * num))
    OBVIOUS
  <2>4. b * (49 * (den * y)) = 49 * (den * P)
    OBVIOUS
  <2> QED
    BY <2>2, <2>3, <2>4
<1>4. den * Q = x * (a * den)
  OBVIOUS
<1>5. a * den \in Nat /\ b * num \in Nat
  OBVIOUS
<1>6. den * P \in Nat /\ x * (a * den) \in Nat /\ x * (b * num) \in Nat
  BY <1>1, <1>5
<1> HIDE DEF P, Q
<1>7. x * (b * num) < x * (a * den)
  BY <1>2, <1>3, <1>4, <1>6
<1>8. ASSUME a * den <= b * num
      PROVE  x * (a * den) <= x * (b * num)
  BY <1>5, <1>8, Scaled
<1> QED
  BY <1>5, <1>6, <1>7, <1>8

-----------------------------------------------------------------------------
(* What was measured, and how.                                             *)
Honest(r) ==
  /\ r \in RunType
  /\ r.quiet =>
       \A p \in DOMAIN r.rows : r.rows[p] = WindowCount(r.slow * r.cost[p], 0)

GateInv ==
  /\ stage \in {"measuring", "comparing", "done"}
  /\ cost \in Costs
  /\ stage # "measuring" => Honest(run)
  /\ baseline.made =>
       /\ Honest(baseline.from)
       /\ baseline.ratios = Ratios(baseline.from.rows)
       /\ Seedable(baseline.from.rows)
       /\ baseline.threshold \in Thresholds \cup {Threshold, Unset}
  /\ Judged => verdict = Verdict(baseline, run.rows)

USE GateAssumption

LEMMA GateInit == Init => GateInv
  BY DEF Init, GateInv, None, Judged

LEMMA RunFields ==
  ASSUME NEW r \in RunType
  PROVE  /\ r.made
         /\ r.cost \in [Pairs -> Nat \ {0}]
         /\ r.slow \in Nat \ {0}
         /\ DOMAIN r.rows \in SUBSET Pairs
         /\ r.rows \in [DOMAIN r.rows -> 0 .. Window]
<1>1. r.rows \in UNION {[d -> 0 .. Window] : d \in SUBSET Pairs}
  BY DEF RunType
<1>2. PICK d \in SUBSET Pairs : r.rows \in [d -> 0 .. Window]
  BY <1>1
<1>3. DOMAIN r.rows = d
  BY <1>2
<1> QED
  BY <1>2, <1>3 DEF RunType

(* At most one decision per tick.                                          *)
LEMMA CountInWindow ==
  ASSUME NEW t \in Nat \ {0}, NEW s \in 0 .. Window
  PROVE  WindowCount(t, s) \in 0 .. Window
<1> DEFINE w == Window - s
           n == WindowCount(t, s)
<1>1. w \in Nat /\ w <= Window
  OBVIOUS
<1>2. n = (w + t - 1) \div t
  BY DEF WindowCount
<1> HIDE DEF w, n
<1>3. n \in Nat /\ t * n < w + t
  BY <1>1, <1>2, CeilBounds
<1>4. CASE n = 0
  BY <1>4 DEF n
<1>5. CASE n # 0
  <2>1. n - 1 \in Nat
    BY <1>3, <1>5
  <2>2. 1 * (n - 1) <= t * (n - 1)
    BY <2>1, TimesMono
  <2>3. t * (n - 1) = t * n - t
    BY <1>3
  <2>4. t * n \in Nat
    BY <1>3
  <2>5. n - 1 < w
    BY <1>1, <1>3, <2>1, <2>2, <2>3, <2>4
  <2>6. n \in 0 .. Window
    BY <1>1, <1>3, <2>5
  <2> QED
    BY <2>6 DEF n
<1> QED
  BY <1>4, <1>5

LEMMA MeasureKeeps ==
  ASSUME GateInv, Measure
  PROVE  GateInv'
<1>1. PICK measured \in SUBSET Pairs, slow \in Runners :
        \E stall \in [measured -> Stalls] :
          run' = [made |-> TRUE,
                  rows |-> [p \in measured |-> WindowCount(slow * cost[p], stall[p])],
                  cost |-> cost, slow |-> slow,
                  quiet |-> \A p \in measured : stall[p] = 0]
  BY DEF Measure
<1>2. PICK stall \in [measured -> Stalls] :
        run' = [made |-> TRUE,
                rows |-> [p \in measured |-> WindowCount(slow * cost[p], stall[p])],
                cost |-> cost, slow |-> slow,
                quiet |-> \A p \in measured : stall[p] = 0]
  BY <1>1
<1>3. /\ run'.cost = cost /\ run'.slow = slow
      /\ DOMAIN run'.rows = measured
      /\ \A p \in measured : run'.rows[p] = WindowCount(slow * cost[p], stall[p])
      /\ run'.quiet <=> \A p \in measured : stall[p] = 0
  BY <1>2
<1>4. cost \in Costs /\ cost \in [Pairs -> Nat \ {0}] /\ slow \in Nat \ {0}
  BY DEF GateInv
<1>5. run' \in RunType
  <2>1. \A p \in measured : WindowCount(slow * cost[p], stall[p]) \in 0 .. Window
    <3> SUFFICES ASSUME NEW p \in measured
                 PROVE  WindowCount(slow * cost[p], stall[p]) \in 0 .. Window
      OBVIOUS
    <3>1. slow * cost[p] \in Nat \ {0}
      <4>1. cost[p] \in Nat \ {0}
        BY <1>4
      <4> QED
        BY <1>4, <4>1
    <3>2. stall[p] \in 0 .. Window
      OBVIOUS
    <3> QED
      BY <3>1, <3>2, CountInWindow
  <2>2. [p \in measured |-> WindowCount(slow * cost[p], stall[p])]
          \in UNION {[d -> 0 .. Window] : d \in SUBSET Pairs}
    <3>1. [p \in measured |-> WindowCount(slow * cost[p], stall[p])]
            \in [measured -> 0 .. Window]
      BY <2>1
    <3> QED
      BY <3>1
  <2>3. (\A p \in measured : stall[p] = 0) \in BOOLEAN
    OBVIOUS
  <2> QED
    BY <1>2, <1>4, <2>2, <2>3 DEF RunType
<1>6. Honest(run')
  BY <1>3, <1>5 DEF Honest
<1> QED
  BY <1>6 DEF Measure, GateInv, Judged

LEMMA SeedKeeps ==
  ASSUME GateInv, Seed
  PROVE  GateInv'
<1>1. CASE Seedable(run.rows)
  <2>1. /\ baseline'.made /\ baseline'.from = run
        /\ baseline'.ratios = Ratios(run.rows) /\ baseline'.threshold = Threshold
        /\ UNCHANGED <<stage, verdict, cost, run>>
    BY <1>1 DEF Seed
  <2> QED
    BY <1>1, <2>1 DEF Seed, GateInv, Judged
<1>2. CASE ~Seedable(run.rows)
  BY <1>2 DEF Seed, GateInv, Judged
<1> QED
  BY <1>1, <1>2

LEMMA RetuneKeeps ==
  ASSUME GateInv, Retune
  PROVE  GateInv'
<1>1. PICK t \in Thresholds \cup {Unset} : baseline' = [baseline EXCEPT !.threshold = t]
  BY DEF Retune
<1>2. /\ baseline'.made = baseline.made /\ baseline'.from = baseline.from
      /\ baseline'.ratios = baseline.ratios
  BY <1>1
<1>3. baseline'.threshold = t \/ baseline' = baseline
  BY <1>1
<1>4. baseline'.made => baseline'.threshold \in Thresholds \cup {Threshold, Unset}
  BY <1>2, <1>3 DEF GateInv
<1> QED
  BY <1>2, <1>4 DEF Retune, GateInv, Judged

LEMMA GateStep == GateInv /\ [Next]_vars => GateInv'
<1> SUFFICES ASSUME GateInv, [Next]_vars
             PROVE  GateInv'
  OBVIOUS
<1>1. CASE Measure
  BY <1>1, MeasureKeeps
<1>2. CASE Seed
  BY <1>2, SeedKeeps
<1>3. CASE Push
  BY <1>3 DEF Push, GateInv, Judged
<1>4. CASE Compare
  BY <1>4 DEF Compare, GateInv, Judged
<1>5. CASE Retune
  BY <1>5, RetuneKeeps
<1>6. CASE Over \/ UNCHANGED vars
  BY <1>6 DEF Over, vars, GateInv, Judged
<1> QED
  BY <1>1, <1>2, <1>3, <1>4, <1>5, <1>6 DEF Next

(* Rows and ratios are what some build measured on some runner, and a      *)
(* verdict is the one compare.mjs reaches on them.                         *)
THEOREM GateInvariant == Spec => []GateInv
<1> QED
  BY GateInit, GateStep, PTL DEF Spec

-----------------------------------------------------------------------------
(* A row that was measured undisturbed, seven decisions fitting, is usable *)
(* and fills its window up to an eighth.                                   *)
LEMMA RowFills ==
  ASSUME NEW r, Honest(r), NEW p \in Pairs, Enough(r, p)
  PROVE  /\ r.cost[p] \in Nat \ {0} /\ r.slow \in Nat \ {0}
         /\ r.rows[p] \in Nat \ {0}
         /\ Usable(r.rows, p)
         /\ Window <= (r.slow * r.cost[p]) * r.rows[p]
         /\ 7 * ((r.slow * r.cost[p]) * r.rows[p]) <= 8 * Window
<1> DEFINE t == r.slow * r.cost[p]
<1>1. r.cost[p] \in Nat \ {0} /\ r.slow \in Nat \ {0}
  BY RunFields DEF Honest
<1>2. t \in Nat \ {0} /\ 7 * t <= Window
  BY <1>1 DEF Enough
<1>3. r.rows[p] = (Window + t - 1) \div t /\ p \in DOMAIN r.rows
  <2>1. r.rows[p] = WindowCount(t, 0) /\ p \in DOMAIN r.rows
    BY DEF Enough, Honest
  <2> HIDE DEF t
  <2> QED
    BY <2>1, <1>2 DEF WindowCount
<1> HIDE DEF t
<1>4. r.rows[p] \in Nat /\ Window <= t * r.rows[p] /\ t * r.rows[p] < Window + t
  BY <1>2, <1>3, CeilBounds
<1>5. r.rows[p] # 0
  BY <1>2, <1>4
<1>6. 7 * (t * r.rows[p]) <= 8 * Window
  <2>1. t * r.rows[p] \in Nat
    BY <1>2, <1>4
  <2> QED
    BY <1>2, <1>4, <2>1
<1> QED
  BY <1>1, <1>3, <1>4, <1>5, <1>6 DEF t, Usable

(* The comparison of one pair, of which both runs are good.                *)
LEMMA PairCompared ==
  ASSUME GateInv, Judged, NEW p \in Fixtures \X Rivals, Measured(p)
  PROVE  /\ ReferenceRan(run.rows)
         /\ p \in Compared(baseline.ratios, Ratios(run.rows))
         /\ baseline.ratios[p] = [num |-> baseline.from.rows[<<p[1], Reference>>],
                                  den |-> baseline.from.rows[p]]
         /\ Ratios(run.rows)[p] = [num |-> run.rows[<<p[1], Reference>>],
                                   den |-> run.rows[p]]
<1> DEFINE q == <<p[1], Reference>>
<1>1. p \in Pairs /\ q \in Pairs
  BY DEF Pairs, Engines
<1>2. /\ Enough(baseline.from, p) /\ Enough(run, p)
      /\ Enough(baseline.from, q) /\ Enough(run, q)
  BY DEF Measured
<1>3. Honest(run) /\ Honest(baseline.from)
  BY DEF GateInv, Judged
<1>4. /\ Usable(baseline.from.rows, p) /\ Usable(run.rows, p)
      /\ Usable(baseline.from.rows, q) /\ Usable(run.rows, q)
  BY <1>1, <1>2, <1>3, RowFills
<1>5. ReferenceRan(run.rows)
  BY <1>4 DEF ReferenceRan, Usable
<1>6. p \in DOMAIN Ratios(run.rows) /\ p \in DOMAIN Ratios(baseline.from.rows)
  BY <1>4 DEF Ratios
<1>7. baseline.ratios = Ratios(baseline.from.rows)
  BY DEF GateInv, Judged
<1> QED
  BY <1>4, <1>5, <1>6, <1>7 DEF Ratios, Compared

(* The threshold that decides is the one asked for, a positive fraction.   *)
LEMMA GateIsFraction ==
  ASSUME GateInv, Judged
  PROVE  /\ Effective(baseline) = Gate
         /\ Gate \in [num : Nat \ {0}, den : Nat \ {0}]
<1>1. baseline.threshold \in Thresholds \cup {Threshold, Unset}
  BY DEF GateInv, Judged
<1>2. Unset \notin Thresholds /\ Unset # Threshold
  BY DEF Unset, Threshold
<1>3. Threshold \in [num : Nat \ {0}, den : Nat \ {0}]
  BY DEF Threshold
<1> QED
  BY <1>1, <1>2, <1>3 DEF Gate, Effective

(* What the counts of the pair say about its costs, in both directions.    *)
LEMMA PairCounts ==
  ASSUME GateInv, Judged, NEW p \in Fixtures \X Rivals, Measured(p)
  PROVE  \E x \in Nat \ {0}, y \in Nat \ {0}, a \in Nat \ {0}, b \in Nat \ {0} :
           /\ Lost(baseline.ratios[p], Ratios(run.rows)[p], Gate) <=> a * Gate.den > b * Gate.num
           /\ 49 * (x * a) <= 64 * (Window * Window)
           /\ 49 * (y * b) <= 64 * (Window * Window)
           /\ Window * Window <= x * a
           /\ Window * Window <= y * b
           /\ WellBelow(p) => 64 * (Gate.den * y) <= 49 * (Gate.num * x)
           /\ WellAbove(p) => 64 * (Gate.num * x) < 49 * (Gate.den * y)
<1> DEFINE q  == <<p[1], Reference>>
           k  == baseline.from.slow
           l  == run.slow
           c  == baseline.from.cost[q]
           d  == run.cost[p]
           e  == baseline.from.cost[p]
           f  == run.cost[q]
           nc == baseline.from.rows[q]
           nd == run.rows[p]
           ne == baseline.from.rows[p]
           nf == run.rows[q]
<1>1. p \in Pairs /\ q \in Pairs
  BY DEF Pairs, Engines
<1>2. /\ Enough(baseline.from, p) /\ Enough(run, p)
      /\ Enough(baseline.from, q) /\ Enough(run, q)
  BY DEF Measured
<1>3. Honest(run) /\ Honest(baseline.from)
  BY DEF GateInv, Judged
<1>4. /\ k \in Nat \ {0} /\ l \in Nat \ {0}
      /\ c \in Nat \ {0} /\ d \in Nat \ {0} /\ e \in Nat \ {0} /\ f \in Nat \ {0}
      /\ nc \in Nat \ {0} /\ nd \in Nat \ {0} /\ ne \in Nat \ {0} /\ nf \in Nat \ {0}
  BY <1>1, <1>2, <1>3, RowFills
<1>5. /\ Window <= (k * c) * nc /\ 7 * ((k * c) * nc) <= 8 * Window
      /\ Window <= (l * d) * nd /\ 7 * ((l * d) * nd) <= 8 * Window
      /\ Window <= (k * e) * ne /\ 7 * ((k * e) * ne) <= 8 * Window
      /\ Window <= (l * f) * nf /\ 7 * ((l * f) * nf) <= 8 * Window
  BY <1>1, <1>2, <1>3, RowFills
<1>6. Lost(baseline.ratios[p], Ratios(run.rows)[p], Gate)
        <=> nc * nd * Gate.den > ne * nf * Gate.num
  <2>1. /\ baseline.ratios[p] = [num |-> nc, den |-> ne]
        /\ Ratios(run.rows)[p] = [num |-> nf, den |-> nd]
    BY PairCompared
  <2> HIDE DEF q, nc, nd, ne, nf
  <2> QED
    BY <2>1 DEF Lost
<1>7. Then(p) = c * d /\ Now(p) = f * e
  BY DEF Then, Now
<1> HIDE DEF q, k, l, c, d, e, f, nc, nd, ne, nf
<1> DEFINE x == (k * l) * (c * d)
           y == (k * l) * (e * f)
           a == nc * nd
           b == ne * nf
<1>8. x \in Nat \ {0} /\ y \in Nat \ {0} /\ a \in Nat \ {0} /\ b \in Nat \ {0}
  BY <1>4
<1>9. 49 * (x * a) <= 64 * (Window * Window) /\ Window * Window <= x * a
  BY <1>4, <1>5, Filled, NotOverfilled
<1>10. 49 * (y * b) <= 64 * (Window * Window) /\ Window * Window <= y * b
  BY <1>4, <1>5, Filled, NotOverfilled
<1>11. /\ WellBelow(p) => 64 * (Gate.den * y) <= 49 * (Gate.num * x)
       /\ WellAbove(p) => 64 * (Gate.num * x) < 49 * (Gate.den * y)
  <2> DEFINE s   == k * l
             now == e * f
             was == c * d
             num == Gate.num
             den == Gate.den
  <2>1. s \in Nat /\ now \in Nat /\ was \in Nat /\ num \in Nat /\ den \in Nat
    BY <1>4, GateIsFraction
  <2>2. Now(p) = now /\ Then(p) = was /\ x = s * was /\ y = s * now
    BY <1>4, <1>7
  <2> HIDE DEF s, now, was, num, den, x, y
  <2>3. /\ 64 * (den * y) = s * (64 * (den * now)) /\ 49 * (num * x) = s * (49 * (num * was))
        /\ 64 * (num * x) = s * (64 * (num * was)) /\ 49 * (den * y) = s * (49 * (den * now))
    BY <2>1, <2>2
  <2>4. /\ 64 * (den * now) \in Nat /\ 49 * (num * was) \in Nat
        /\ 64 * (num * was) \in Nat /\ 49 * (den * now) \in Nat
    BY <2>1
  <2>5. ASSUME WellBelow(p)
        PROVE  64 * (den * y) <= 49 * (num * x)
    <3>1. 64 * (den * now) <= 49 * (num * was)
      BY <2>2, <2>5 DEF WellBelow, num, den
    <3> QED
      BY <2>1, <2>3, <2>4, <3>1, Scaled
  <2>6. ASSUME WellAbove(p)
        PROVE  64 * (num * x) < 49 * (den * y)
    <3>1. 64 * (num * was) < 49 * (den * now)
      BY <2>2, <2>4, <2>6 DEF WellAbove, num, den
    <3>2. s \in Nat \ {0}
      BY <1>4 DEF s
    <3> QED
      BY <2>3, <2>4, <3>1, <3>2, StrictlyScaled
  <2> QED
    BY <2>5, <2>6 DEF num, den
<1>12. Lost(baseline.ratios[p], Ratios(run.rows)[p], Gate) <=> a * Gate.den > b * Gate.num
  BY <1>6
<1> HIDE DEF x, y, a, b
<1> QED
  BY <1>8, <1>9, <1>10, <1>11, <1>12

(* No pair whose reference stayed well below the threshold is reported.    *)
LEMMA HeldGround ==
  ASSUME GateInv, Judged, NEW p \in Fixtures \X Rivals, Measured(p), WellBelow(p)
  PROVE  ~Lost(baseline.ratios[p], Ratios(run.rows)[p], Gate)
<1>1. PICK x \in Nat \ {0}, y \in Nat \ {0}, a \in Nat \ {0}, b \in Nat \ {0} :
        /\ Lost(baseline.ratios[p], Ratios(run.rows)[p], Gate) <=> a * Gate.den > b * Gate.num
        /\ 49 * (x * a) <= 64 * (Window * Window)
        /\ Window * Window <= y * b
        /\ 64 * (Gate.den * y) <= 49 * (Gate.num * x)
  BY PairCounts
<1>2. Window * Window \in Nat /\ Gate.num \in Nat /\ Gate.den \in Nat
  BY GateIsFraction
<1>3. a * Gate.den <= b * Gate.num
  <2> DEFINE w2  == Window * Window
             num == Gate.num
             den == Gate.den
  <2>1. /\ 49 * (x * a) <= 64 * w2 /\ w2 <= y * b
        /\ 64 * (den * y) <= 49 * (num * x)
    BY <1>1
  <2>2. w2 \in Nat /\ num \in Nat /\ den \in Nat /\ y \in Nat /\ a \in Nat /\ b \in Nat
    BY <1>2
  <2> HIDE DEF w2, num, den
  <2>3. a * den <= b * num
    BY <2>1, <2>2, CountsFollowCosts
  <2> QED
    BY <2>3 DEF num, den
<1>4. a * Gate.den \in Nat /\ b * Gate.num \in Nat
  BY <1>2
<1> QED
  BY <1>1, <1>3, <1>4

(* A pair whose reference lost well above the threshold is reported.       *)
LEMMA LostGround ==
  ASSUME GateInv, Judged, NEW p \in Fixtures \X Rivals, Measured(p), WellAbove(p)
  PROVE  Lost(baseline.ratios[p], Ratios(run.rows)[p], Gate)
<1>1. PICK x \in Nat \ {0}, y \in Nat \ {0}, a \in Nat \ {0}, b \in Nat \ {0} :
        /\ Lost(baseline.ratios[p], Ratios(run.rows)[p], Gate) <=> a * Gate.den > b * Gate.num
        /\ 49 * (y * b) <= 64 * (Window * Window)
        /\ Window * Window <= x * a
        /\ 64 * (Gate.num * x) < 49 * (Gate.den * y)
  BY PairCounts
<1>2. Window * Window \in Nat /\ Gate.num \in Nat /\ Gate.den \in Nat
  BY GateIsFraction
<1>3. b * Gate.num < a * Gate.den
  BY <1>1, <1>2, CountsFollowLoss
<1>4. a * Gate.den \in Nat /\ b * Gate.num \in Nat
  BY <1>2
<1> QED
  BY <1>1, <1>3, <1>4

-----------------------------------------------------------------------------
(* Whatever the speed of two runners, the gate passes a build whose        *)
(* reference stayed well below the stored threshold against every rival.   *)
THEOREM SlowRunnerPasses == Spec => []NoFalseAlarm
<1>1. GateInv => NoFalseAlarm
  <2> SUFFICES ASSUME GateInv, Judged,
                      \A p \in Fixtures \X Rivals : Measured(p) /\ WellBelow(p)
               PROVE  verdict = "passed"
    BY DEF NoFalseAlarm
  <2>1. PICK p \in Fixtures \X Rivals : TRUE
    BY DEF GateInv, Judged, Seedable, Ratios
  <2>2. /\ ReferenceRan(run.rows)
        /\ Compared(baseline.ratios, Ratios(run.rows)) # {}
    BY <2>1, PairCompared
  <2>3. ASSUME NEW r \in Compared(baseline.ratios, Ratios(run.rows))
        PROVE  ~Lost(baseline.ratios[r], Ratios(run.rows)[r], Effective(baseline))
    <3>1. r \in Fixtures \X Rivals
      BY DEF Compared, Ratios
    <3> QED
      BY <3>1, HeldGround, GateIsFraction
  <2>4. verdict = Verdict(baseline, run.rows)
    BY DEF GateInv
  <2> QED
    BY <2>2, <2>3, <2>4 DEF Verdict
<1> QED
  BY <1>1, GateInvariant, PTL

(* A loss well above the stored threshold against one rival fails the      *)
(* gate, whatever the runners and whatever the other pairs say.            *)
THEOREM LossCaught == Spec => []SlowdownCaught
<1>1. GateInv => SlowdownCaught
  <2> SUFFICES ASSUME GateInv, Judged, NEW p \in Fixtures \X Rivals,
                      Measured(p), WellAbove(p)
               PROVE  verdict = "regressed"
    BY DEF SlowdownCaught
  <2>1. /\ ReferenceRan(run.rows)
        /\ p \in Compared(baseline.ratios, Ratios(run.rows))
    BY PairCompared
  <2>2. Lost(baseline.ratios[p], Ratios(run.rows)[p], Effective(baseline))
    BY LostGround, GateIsFraction
  <2>3. verdict = Verdict(baseline, run.rows)
    BY DEF GateInv
  <2> QED
    BY <2>1, <2>2, <2>3 DEF Verdict
<1> QED
  BY <1>1, GateInvariant, PTL

(* A baseline that was seeded passes against the run it came from, under   *)
(* every threshold that does not ask for a gain.                           *)
THEOREM SeedPassesItself == Spec => []BaselineAcceptsItself
<1>1. GateInv => BaselineAcceptsItself
  <2> SUFFICES ASSUME GateInv, Judged, run = baseline.from, Gate.num >= Gate.den
               PROVE  verdict = "passed"
    BY DEF BaselineAcceptsItself
  <2> DEFINE ratios == Ratios(run.rows)
             num == Gate.num
             den == Gate.den
  <2>1. baseline.ratios = ratios /\ Seedable(run.rows) /\ run \in RunType
    BY DEF GateInv, Judged, Honest
  <2>2. ReferenceRan(run.rows) /\ Compared(ratios, ratios) # {}
    BY <2>1 DEF Seedable, Compared
  <2>3. num \in Nat /\ den \in Nat /\ den <= num
    BY GateIsFraction
  <2>4. ASSUME NEW p \in DOMAIN ratios
        PROVE  ~Lost(ratios[p], ratios[p], Gate)
    <3>1. ratios[p].num \in Nat /\ ratios[p].den \in Nat
      BY <2>1, RunFields DEF Ratios, Usable
    <3> HIDE DEF ratios
    <3> DEFINE product == ratios[p].num * ratios[p].den
    <3>2. product \in Nat /\ ratios[p].den * ratios[p].num = product
      BY <3>1
    <3> HIDE DEF product, num, den
    <3>3. product * den <= product * num
      BY <2>3, <3>2, Scaled
    <3>4. product * den \in Nat /\ product * num \in Nat
      BY <2>3, <3>2
    <3> QED
      BY <3>2, <3>3, <3>4 DEF Lost, product, num, den
  <2>5. verdict = Verdict(baseline, run.rows)
    BY <2>1 DEF GateInv
  <2> QED
    BY <2>1, <2>2, <2>4, <2>5, GateIsFraction DEF Verdict, Compared
<1> QED
  BY <1>1, GateInvariant, PTL

(* Counts stay within the window, and no count of zero gets into a ratio   *)
(* of a baseline.                                                          *)
THEOREM TypeCorrect == Spec => []TypeOK
<1> DEFINE Ready == stage = "measuring" => ~run.made
           Decided == verdict \in {"none", "refused", "regressed", "passed"}
<1>1. Init => Ready /\ Decided
  BY DEF Init, None
<1>2. GateInv /\ Ready /\ Decided /\ [Next]_vars => (Ready /\ Decided)'
  BY DEF Next, vars, Measure, Seed, Push, Retune, Compare, Over, Verdict, None
<1>3. GateInv /\ Ready /\ Decided => TypeOK
  <2> SUFFICES ASSUME GateInv, Ready, Decided
               PROVE  TypeOK
    OBVIOUS
  <2>1. baseline.made => \A p \in DOMAIN baseline.ratios :
          baseline.ratios[p] \in [num : 1 .. Window, den : 1 .. Window]
    <3> SUFFICES ASSUME baseline.made, NEW p \in DOMAIN baseline.ratios
                 PROVE  baseline.ratios[p] \in [num : 1 .. Window, den : 1 .. Window]
      OBVIOUS
    <3>1. baseline.ratios = Ratios(baseline.from.rows) /\ baseline.from \in RunType
      BY DEF GateInv, Honest
    <3> QED
      BY <3>1, RunFields DEF Ratios, Usable
  <2> QED
    BY <2>1 DEF TypeOK, GateInv, Honest
<1> QED
  BY <1>1, <1>2, <1>3, GateInvariant, PTL DEF Spec
=============================================================================
