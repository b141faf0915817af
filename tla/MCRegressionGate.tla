--------------------------- MODULE MCRegressionGate ---------------------------
(* Two fixtures, the reference and one rival; the second fixture keeps its *)
(* costs, the first has every combination.                                 *)
EXTENDS RegressionGate

MCFixtures == {"static", "rbac"}

MCRivals == {"opa-wasm"}

MCWindow == 28

MCStalls == {0, 28}

MCCosts ==
  {[p \in Pairs |-> IF p[1] = "rbac" THEN 2
                    ELSE IF p[2] = Reference THEN c ELSE d] :
     c \in {1, 2, 3}, d \in {1, 2}}

(* Twice the default, and one that every loss is too much for.             *)
MCThresholds == {[num |-> 3, den |-> 1], [num |-> 1, den |-> 1]}

MCRunners == {1, 2}

(* The loop itself: count the decisions from tick now on.                  *)
LoopCount(ticks, stall) ==
  LET From[now \in Nat] ==
        IF now < Window THEN 1 + From[now + ticks] ELSE 0
  IN From[stall]

(* It ends after the number of decisions that WindowCount gives.           *)
ASSUME LoopAssumption ==
  \A ticks \in 1 .. Window + 1, stall \in 0 .. Window :
    LoopCount(ticks, stall) = WindowCount(ticks, stall)
===============================================================================
