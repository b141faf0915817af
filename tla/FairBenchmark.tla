---------------------------- MODULE FairBenchmark ----------------------------
(***************************************************************************)
(* What bench/run.mjs promises of every number it prints: no engine is     *)
(* timed on a fixture until every engine that takes part has been shown to *)
(* answer as zopa does, and one disagreement, on any fixture, withholds    *)
(* every timing of the run.                                                *)
(***************************************************************************)
EXTENDS Integers

CONSTANTS Engines, Subject, LastFixture

VARIABLES
  fixture,    \* the fixture being benchmarked
  answers,    \* what each engine answered on it, NoAnswer before
  timed,      \* the pairs of fixture and engine measured so far
  condemned,  \* an engine disagreed
  published   \* the rows reported

vars == <<fixture, answers, timed, condemned, published>>

NoAnswer == 2

Silent == [e \in Engines |-> NoAnswer]

(* Everyone who answered said what the subject said, and it was a decision. *)
Unanimous ==
  /\ answers[Subject] \in {0, 1}
  /\ \A e \in Engines : answers[e] \in {NoAnswer, answers[Subject]}

Init ==
  /\ fixture = 1
  /\ answers = Silent
  /\ timed = {}
  /\ condemned = FALSE
  /\ published = {}

Answer(e) ==
  /\ answers[e] = NoAnswer
  /\ ~\E d \in Engines : <<fixture, d>> \in timed
  /\ \E v \in {-1, 0, 1} : answers' = [answers EXCEPT ![e] = v]
  /\ UNCHANGED <<fixture, timed, condemned, published>>

Condemn ==
  /\ ~Unanimous
  /\ condemned' = TRUE
  /\ UNCHANGED <<fixture, answers, timed, published>>

Time(e) ==
  /\ ~condemned
  /\ Unanimous
  /\ answers[e] # NoAnswer
  /\ timed' = timed \cup {<<fixture, e>>}
  /\ UNCHANGED <<fixture, answers, condemned, published>>

(* A fixture is left settled: nobody took part, all agreed, or the run is  *)
(* condemned.                                                              *)
Settled == answers = Silent \/ Unanimous \/ condemned

NextFixture ==
  /\ fixture < LastFixture
  /\ Settled
  /\ fixture' = fixture + 1
  /\ answers' = Silent
  /\ UNCHANGED <<timed, condemned, published>>

Publish ==
  /\ fixture = LastFixture
  /\ Settled
  /\ ~condemned
  /\ published' = timed
  /\ UNCHANGED <<fixture, answers, timed, condemned>>

Next ==
  \/ \E e \in Engines : Answer(e) \/ Time(e)
  \/ Condemn
  \/ NextFixture
  \/ Publish

Spec == Init /\ [][Next]_vars
=============================================================================
