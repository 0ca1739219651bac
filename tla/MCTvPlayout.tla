---------------------------- MODULE MCTvPlayout ----------------------------
(* TvPlayout on small instances: two loops, whose segments differ in length, *)
(* and two calendar releases.                                               *)
EXTENDS TvPlayout, TLC

CONSTANTS h1, h2, A, B, r1, r2

MCLoop == (A :> << [at |-> 0, dur |-> 1, first |-> TRUE],
                   [at |-> 1, dur |-> 1, first |-> FALSE] >>)
       @@ (B :> << [at |-> 0, dur |-> 2, first |-> TRUE] >>)
MCLoopLen == (A :> 2) @@ (B :> 1)
MCPeriod == (A :> 2) @@ (B :> 2)

\* r1: a programme inside the day, outranked for one tick by an offline window.
\* r2: an open-ended programme.
MCOccurrences ==
     (r1 :> {[id |-> 1, starts |-> 1, ends |-> 4, priority |-> 1,
              kind |-> "PROGRAM", schedule |-> B],
             [id |-> 2, starts |-> 2, ends |-> 3, priority |-> 2,
              kind |-> "OFFLINE", schedule |-> B]})
  @@ (r2 :> {[id |-> 3, starts |-> 2, ends |-> None, priority |-> 1,
              kind |-> "PROGRAM", schedule |-> A]})

\* What is materialized of r2 ends when the clock stops.
MCHorizon == (r1 :> None) @@ (r2 :> 3)

NoHorizon == [r \in {} |-> {}]
NoOccurrences == [r \in {} |-> {}]
Symmetry == Permutations(Holder)
=============================================================================
