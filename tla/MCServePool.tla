----------------------------- MODULE MCServePool -----------------------------
(* An instance of ServePool for TLC.  Connections are interchangeable, so they *)
(* arrive in one order only.  This is done by an action constraint because a   *)
(* symmetry set would not be sound for the liveness properties; Accept has no  *)
(* fairness that the constraint could contradict.                              *)
EXTENDS ServePool, FiniteSets, Functions

Turn == CHOOSE f \in [Conns -> 1..Cardinality(Conns)] : IsInjective(f)

ArriveInTurn ==
    \A c, d \in Conns : cur # c /\ cur' = c /\ Arriving(d) => Turn[c] <= Turn[d]
=============================================================================
