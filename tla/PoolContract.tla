----------------------------- MODULE PoolContract -----------------------------
(***************************************************************************)
(* What the serving loop promises to the relay that connects to it: a      *)
(* connection waits in a first-in-first-out line of bounded length, is     *)
(* refused only when the line is full, is worked on by one of a fixed      *)
(* number of slots, and is settled once.                                   *)
(***************************************************************************)
EXTENDS Naturals, Sequences, FiniteSets

CONSTANTS Conns, Cap, Slots

VARIABLES waiting, running, refused, over

vars == <<waiting, running, refused, over>>

Init ==
    /\ waiting = <<>>
    /\ running = {} /\ refused = {} /\ over = {}

Fresh(c) ==
    /\ \A i \in 1..Len(waiting) : waiting[i] # c
    /\ c \notin running \cup refused \cup over

Admit(c) ==
    /\ Fresh(c)
    /\ Len(waiting) < Cap
    /\ waiting' = Append(waiting, c)
    /\ UNCHANGED <<running, refused, over>>

Refuse(c) ==
    /\ Fresh(c)
    /\ Len(waiting) = Cap
    /\ refused' = refused \cup {c}
    /\ UNCHANGED <<waiting, running, over>>

Start ==
    /\ waiting # <<>>
    /\ Cardinality(running) < Slots
    /\ running' = running \cup {Head(waiting)}
    /\ waiting' = Tail(waiting)
    /\ UNCHANGED <<refused, over>>

Finish(c) ==
    /\ c \in running
    /\ running' = running \ {c}
    /\ over' = over \cup {c}
    /\ UNCHANGED <<waiting, refused>>

Next ==
    \/ Start
    \/ \E c \in Conns : Admit(c) \/ Refuse(c) \/ Finish(c)

Spec == Init /\ [][Next]_vars
=============================================================================
