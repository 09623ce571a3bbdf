------------------------------- MODULE Podium -------------------------------
(***************************************************************************)
(* What the race promises its players: everybody is placed exactly once,   *)
(* those who reach the goal from the top in the order in which they arrive *)
(* and those who crash from the bottom, and the table is published when    *)
(* everybody has been placed, and never changes again.                     *)
(***************************************************************************)
EXTENDS Integers, Sequences

CONSTANT Racers

VARIABLES
    goal,         (* who reached the goal, first to last                   *)
    crash,        (* who crashed, first to last                            *)
    published

Placed == {goal[k] : k \in DOMAIN goal} \cup {crash[k] : k \in DOMAIN crash}

Init == goal = <<>> /\ crash = <<>> /\ published = FALSE

Arrive(i) ==
    /\ ~published /\ i \notin Placed
    /\ goal' = Append(goal, i)
    /\ UNCHANGED <<crash, published>>

Drop(i) ==
    /\ ~published /\ i \notin Placed
    /\ crash' = Append(crash, i)
    /\ UNCHANGED <<goal, published>>

Publish ==
    /\ ~published /\ Placed = Racers
    /\ published' = TRUE
    /\ UNCHANGED <<goal, crash>>

Next == (\E i \in Racers : Arrive(i) \/ Drop(i)) \/ Publish

Spec == Init /\ [][Next]_<<goal, crash, published>>
=============================================================================
