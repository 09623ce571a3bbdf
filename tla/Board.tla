-------------------------------- MODULE Board --------------------------------
(***************************************************************************)
(* What the two programs of c/network/sanmoku promise together: one board, *)
(* on which the client and the server put their stones in turn until one   *)
(* of them quits.  Nothing keeps a player off a cell that is taken, and    *)
(* nobody wins: the players see to that.                                   *)
(***************************************************************************)
CONSTANTS Cells, Players, First
VARIABLES plane, turn

Stones == {"o", "x"}
Stone(p) == IF p = First THEN "x" ELSE "o"

Init == plane = [c \in Cells |-> "."] /\ turn = First

Put(p) ==
    /\ turn = p
    /\ \E c \in Cells : plane' = [plane EXCEPT ![c] = Stone(p)]
    /\ turn' \in Players \ {p}

Quit == turn \in Players /\ turn' = "over" /\ plane' = plane

Next == Quit \/ \E p \in Players : Put(p)

Spec == Init /\ [][Next]_<<plane, turn>>
=============================================================================
