------------------------------- MODULE Sanmoku -------------------------------
(***************************************************************************)
(* Three in a row over a connection (c/network/sanmoku).  The client's     *)
(* loop takes my turn and then the peer's, the server's the peer's and     *)
(* then mine; each keeps a plane of its own.                               *)
(*                                                                         *)
(* A line that is neither a cell nor a "q" is read again, so that it leaves *)
(* no trace here.  A peer who is gone sends nothing: the ten bytes read    *)
(* leaves alone then are those the stack held.                             *)
(***************************************************************************)
EXTENDS Naturals, Sequences

CONSTANTS
    Cells,      (* "a1" to "c3"                                            *)
    Dies        (* players that may be killed                              *)

Players == {"server", "client"}
Other(p) == IF p = "server" THEN "client" ELSE "server"

ASSUME SanmokuAssumption == "q" \notin Cells /\ "else" \notin Cells /\ Dies \subseteq Players

VARIABLES
    pc,         (* whose turn it is for the player, or why he is through   *)
    plane,      (* goban_plane                                             *)
    link,       (* what he has sent that is not read                       *)
    tie         (* what his kernel knows of the other's end                *)

vars == <<pc, plane, link, tie>>

Stone(p) == IF p = "server" THEN "o" ELSE "x"
Plane == [Cells -> {".", "o", "x"}]
Data == Cells \cup {"q", "else"}
Live == {"mine", "theirs"}

Init ==
    /\ pc = [p \in Players |-> IF p = "server" THEN "theirs" ELSE "mine"]
    /\ plane = [p \in Players |-> [c \in Cells |-> "."]]
    /\ link = [p \in Players |-> <<>>]
    /\ tie = [p \in Players |-> "open"]

\* A stone of p on a plane, if d is a cell.  ("else" is a place outside.)
Marked(pl, d, p) == IF d \in Cells THEN [pl EXCEPT ![d] = Stone(p)] ELSE pl

\* The process of p is over; it has sent l, of which a reset may lose a part.
Close(p, why, l) ==
    LET q == Other(p) IN
    /\ pc' = [pc EXCEPT ![p] = why]
    /\ tie' = [tie EXCEPT ![q] = IF link[q] = <<>> THEN "shut" ELSE "reset"]
    /\ \/ link' = [r \in Players |-> IF r = p THEN l ELSE <<>>]
       \/ link[q] # <<>> /\ link' = [r \in Players |-> <<>>]

\* What p has sent once d is written, too.
Sent(p, d) == IF tie[p] = "open" THEN Append(link[p], d) ELSE link[p]

\* goban_my_turn, with a cell: the second write to a peer who is gone kills.
Move(p, d) ==
    /\ pc[p] = "mine" /\ d \in Cells
    /\ plane' = [plane EXCEPT ![p] = Marked(@, d, p)]
    /\ IF tie[p] = "reset" THEN Close(p, "killed", link[p])
       ELSE /\ pc' = [pc EXCEPT ![p] = "theirs"]
            /\ link' = [link EXCEPT ![p] = Sent(p, d)]
            /\ tie' = [tie EXCEPT ![p] = IF @ = "open" THEN @ ELSE "reset"]

\* Mistake: a quit is not written.
QuitMute(p) ==
    /\ pc[p] = "mine"
    /\ Close(p, "quit", link[p])
    /\ UNCHANGED plane

\* goban_my_turn, with "q"
Quit(p) ==
    /\ pc[p] = "mine"
    /\ Close(p, IF tie[p] = "reset" THEN "killed" ELSE "quit", Sent(p, "q"))
    /\ UNCHANGED plane

\* Mistake: my own stone is put for the peer's.
PeerTurnMine(p) ==
    LET q == Other(p) IN
    /\ pc[p] = "theirs"
    /\ link[q] # <<>> \/ tie[p] # "open"
    /\ \E d \in IF link[q] # <<>> THEN {Head(link[q])} ELSE Data :
          IF d = "q" THEN Close(p, "told", link[p]) /\ UNCHANGED plane
          ELSE /\ plane' = [plane EXCEPT ![p] = Marked(@, d, p)]
               /\ pc' = [pc EXCEPT ![p] = "mine"]
               /\ link' = IF link[q] # <<>> THEN [link EXCEPT ![q] = Tail(@)] ELSE link
               /\ UNCHANGED tie

\* goban_peer_turn
PeerTurn(p) ==
    LET q == Other(p) IN
    /\ pc[p] = "theirs"
    /\ link[q] # <<>> \/ tie[p] # "open"
    /\ \E d \in IF link[q] # <<>> THEN {Head(link[q])} ELSE Data :
          IF d = "q" THEN Close(p, "told", link[p]) /\ UNCHANGED plane
          ELSE /\ plane' = [plane EXCEPT ![p] = Marked(@, d, q)]
               /\ pc' = [pc EXCEPT ![p] = "mine"]
               /\ link' = IF link[q] # <<>> THEN [link EXCEPT ![q] = Tail(@)] ELSE link
               /\ UNCHANGED tie

Kill(p) ==
    /\ pc[p] \in Live /\ p \in Dies
    /\ Close(p, "killed", link[p])
    /\ UNCHANGED plane

Next ==
    \E p \in Players :
        \/ Quit(p) \/ PeerTurn(p) \/ Kill(p)
        \/ \E d \in Cells : Move(p, d)

Safety == Init /\ [][Next]_vars

\* read returns once there is something; the players need not play.
Fairness == \A p \in Players : WF_vars(PeerTurn(p))

Spec == Safety /\ Fairness

-----------------------------------------------------------------------------
(* Properties                                                              *)

TypeOK ==
    /\ pc \in [Players -> Live \cup {"quit", "told", "killed"}]
    /\ plane \in [Players -> Plane]
    /\ link \in [Players -> Seq(Cells \cup {"q"})]
    /\ tie \in [Players -> {"open", "shut", "reset"}]

\* The plane of p once he has read what is under way to him.
Caught(p) ==
    IF link[Other(p)] = <<>> THEN plane[p]
                             ELSE Marked(plane[p], Head(link[Other(p)]), Other(p))

\* The two planes are the same board, up to a stone that is under way, unless
\* a player was killed.
Agree ==
    (\A p \in Players : pc[p] # "killed") => Caught("server") = Caught("client")

\* A player who has to wait waits for one who has the move, or is about to
\* read the stone that gives it to him: the two never wait for each other,
\* whoever is killed.
Waits ==
    \A p \in Players :
        pc[p] = "theirs" /\ link[Other(p)] = <<>> /\ tie[p] = "open" =>
            pc[Other(p)] = "mine" \/ (pc[Other(p)] = "theirs" /\ link[p] # <<>>)

\* Never have both the move, as long as both are there: the loops of the two
\* main functions start at different ends.
OneMove ==
    ~ \A p \in Players : pc[p] = "mine" /\ tie[p] = "open"

\* When a player quits the other hears of it.
Farewell ==
    \A p \in Players : pc[p] = "quit" ~> pc[Other(p)] \notin Live

\* Together the two programs are one board (without kills): it is the plane
\* of the player who has the move, or of the one whose stone is under way.
Front == IF pc["client"] = "mine" \/ link["client"] # <<>> THEN "client" ELSE "server"
Goban == INSTANCE Board WITH
    First <- "client",
    plane <- plane[Front],
    turn <- IF \E p \in Players : pc[p] \notin Live THEN "over"
            ELSE IF pc[Front] = "mine" THEN Front ELSE Other(Front)
ImplementsBoard == Goban!Spec

=============================================================================
