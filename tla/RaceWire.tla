------------------------------ MODULE RaceWire ------------------------------
(***************************************************************************)
(* What the race server (c/network/race/sessionman.c) and its clients      *)
(* (c/network/race/session.c) share: the record that stands for a player,  *)
(* and one TCP connection per player.                                      *)
(*                                                                         *)
(* A record keeps the two fields that the server looks at, STAGE and       *)
(* DAMAGE; where on the stage the player stands is the subject of          *)
(* RaceTrack.  A connection is a pair of streams.  Every write of the two  *)
(* programs is far smaller than a segment and is delivered whole, but TCP  *)
(* keeps no message boundaries: a read whose buffer is larger than the     *)
(* first message may also take the ones behind it (see RaceClient).        *)
(***************************************************************************)
EXTENDS Integers, Sequences

CONSTANTS
    Num,          (* players, argv[1] of the server                        *)
    Final,        (* stages, argv[2] of the server                         *)
    MaxPlayers,   (* slots of the grade table                              *)
    MaxDamage     (* the damage that takes a player out of the race        *)

ASSUME RaceAssumption ==
    /\ Num \in Nat \ {0}
    /\ Final \in Nat \ {0}
    /\ MaxPlayers \in Nat /\ Num <= MaxPlayers
    /\ MaxDamage \in Nat \ {0}

VARIABLES
    up,           (* up[i]: sent by player i, not yet read by the server   *)
    down,         (* down[i]: sent to player i, not yet read by its client *)
    left          (* the players whose process has gone and closed its end *)

wire == <<up, down, left>>

Players == 0 .. Num - 1
Slots == 0 .. MaxPlayers - 1

Record == [stage : 0 .. Final + 1, damage : 0 .. MaxDamage]

\* The static arrays of the server start out as zero bytes.
ZeroRecord == [stage |-> 0, damage |-> 0]
\* What init_data puts in every client's arrays.
StartRecord == [stage |-> 1, damage |-> 0]

ReachedGoal(r) == r.stage > Final
Crashed(r) == r.damage >= MaxDamage
Over(r) == ReachedGoal(r) \/ Crashed(r)

\* A slot of the grade table that no player has been written to.
Nobody == -1
Table == [Slots -> Players \cup {Nobody}]
Board == [Players -> Record]

UpMsg == [kind : {"name"}] \cup [kind : {"move"}, rec : Record]
DownMsg == [kind : {"prompt", "entry", "params"}]
           \cup [kind : {"board"}, p : Board]
           \cup [kind : {"grades"}, g : Table]

WireTypeOK ==
    /\ up \in [Players -> Seq(UpMsg)]
    /\ down \in [Players -> Seq(DownMsg)]
    /\ left \subseteq Players

WireInit ==
    /\ up = [i \in Players |-> <<>>]
    /\ down = [i \in Players |-> <<>>]
    /\ left = {}

\* select() and read() see a connection as readable when bytes are queued and
\* when the peer has closed its end; in the second case read() returns 0.
Readable(i) == up[i] # <<>> \/ i \in left

\* Bytes written to a peer that has gone are discarded.
Written(i, m) == IF i \in left THEN down ELSE [down EXCEPT ![i] = Append(@, m)]
=============================================================================
