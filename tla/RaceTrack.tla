----------------------------- MODULE RaceTrack ------------------------------
(***************************************************************************)
(* The player on the track: get_my_location, check, new_stage,             *)
(* del_all_locations, recv_all_data and show_all_locations                 *)
(* (c/network/race/session.c).                                             *)
(*                                                                         *)
(* A client has no map but the curses window: new_stage draws the walls of *)
(* a stage there, check looks for a wall by reading the character back,    *)
(* and the digits that stand for the players are drawn and rubbed out in   *)
(* the same window.  walls[i] is the set of cells where client i's window  *)
(* shows a wall.  The server of RaceServer is reduced to what it does to   *)
(* the records.                                                            *)
(***************************************************************************)
EXTENDS Integers

CONSTANTS
    MaxDamage,
    Width,        (* STAGE_WIDTH                                           *)
    Length,       (* STAGE_LENGTH                                          *)
    Races         (* the races that are run: players, stages, and walls[z],*)
                  (* the cells that file data/data<z> marks                *)

Cells == (1 .. Width) \X (1 .. Length)

ASSUME TrackAssumption ==
    /\ MaxDamage \in Nat \ {0} /\ Width \in Nat /\ Length \in Nat \ {0}
    /\ \A race \in Races :
          /\ race.num \in Nat \ {0} /\ race.final \in Nat \ {0}
          /\ race.num + 1 <= Width
          /\ race.walls \in [1 .. race.final -> SUBSET Cells]

VARIABLES
    race,         (* what the server was started with, and the files       *)
    at,           (* at[i]: "key", "sent", "board" or "over"               *)
    temp,         (* temp[i]: the player's own record                      *)
    view,         (* view[i]: the client's copy of the board               *)
    walls,        (* walls[i]: the walls on the client's window            *)
    p,            (* the server's records                                  *)
    board         (* board[i]: the board on its way to the client, and     *)
                  (* StartBoard when there is none                         *)

vars == <<race, at, temp, view, walls, p, board>>

Num == race.num
Final == race.final
Walls == race.walls
Players == 0 .. Num - 1

\* The goal is stage Final + 1; row Length + 1 is where a stage is entered.
Position == [stage : 1 .. Final + 1, x : 1 .. Width, y : 1 .. Length + 1,
             damage : 0 .. MaxDamage]
ZeroPosition == [stage |-> 0, x |-> 0, y |-> 0, damage |-> 0]
StartPosition(i) == [stage |-> 1, x |-> 2 + i, y |-> Length, damage |-> 0]

Over(r) == r.stage > Final \/ r.damage >= MaxDamage

\* The cells that drawing or rubbing out the players of a stage overwrites.
Touched(b, stage) ==
    {<<b[j].x, b[j].y>> : j \in {k \in Players : b[k].stage = stage}}

StartBoard == [j \in Players |-> StartPosition(j)]

Init ==
    /\ race \in Races
    /\ at = [i \in Players |-> "key"]
    /\ temp = StartBoard
    /\ view = [i \in Players |-> StartBoard]
    /\ walls = [i \in Players |-> Walls[1] \ Touched(StartBoard, 1)]
    /\ p = [i \in Players |-> ZeroPosition]
    /\ board = [i \in Players |-> StartBoard]

\* Mistake: walls are not looked at.
FreeEverywhere(i, x, y) == x \in 1 .. Width /\ y \in 1 .. Length + 1

\* check: may the player go to column x, row y?  The row below the stage is
\* free, and outside it no character is looked at.
Free(i, x, y) ==
    /\ x \in 1 .. Width /\ y \in 1 .. Length + 1
    /\ <<x, y>> \notin walls[i]

\* The record of a player who has gone a step, of one who has met a wall or
\* the edge, and of one who enters stage z.
Gone(r, dx, dy) ==
    [stage |-> r.stage, x |-> r.x + dx, y |-> r.y + dy, damage |-> r.damage]
Hurt(r) ==
    [stage |-> r.stage, x |-> r.x, y |-> r.y, damage |-> r.damage + 1]
Entered(r, z) ==
    [stage |-> z, x |-> r.x, y |-> Length + 1, damage |-> r.damage]

\* A step that check allows, or one more damage.
Moved(i, dx, dy) ==
    LET r == temp[i] IN
    IF Free(i, r.x + dx, r.y + dy)
    THEN Gone(r, dx, dy)
    ELSE Hurt(r)

Send(i, r) ==
    /\ temp' = [temp EXCEPT ![i] = r]
    /\ at' = [at EXCEPT ![i] = "sent"]
    /\ UNCHANGED <<race, view, p, board>>

\* h, j, l, and k below the top row.
Step(i) ==
    /\ at[i] = "key"
    /\ \E d \in {<<-1, 0>>, <<0, 1>>, <<1, 0>>, <<0, -1>>} :
          /\ d = <<0, -1>> => temp[i].y # 1
          /\ Send(i, Moved(i, d[1], d[2]))
    /\ UNCHANGED walls

\* Mistake: the next stage is entered without drawing it.
NextStageUndrawn(i) ==
    /\ at[i] = "key" /\ temp[i].y = 1
    /\ Send(i, Entered(temp[i], temp[i].stage + 1))
    /\ UNCHANGED walls

\* k on the top row: the next stage, which new_stage draws unless there is none.
NextStage(i) ==
    /\ at[i] = "key" /\ temp[i].y = 1
    /\ LET z == temp[i].stage + 1 IN
       /\ Send(i, Entered(temp[i], z))
       /\ walls' = IF z > Final THEN walls ELSE [walls EXCEPT ![i] = Walls[z]]

\* Any other key.
Idle(i) == at[i] = "key" /\ Send(i, temp[i]) /\ UNCHANGED walls

\* One turn of sessionman_loop: the server reads from some of the clients that
\* have sent, and answers them with the board.
Serve ==
    \E S \in SUBSET {i \in Players : at[i] = "sent"} :
        /\ S # {}
        /\ p' = [i \in Players |-> IF i \in S THEN temp[i] ELSE p[i]]
        /\ board' = [i \in Players |-> IF i \in S THEN p' ELSE board[i]]
        /\ at' = [i \in Players |-> IF i \in S THEN "board" ELSE at[i]]
        /\ UNCHANGED <<race, temp, view, walls>>

\* The flag that get_my_location has returned, and session_loop looks at when
\* the board has come; and the mistake of not looking at it.
AfterAlways(i) == "key"
After(i) == IF Over(temp[i]) THEN "over" ELSE "key"

\* del_all_locations, recv_all_data, show_all_locations, and the test of
\* session_loop.  What is rubbed out are the players of the stage on which the
\* last board showed this one, although new_stage may have drawn another since.
Refresh(i) ==
    /\ at[i] = "board"
    /\ view' = [view EXCEPT ![i] = board[i]]
    /\ walls' = [walls EXCEPT ![i] =
                    @ \ (Touched(view[i], view[i][i].stage)
                         \cup Touched(board[i], board[i][i].stage))]
    /\ board' = [board EXCEPT ![i] = StartBoard]
    /\ at' = [at EXCEPT ![i] = After(i)]
    /\ UNCHANGED <<race, temp, p>>

Next ==
    \/ \E i \in Players : Step(i) \/ NextStage(i) \/ Idle(i) \/ Refresh(i)
    \/ Serve

Spec == Init /\ [][Next]_vars

-----------------------------------------------------------------------------
\* No key takes a player off the track: his column and row stay on the window,
\* although nothing but check stands between temp and a char that wraps.
AnyBoard == [Players -> Position \cup {ZeroPosition}]
TypeOK ==
    /\ race \in Races
    /\ at \in [Players -> {"key", "sent", "board", "over"}]
    /\ temp \in [Players -> Position]
    /\ view \in [Players -> AnyBoard]
    /\ walls \in [Players -> SUBSET Cells]
    /\ p \in AnyBoard
    /\ board \in [Players -> AnyBoard]

\* A window never shows a wall that the file of the player's stage does not
\* have: what is left of the last stage has gone, and rubbing out adds nothing.
WindowHonest ==
    \A i \in Players : temp[i].stage <= Final => walls[i] \subseteq Walls[temp[i].stage]

\* The cells of the player's stage that are a wall in the file and none on the
\* window.
Holes(i) == Walls[temp[i].stage] \ walls[i]

\* A player alone on the track meets his walls, but for the cell where he
\* starts and, on a later stage, for one in the top row: the cell from which he
\* left the stage before, which is rubbed out after the new stage has been drawn.
AloneMeetsWalls ==
    Num = 1 /\ temp[0].stage <= Final =>
        /\ \A c \in Holes(0) :
              IF temp[0].stage = 1 THEN c = <<2, Length>> ELSE c[2] = 1
        /\ \A c, d \in Holes(0) : c = d

\* Stage and damage change as RaceClient!Moves says, one of them by one, and
\* never after the race is over.
RecordSteps ==
    [][\A i \in Players :
         LET r == temp[i]
             s == temp'[i]
         IN  \/ s.stage = r.stage /\ s.damage = r.damage
             \/ /\ ~Over(r)
                /\ s.stage + s.damage = r.stage + r.damage + 1
                /\ s.stage >= r.stage /\ s.damage >= r.damage]_vars
=============================================================================
