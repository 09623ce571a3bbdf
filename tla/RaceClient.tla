----------------------------- MODULE RaceClient -----------------------------
(***************************************************************************)
(* The race client: session_init and session_loop with get_my_location,    *)
(* send_my_data, recv_all_data and ending (c/network/race/session.c), one  *)
(* process per player.                                                     *)
(*                                                                         *)
(* A key changes the player's own record in one of three ways: not at all  *)
(* as far as stage and damage go, a stage further, or one more damage      *)
(* (RaceTrack says which key does which).                                  *)
(***************************************************************************)
EXTENDS RaceWire

CONSTANT Quitters    (* the players whose process may be killed           *)

ASSUME QuittersAssumption == Quitters \subseteq Players

VARIABLES
    cpc,          (* cpc[i]: where the client of player i is               *)
    temp,         (* temp[i]: the player's own record                      *)
    view          (* view[i]: the client's copy p of the server's board    *)

client == <<cpc, temp, view>>

InPlay == {"key", "view", "grade", "done"}
Before == {"prompt", "name", "entry", "params"}

ClientTypeOK ==
    /\ cpc \in [Players -> Before \cup InPlay \cup {"garbled", "left"}]
    /\ temp \in [Players -> Record]
    /\ view \in [Players -> Board]

\* Both arrays of a client are zero until init_data; nobody looks at them
\* before it, so they start with what it writes.
ClientInit ==
    /\ cpc = [i \in Players |-> "prompt"]
    /\ temp = [i \in Players |-> StartRecord]
    /\ view = [i \in Players |-> [j \in Players |-> StartRecord]]

At(i, pc) == cpc[i] = pc
Goto(i, pc) == cpc' = [cpc EXCEPT ![i] = pc]
Sent(i, m) == [up EXCEPT ![i] = Append(@, m)]

\* How many of the messages queued a read with the 64-byte buffer of
\* session_init may take at once: it parses the first and drops the others.
Taken(i) == 1 .. Len(down[i])
Drop(i, k) == [down EXCEPT ![i] = SubSeq(@, k + 1, Len(@))]

ReadPrompt(i) ==
    /\ At(i, "prompt") /\ \E k \in Taken(i) : down' = Drop(i, k)
    /\ Goto(i, "name")
    /\ UNCHANGED <<up, left, temp, view>>

SendName(i) ==
    /\ At(i, "name")
    /\ up' = Sent(i, [kind |-> "name"])
    /\ Goto(i, "entry")
    /\ UNCHANGED <<down, left, temp, view>>

ReadEntry(i) ==
    /\ At(i, "entry") /\ \E k \in Taken(i) : down' = Drop(i, k)
    /\ Goto(i, "params")
    /\ UNCHANGED <<up, left, temp, view>>

\* The last read of session_init, and init_data.
ReadParams(i) ==
    /\ At(i, "params") /\ \E k \in Taken(i) : down' = Drop(i, k)
    /\ Goto(i, "key")
    /\ temp' = [temp EXCEPT ![i] = StartRecord]
    /\ view' = [view EXCEPT ![i] = [j \in Players |-> StartRecord]]
    /\ UNCHANGED <<up, left>>

\* What get_my_location may make of the player's record.
Moves(r) ==
    {r, [r EXCEPT !.stage = @ + 1], [r EXCEPT !.damage = @ + 1]}

\* get_my_location and send_my_data.
Key(i) ==
    /\ At(i, "key")
    /\ \E r \in Moves(temp[i]) :
          /\ temp' = [temp EXCEPT ![i] = r]
          /\ up' = Sent(i, [kind |-> "move", rec |-> r])
    /\ Goto(i, "view")
    /\ UNCHANGED <<down, left, view>>

\* recv_all_data, and the test of session_loop: flag is 0 once the player
\* has reached the goal or crashed.
ReadView(i) ==
    /\ At(i, "view") /\ down[i] # <<>> /\ Head(down[i]).kind = "board"
    /\ view' = [view EXCEPT ![i] = Head(down[i]).p]
    /\ down' = Drop(i, 1)
    /\ Goto(i, IF Over(temp[i]) THEN "grade" ELSE "key")
    /\ UNCHANGED <<up, left, temp>>

\* ending: the second board a client never asked for would be read here too.
ReadGrades(i) ==
    /\ At(i, "grade") /\ down[i] # <<>>
    /\ down' = Drop(i, 1)
    /\ Goto(i, "done")
    /\ UNCHANGED <<up, left, temp, view>>

\* recv_all_data when the grades are there already: the first bytes of the
\* table land in the board.  What the client shows from here on means nothing.
Garbled(i) ==
    /\ At(i, "view") /\ down[i] # <<>> /\ Head(down[i]).kind = "grades"
    /\ down' = Drop(i, 1)
    /\ Goto(i, "garbled")
    /\ UNCHANGED <<up, left, temp, view>>

Gone(i) ==
    /\ cpc[i] \notin {"done", "left"}
    /\ Goto(i, "left")
    /\ left' = left \cup {i}
    /\ UNCHANGED <<up, down, temp, view>>

\* SIGINT, before or after session_init has installed die for it, or SIGSEGV
\* from the stage file that new_stage opens and does not find.
Quit(i) == i \in Quitters /\ Gone(i)

Play(i) ==
    \/ ReadPrompt(i) \/ SendName(i) \/ ReadEntry(i) \/ ReadParams(i)
    \/ Key(i) \/ ReadView(i) \/ ReadGrades(i) \/ Garbled(i)
=============================================================================
