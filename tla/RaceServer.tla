----------------------------- MODULE RaceServer -----------------------------
(***************************************************************************)
(* The race server: mserver_maccept (c/network/mylib/setup_mserver.c) with *)
(* the callback enter, sessionman_init, and sessionman_loop with           *)
(* recv_data, send_data and ending (c/network/race/sessionman.c).          *)
(*                                                                         *)
(* The server is one thread; its loops over the players make one system    *)
(* call per step, and clients move between two of them.  todo holds the    *)
(* players that the loop being executed has still to visit, in order.      *)
(***************************************************************************)
EXTENDS RaceWire

VARIABLES
    spc,          (* where the server is                                   *)
    todo,         (* the rest of the loop over the players                 *)
    readOk,       (* what the last select() left in readOk                 *)
    p,            (* the last record received from every player            *)
    reached,      (* slots of g filled from the top                        *)
    crashed,      (* slots of g filled from the bottom                     *)
    g             (* the grade table                                       *)

server == <<spc, todo, readOk, p, reached, crashed, g>>

Running == {"prompt", "name", "params", "loop", "recv", "send", "ending"}
Stopped == {"exit", "killed"}

ServerTypeOK ==
    /\ spc \in Running \cup Stopped
    /\ todo \subseteq Players
    /\ readOk \subseteq Players
    /\ p \in Board
    /\ reached \in Nat
    /\ crashed \in Nat
    /\ g \in Table

ServerInit ==
    /\ spc = "prompt"
    /\ todo = Players
    /\ readOk = {}
    /\ p = [i \in Players |-> ZeroRecord]
    /\ reached = 0
    /\ crashed = 0
    /\ g = [s \in Slots |-> Nobody]

\* The player whose turn it is in a loop over the players.
Turn(i) == i \in todo /\ \A j \in todo : i <= j

\* Leave the loop at pc for the next place, with the loop there over "over",
\* or stay in it.
Advance(i, pc, next, over) ==
    /\ spc' = IF todo = {i} THEN next ELSE pc
    /\ todo' = IF todo = {i} THEN over ELSE todo \ {i}

\* accept() and the first half of enter: ask for the name.
Prompt(i) ==
    /\ spc = "prompt" /\ Turn(i)
    /\ down' = Written(i, [kind |-> "prompt"])
    /\ spc' = "name"
    /\ UNCHANGED <<up, left, todo, readOk, p, reached, crashed, g>>

\* The second half of enter: block until the name is there, or until the
\* client has gone and read() returns 0; then write the entry number.
ReadName(i) ==
    /\ spc = "name" /\ Turn(i) /\ Readable(i)
    /\ up' = IF up[i] = <<>> THEN up ELSE [up EXCEPT ![i] = Tail(@)]
    /\ down' = Written(i, [kind |-> "entry"])
    /\ Advance(i, "prompt", "params", Players)
    /\ UNCHANGED <<left, readOk, p, reached, crashed, g>>

\* sessionman_init: tell every client the number of players and of stages.
SendParams(i) ==
    /\ spc = "params" /\ Turn(i)
    /\ down' = Written(i, [kind |-> "params"])
    /\ Advance(i, "params", "loop", {})
    /\ UNCHANGED <<up, left, readOk, p, reached, crashed, g>>

\* Mistake: the while ends one player too early.
EverybodyPlacedButOne == reached + crashed >= Num - 1

\* The condition that ends the while of sessionman_loop.
EverybodyPlaced == reached + crashed >= Num

\* The top of sessionman_loop, and select() in recv_data.  Descriptor 0 is in
\* the mask too: a line typed at the server wakes it up for nothing.
Select ==
    /\ spc = "loop" /\ ~EverybodyPlaced
    /\ \E i \in Players : Readable(i)
    /\ readOk' = {i \in Players : Readable(i)}
    /\ todo' = readOk'
    /\ spc' = "recv"
    /\ UNCHANGED <<wire, p, reached, crashed, g>>

\* Mistake: the record is cleared when the player has gone.
ReceivedCleared(i) == IF up[i] = <<>> THEN ZeroRecord ELSE Head(up[i]).rec

\* What read() leaves in the player's part of p: at end of file, what was there.
Received(i) == IF up[i] = <<>> THEN p[i] ELSE Head(up[i]).rec

\* Mistakes: the rows counted from one, the rows of the crashed and of the
\* finishers mixed up.
CrashSlotFromOne == Num - crashed
CrashSlotByReached == Num - reached - 1
GoalSlotFromBottom == Num - reached - 1

CrashSlot == Num - crashed - 1
GoalSlot == reached

\* recv_data does not look whether the row it stores to is one of g.
Outside(r) ==
    \/ Crashed(r) /\ CrashSlot \notin Slots
    \/ ReachedGoal(r) /\ GoalSlot \notin Slots

\* Mistake: the board is sent to everybody at every turn.
AudienceAll == Players

\* send_data answers exactly those whose data the last recv_data has read.
Audience == readOk

\* The body of recv_data's loop.
Recv(i) ==
    /\ spc = "recv" /\ Turn(i) /\ ~Outside(Received(i))
    /\ LET r == Received(i)
           afterCrash == IF Crashed(r) THEN [g EXCEPT ![CrashSlot] = i] ELSE g
       IN  /\ p' = [p EXCEPT ![i] = r]
           /\ crashed' = IF Crashed(r) THEN crashed + 1 ELSE crashed
           /\ reached' = IF ReachedGoal(r) THEN reached + 1 ELSE reached
           /\ g' = IF ReachedGoal(r) THEN [afterCrash EXCEPT ![GoalSlot] = i]
                                     ELSE afterCrash
    /\ up' = IF up[i] = <<>> THEN up ELSE [up EXCEPT ![i] = Tail(@)]
    /\ Advance(i, "recv", "send", Audience)
    /\ UNCHANGED <<down, left, readOk>>

\* The same when the store misses the table: it falls on the variables that
\* the compiler has put beside it, for which the two counters stand.
RecvOutside(i) ==
    /\ spc = "recv" /\ Turn(i) /\ Outside(Received(i))
    /\ p' = [p EXCEPT ![i] = Received(i)]
    /\ reached' \in 0 .. Num /\ crashed' \in 0 .. Num
    /\ up' = IF up[i] = <<>> THEN up ELSE [up EXCEPT ![i] = Tail(@)]
    /\ Advance(i, "recv", "send", Audience)
    /\ UNCHANGED <<down, left, readOk, g>>

\* The body of send_data's loop, for the players in readOk.
Send(i) ==
    /\ spc = "send" /\ Turn(i)
    /\ down' = Written(i, [kind |-> "board", p |-> p])
    /\ Advance(i, "send", "loop", {})
    /\ UNCHANGED <<up, left, readOk, p, reached, crashed, g>>

\* Mistake: the grades go to those only who have just sent something.
StartEndingForReadOk ==
    /\ spc = "loop" /\ EverybodyPlaced
    /\ spc' = "ending" /\ todo' = readOk
    /\ UNCHANGED <<wire, readOk, p, reached, crashed, g>>

StartEnding ==
    /\ spc = "loop" /\ EverybodyPlaced
    /\ spc' = "ending" /\ todo' = Players
    /\ UNCHANGED <<wire, readOk, p, reached, crashed, g>>

\* The body of ending's loop, and exit from main.
SendGrades(i) ==
    /\ spc = "ending" /\ Turn(i)
    /\ down' = Written(i, [kind |-> "grades", g |-> g])
    /\ Advance(i, "ending", "exit", {})
    /\ UNCHANGED <<up, left, readOk, p, reached, crashed, g>>

\* Mistake: SIGPIPE is ignored, and nothing else tells the server.
KilledNever(i) == i # i

\* The server installs no handler for SIGPIPE.  The first write to a player
\* who has gone is answered by a reset; a write after that kills the server.
Killed(i) ==
    /\ spc \in {"name", "params", "send", "ending"} /\ Turn(i) /\ i \in left
    /\ spc' = "killed" /\ todo' = {}
    /\ UNCHANGED <<wire, readOk, p, reached, crashed, g>>

Serve ==
    \/ \E i \in Players :
          \/ Prompt(i) \/ ReadName(i) \/ SendParams(i)
          \/ Recv(i) \/ RecvOutside(i) \/ Send(i) \/ SendGrades(i)
    \/ Select
    \/ StartEnding
=============================================================================
