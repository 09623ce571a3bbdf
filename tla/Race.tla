-------------------------------- MODULE Race --------------------------------
(***************************************************************************)
(* The race game (c/network/race): the server and its clients over TCP.    *)
(***************************************************************************)
EXTENDS RaceServer, RaceClient, FiniteSets

vars == <<wire, server, client>>

Init == WireInit /\ ServerInit /\ ClientInit

\* A client whose server has gone runs into end of file on every read and into
\* SIGPIPE on its second write, and exits; what was sent to it before is read.
Orphan(i) == spc \in Stopped /\ down[i] = <<>> /\ Gone(i)

ServerStep == Serve /\ UNCHANGED client
ServerKilled == (\E i \in Players : Killed(i)) /\ UNCHANGED client
PlayStep(i) == Play(i) /\ UNCHANGED server
QuitStep(i) == Quit(i) /\ UNCHANGED server
OrphanStep(i) == Orphan(i) /\ UNCHANGED server

Next ==
    \/ ServerStep
    \/ ServerKilled
    \/ \E i \in Players : PlayStep(i) \/ QuitStep(i) \/ OrphanStep(i)

\* The user types the name and goes on playing until the goal or the crash.
Progress(i) == PlayStep(i) /\ At(i, "key") /\ temp'[i] # temp[i]

Fairness ==
    /\ WF_vars(ServerStep)
    /\ SF_vars(ServerKilled)
    /\ \A i \in Players :
          /\ WF_vars(PlayStep(i))
          /\ SF_vars(Progress(i))
          /\ WF_vars(OrphanStep(i))

Safety == Init /\ [][Next]_vars
Spec == Safety /\ Fairness

-----------------------------------------------------------------------------
\* Every variable has its type.  The bounds on stage and damage say that a
\* client sends nothing more once get_my_location has returned 0.
TypeOK == WireTypeOK /\ ServerTypeOK /\ ClientTypeOK

Finishers == {i \in Players : ReachedGoal(p[i])}
Crashers == {i \in Players : Crashed(p[i])}

GoalSlots == 0 .. reached - 1
CrashSlots == Num - crashed .. Num - 1

OneToOne(f, S, T) ==
    /\ \A t \in T : \E s \in S : f[s] = t
    /\ \A s \in S : f[s] \in T
    /\ \A s, t \in S : f[s] = f[t] => s = t

\* A player leaves after the move that ended the race for him has been
\* received.  His closed connection is readable for ever, recv_data looks at
\* the same record again at every turn, and enters him once more.
LateLeaver == \E i \in left : Over(p[i])

\* The grade table is sound: from the top it holds exactly those who reached
\* the goal, from the bottom exactly those who crashed, everybody once, and the
\* two halves do not meet (recv_data counts reached and crashed apart and
\* stores without looking at what is there).
TableSound ==
    LateLeaver \/
        /\ reached + crashed <= Num
        /\ Finishers \cap Crashers = {}
        /\ OneToOne(g, GoalSlots, Finishers)
        /\ OneToOne(g, CrashSlots, Crashers)
        /\ \A s \in Slots \ (GoalSlots \cup CrashSlots) : g[s] = Nobody

\* When sessionman_loop leaves its while, the rows that ending sends name every
\* player, and nobody who crashed stands above one who reached the goal.
GradesComplete ==
    spc \in {"ending", "exit"} => LateLeaver \/
        /\ {g[s] : s \in 0 .. Num - 1} = Players
        /\ \A s, t \in 0 .. Num - 1 :
              s < t /\ g[s] \in Crashers => g[t] \in Crashers

\* What a client shows of another player is never ahead of what the server has
\* received, and that is never ahead of the player himself.
NeverAhead ==
    \A i, j \in Players :
        /\ view[i][j] = StartRecord
           \/ /\ view[i][j].stage <= p[j].stage
              /\ view[i][j].damage <= p[j].damage
        /\ p[j].stage <= temp[j].stage /\ p[j].damage <= temp[j].damage

\* When the user is asked for a key, the board shows the result of the last
\* one: every move is answered by one board, which is sent after the move has
\* been received, and boards and moves never get out of step.
EchoInv == \A i \in Players : At(i, "key") => view[i][i] = temp[i]

\* What a client shows is old, but never wrong, and never out of step with its
\* moves (session.c reads boards by their size alone).
HonestBoards == NeverAhead /\ EchoInv

\* A client whose read of the entry number took the parameters with it, and
\* which now waits for them although they were sent.
ParamsSent(i) ==
    \/ spc = "params" /\ i \notin todo
    \/ spc \notin {"prompt", "name", "params"}
Swallowed(i) == At(i, "params") /\ down[i] = <<>> /\ ParamsSent(i)

\* One such client keeps the game from ever ending for anybody, as long as
\* nobody leaves: the server waits for a move that is never sent.
SwallowStalls ==
    left = {} /\ (\E i \in Players : Swallowed(i)) =>
        spc \notin {"ending", "exit", "killed"}

\* A row of the table that is filled is never overwritten.
RankingStable ==
    [][LateLeaver \/ \A s \in Slots : g[s] # Nobody => g'[s] = g[s]]_vars

\* Who has seen another player at the goal on his screen before he got there
\* himself is never placed above that player.
SeenFirstRanksFirst ==
    [][\A i, j \in Players :
         ~ReachedGoal(p[i]) /\ ReachedGoal(p'[i]) /\ ReachedGoal(view[i][j])
           => LateLeaver \/ \E s \in GoalSlots : g[s] = j /\ g'[reached] = i]_vars

\* Unless a client has swallowed its parameters, everybody gets the grades.
AllGraded ==
    <>((\A i \in Players : At(i, "done")) \/ (\E i \in Players : Swallowed(i)))

\* One player who goes takes the whole game with him: the server writes to the
\* closed connection until SIGPIPE ends it, or the race ends before, and then
\* nobody is left waiting for it.
NobodyLeftBehind ==
    (left # {}) ~> \A i \in Players : cpc[i] \in {"done", "left"}

\* Without players who quit the server and its table implement the podium.
Arrived == [k \in 1 .. reached |-> g[k - 1]]
Dropped == [k \in 1 .. crashed |-> g[Num - k]]
P == INSTANCE Podium WITH
         Racers <- Players, goal <- Arrived, crash <- Dropped,
         published <- spc \in {"ending", "exit"}
ImplementsPodium == P!Spec
=============================================================================
