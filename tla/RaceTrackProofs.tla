-------------------------- MODULE RaceTrackProofs ---------------------------
(***************************************************************************)
(* RaceTrack for every size of the track, every set of stage files and any *)
(* number of players.                                                      *)
(***************************************************************************)
EXTENDS RaceTrack, TLAPS

\* Only a player whose race is not over is asked for a key.
KeyInv == \A i \in Players : at[i] = "key" => ~Over(temp[i])

IInv == TypeOK /\ KeyInv /\ WindowHonest

\* A player who is alone: the record that the server sends back is his own, the
\* last board showed where he was, and no digit is ever drawn on a wall, unless
\* a new stage has been drawn since that board came; then he is below it, there
\* are no holes yet, and the cell that Refresh will rub out is in the top row.
AloneInv ==
    Num = 1 /\ temp[0].stage <= Final =>
        LET r == temp[0]
            v == view[0][0]
        IN  /\ v \in Position
            /\ at[0] \in {"key", "over"} => v = r
            /\ at[0] = "board" => board[0][0] = r
            /\ <<r.x, r.y>> \notin walls[0]
            /\ \/ v.stage = r.stage /\ <<v.x, v.y>> \notin walls[0]
               \/ v.stage < r.stage /\ v.y = 1 /\ r.y = Length + 1 /\ Holes(0) = {}
            /\ AloneMeetsWalls

\* The race that is run has players and stages, and room for all at the start.
LEMMA TheRace ==
    ASSUME race \in Races
    PROVE  /\ Num \in Nat \ {0} /\ Final \in Nat \ {0} /\ Num + 1 <= Width
           /\ Walls \in [1 .. Final -> SUBSET Cells]
           /\ MaxDamage \in Nat \ {0} /\ Width \in Nat /\ Length \in Nat \ {0}
  BY TrackAssumption DEF Num, Final, Walls

\* It stays the same race.
LEMMA SameRace ==
    ASSUME race' = race
    PROVE  /\ Num' = Num /\ Final' = Final /\ Walls' = Walls /\ Players' = Players
           /\ Position' = Position /\ AnyBoard' = AnyBoard
  BY DEF Num, Final, Walls, Players, Position, AnyBoard

LEMMA StartTyped ==
    ASSUME race \in Races
    PROVE  /\ StartBoard \in [Players -> Position] /\ StartBoard \in AnyBoard
           /\ \A i \in Players : StartBoard[i].stage = 1 /\ ~Over(StartBoard[i])
  BY TheRace
  DEF StartBoard, StartPosition, Position, Players, AnyBoard, Over

LEMMA InitInv == Init => IInv
  <1> SUFFICES ASSUME Init PROVE IInv
    OBVIOUS
  <1>0. race \in Races
    BY DEF Init
  <1>1. Walls[1] \in SUBSET Cells
    BY <1>0, TheRace
  <1>2. TypeOK
    BY <1>1, StartTyped DEF Init, TypeOK, AnyBoard
  <1>3. KeyInv /\ WindowHonest
    BY StartTyped DEF Init, KeyInv, WindowHonest
  <1>4. QED
    BY <1>2, <1>3 DEF IInv

\* What a key makes of the record of a player whose race is not over.
Legal(r, s) ==
    \/ s.stage = r.stage /\ s.damage = r.damage
    \/ /\ ~Over(r)
       /\ s.stage + s.damage = r.stage + r.damage + 1
       /\ s.stage >= r.stage /\ s.damage >= r.damage

LEMMA MovedTyped ==
    ASSUME IInv, NEW i \in Players, at[i] = "key",
           NEW d \in {<<-1, 0>>, <<0, 1>>, <<1, 0>>, <<0, -1>>}
    PROVE  /\ Moved(i, d[1], d[2]) \in Position
           /\ Moved(i, d[1], d[2]).stage = temp[i].stage
           /\ Legal(temp[i], Moved(i, d[1], d[2]))
  <1>1. temp[i] \in Position /\ ~Over(temp[i]) /\ race \in Races
    BY DEF IInv, TypeOK, KeyInv
  <1>2. d[1] \in Int /\ d[2] \in Int
    OBVIOUS
  <1>3. CASE Free(i, temp[i].x + d[1], temp[i].y + d[2])
    <2>1. Moved(i, d[1], d[2]) = Gone(temp[i], d[1], d[2])
      BY <1>3 DEF Moved
    <2>2. /\ temp[i].x + d[1] \in 1 .. Width
          /\ temp[i].y + d[2] \in 1 .. Length + 1
      BY <1>3 DEF Free
    <2>3. QED
      BY <1>1, <2>1, <2>2 DEF Position, Legal, Gone
  <1>4. CASE ~Free(i, temp[i].x + d[1], temp[i].y + d[2])
    <2>1. Moved(i, d[1], d[2]) = Hurt(temp[i])
      BY <1>4 DEF Moved
    <2>2. temp[i].damage \in 0 .. MaxDamage /\ temp[i].damage < MaxDamage
      BY <1>1, TheRace DEF Position, Over
    <2>3. MaxDamage \in Nat /\ temp[i].damage + 1 \in 0 .. MaxDamage
      BY <1>1, <2>2, TheRace
    <2>4. Hurt(temp[i]) \in Position
      BY <1>1, <2>3 DEF Position, Hurt
    <2>5. Hurt(temp[i]).stage = temp[i].stage /\ Legal(temp[i], Hurt(temp[i]))
      BY <1>1, <2>2 DEF Position, Legal, Hurt
    <2>6. QED
      BY <2>1, <2>4, <2>5
  <1>5. QED
    BY <1>3, <1>4

LEMMA NextStageTyped ==
    ASSUME IInv, NEW i \in Players, at[i] = "key"
    PROVE  LET s == Entered(temp[i], temp[i].stage + 1)
           IN  /\ s \in Position /\ Legal(temp[i], s)
               /\ s.stage = temp[i].stage + 1
               /\ s.stage <= Final => s.stage \in 1 .. Final
  <1>1. temp[i] \in Position /\ ~Over(temp[i]) /\ race \in Races
    BY DEF IInv, TypeOK, KeyInv
  <1>2. /\ Final \in Nat \ {0} /\ MaxDamage \in Nat \ {0} /\ Length \in Nat \ {0}
        /\ temp[i].stage \in 1 .. Final /\ temp[i].damage \in 0 .. MaxDamage
    BY <1>1, TheRace DEF Position, Over
  <1>3. QED
    BY <1>1, <1>2 DEF Position, Over, Legal, Entered

\* A key: the player's record, and his window on a new stage.
LEMMA SendInv ==
    ASSUME IInv, NEW i \in Players, NEW r \in Position, Send(i, r),
           \/ r.stage = temp[i].stage /\ UNCHANGED walls
           \/ r.stage > Final /\ UNCHANGED walls
           \/ /\ r.stage \in 1 .. Final
              /\ walls' = [walls EXCEPT ![i] = Walls[r.stage]]
    PROVE  IInv'
  <1> USE DEF IInv, Send
  <1>1. walls' \in [Players -> SUBSET Cells]
    BY TheRace DEF TypeOK
  <1>2. TypeOK'
    BY <1>1, SameRace DEF TypeOK
  <1>3. KeyInv'
    BY SameRace DEF KeyInv, TypeOK, Over
  <1>4. temp'[i] = r /\ \A j \in Players \ {i} : temp'[j] = temp[j] /\ walls'[j] = walls[j]
    BY DEF TypeOK
  <1>5. r.stage <= Final => walls'[i] \subseteq Walls[r.stage]
    BY TheRace DEF TypeOK, WindowHonest, Position
  <1>6. WindowHonest'
    BY <1>4, <1>5, SameRace DEF WindowHonest
  <1>7. QED
    BY <1>2, <1>3, <1>6

LEMMA KeyStep ==
    ASSUME IInv, NEW i \in Players, Step(i) \/ NextStage(i) \/ Idle(i)
    PROVE  /\ IInv'
           /\ Legal(temp[i], temp'[i])
           /\ \A j \in Players \ {i} : temp'[j] = temp[j]
  <1>1. ASSUME NEW r \in Position, Send(i, r), Legal(temp[i], r)
        PROVE  /\ Legal(temp[i], temp'[i])
               /\ \A j \in Players \ {i} : temp'[j] = temp[j]
    BY <1>1 DEF Send, IInv, TypeOK
  <1>2. CASE Step(i)
    <2>1. PICK d \in {<<-1, 0>>, <<0, 1>>, <<1, 0>>, <<0, -1>>} :
             Send(i, Moved(i, d[1], d[2]))
      BY <1>2 DEF Step
    <2>2. at[i] = "key" /\ UNCHANGED walls
      BY <1>2 DEF Step
    <2>3. QED
      BY <1>1, <2>1, <2>2, MovedTyped, SendInv
  <1>3. CASE NextStage(i)
    <2> DEFINE s == Entered(temp[i], temp[i].stage + 1)
    <2>1. /\ s \in Position /\ Legal(temp[i], s) /\ s.stage = temp[i].stage + 1
          /\ s.stage <= Final => s.stage \in 1 .. Final
      BY <1>3, NextStageTyped DEF NextStage
    <2>2. Send(i, s)
      BY <1>3 DEF NextStage
    <2>3. walls' = IF s.stage > Final THEN walls ELSE [walls EXCEPT ![i] = Walls[s.stage]]
      BY <1>3, <2>1 DEF NextStage
    <2>4. s.stage \in Int /\ Final \in Int
      BY <2>1, TheRace DEF Position, IInv, TypeOK
    <2>5. QED
      BY <1>1, <2>1, <2>2, <2>3, <2>4, SendInv
  <1>4. CASE Idle(i)
    <2>1. temp[i] \in Position
      BY DEF IInv, TypeOK
    <2>2. Send(i, temp[i]) /\ UNCHANGED walls /\ Legal(temp[i], temp[i])
      BY <1>4 DEF Idle, Legal
    <2>3. QED
      BY <1>1, <2>1, <2>2, SendInv
  <1>5. QED
    BY <1>2, <1>3, <1>4

LEMMA ServeInv == IInv /\ Serve => IInv' /\ UNCHANGED temp
  <1> SUFFICES ASSUME IInv, Serve PROVE IInv' /\ UNCHANGED temp
    OBVIOUS
  <1>1. PICK S \in SUBSET {i \in Players : at[i] = "sent"} :
           /\ p' = [i \in Players |-> IF i \in S THEN temp[i] ELSE p[i]]
           /\ board' = [i \in Players |-> IF i \in S THEN p' ELSE board[i]]
           /\ at' = [i \in Players |-> IF i \in S THEN "board" ELSE at[i]]
           /\ UNCHANGED <<race, temp, view, walls>>
    BY DEF Serve
  <1>2. p' \in AnyBoard
    BY <1>1 DEF IInv, TypeOK, AnyBoard
  <1>3. board' \in [Players -> AnyBoard] /\ at' \in [Players -> {"key", "sent", "board", "over"}]
    BY <1>1, <1>2 DEF IInv, TypeOK
  <1>4. TypeOK'
    BY <1>1, <1>2, <1>3, SameRace DEF IInv, TypeOK
  <1>5. KeyInv' /\ WindowHonest'
    BY <1>1, SameRace DEF IInv, KeyInv, WindowHonest, Over
  <1>6. QED
    BY <1>1, <1>4, <1>5 DEF IInv

LEMMA RefreshInv ==
    ASSUME IInv, NEW i \in Players, Refresh(i)
    PROVE  IInv' /\ UNCHANGED temp
  <1> USE DEF IInv, Refresh
  <1>1. TypeOK'
    BY StartTyped, SameRace DEF TypeOK, After
  <1>2. KeyInv'
    BY SameRace DEF KeyInv, TypeOK, After, Over
  <1>3. WindowHonest'
    BY SameRace DEF WindowHonest, TypeOK
  <1>4. QED
    BY <1>1, <1>2, <1>3

LEMMA StepInv ==
    ASSUME IInv, [Next]_vars
    PROVE  IInv' /\ \A i \in Players : Legal(temp[i], temp'[i])
  <1>1. ASSUME NEW i \in Players, temp'[i] = temp[i]
        PROVE  Legal(temp[i], temp'[i])
    BY <1>1 DEF Legal
  <1>2. ASSUME NEW i \in Players, Step(i) \/ NextStage(i) \/ Idle(i)
        PROVE  IInv' /\ \A j \in Players : Legal(temp[j], temp'[j])
    <2>1. /\ IInv' /\ Legal(temp[i], temp'[i])
          /\ \A j \in Players \ {i} : temp'[j] = temp[j]
      BY <1>2, KeyStep
    <2>2. QED
      BY <1>1, <2>1
  <1>3. CASE UNCHANGED vars
    <2>1. IInv'
      BY <1>3, SameRace DEF vars, IInv, TypeOK, KeyInv, WindowHonest, Over
    <2>2. QED
      BY <1>1, <1>3, <2>1 DEF vars
  <1>4. CASE Serve \/ \E i \in Players : Refresh(i)
    BY <1>1, <1>4, ServeInv, RefreshInv
  <1>5. QED
    BY <1>2, <1>3, <1>4 DEF Next

\* Whatever the keys, the boards and the stage files, no player leaves the
\* track and every record the client draws or sends is in its bounds.
THEOREM OnTrack == Spec => []TypeOK
  <1>1. IInv => TypeOK
    BY DEF IInv
  <1>2. QED
    BY <1>1, InitInv, StepInv, PTL DEF Spec

\* No window ever shows a wall that is not in the file of the player's stage.
THEOREM Honest == Spec => []WindowHonest
  <1>1. IInv => WindowHonest
    BY DEF IInv
  <1>2. QED
    BY <1>1, InitInv, StepInv, PTL DEF Spec

\* The keys do to stage and damage what the client of the game does in
\* RaceClient: one of the two goes up by one, and neither after the end.
THEOREM Records == Spec => RecordSteps
  <1>1. ASSUME IInv, [Next]_vars
        PROVE  [\A i \in Players :
                   LET r == temp[i]
                       s == temp'[i]
                   IN  \/ s.stage = r.stage /\ s.damage = r.damage
                       \/ /\ ~Over(r)
                          /\ s.stage + s.damage = r.stage + r.damage + 1
                          /\ s.stage >= r.stage /\ s.damage >= r.damage]_vars
    BY <1>1, StepInv DEF Legal
  <1>2. QED
    BY <1>1, InitInv, StepInv, PTL DEF Spec, RecordSteps

-----------------------------------------------------------------------------
\* One player.
LEMMA AlonePlayers ==
    ASSUME Num = 1
    PROVE  /\ Players = {0}
           /\ \A b, z : Touched(b, z) =
                 IF b[0].stage = z THEN {<<b[0].x, b[0].y>>} ELSE {}
  <1>1. Players = {0}
    BY DEF Players
  <1>2. QED
    BY <1>1 DEF Touched

LEMMA AloneStart == Init => AloneInv
  <1> SUFFICES ASSUME Init, Num = 1 PROVE AloneInv
    BY DEF AloneInv
  <1>0. race \in Races
    BY DEF Init
  <1>1. /\ temp[0] = StartPosition(0) /\ view[0][0] = StartPosition(0)
        /\ at[0] = "key" /\ walls[0] = Walls[1] \ Touched(StartBoard, 1)
        /\ StartBoard[0] = StartPosition(0)
    BY AlonePlayers DEF Init, StartBoard
  <1>2. StartPosition(0) \in Position /\ StartPosition(0).stage = 1
    BY <1>0, TheRace DEF StartPosition, Position
  <1>3. Touched(StartBoard, 1) = {<<2, Length>>}
    BY <1>1, AlonePlayers DEF StartPosition
  <1>4. <<StartPosition(0).x, StartPosition(0).y>> = <<2, Length>>
    BY DEF StartPosition
  <1>5. Holes(0) \subseteq {<<2, Length>>}
    BY <1>1, <1>2, <1>3 DEF Holes
  <1>6. AloneMeetsWalls
    BY <1>1, <1>2, <1>5 DEF AloneMeetsWalls
  <1>7. QED
    BY <1>1, <1>2, <1>3, <1>4, <1>6 DEF AloneInv

LEMMA AloneKey ==
    ASSUME IInv, AloneInv, Num = 1, Step(0) \/ NextStage(0) \/ Idle(0)
    PROVE  AloneInv'
  <1> USE DEF IInv
  <1>1. 0 \in Players /\ at[0] = "key" /\ temp[0] \in Position /\ ~Over(temp[0])
    BY AlonePlayers DEF Step, NextStage, Idle, TypeOK, KeyInv
  <1>0. race \in Races /\ race' = race
    BY DEF Step, NextStage, Idle, Send, TypeOK
  <1>2. /\ view[0][0] = temp[0] /\ <<temp[0].x, temp[0].y>> \notin walls[0]
        /\ AloneMeetsWalls
    BY <1>0, <1>1, TheRace DEF AloneInv, Over, Position
  <1>3. ASSUME NEW r \in Position, Send(0, r), UNCHANGED walls,
               r.stage = temp[0].stage, <<r.x, r.y>> \notin walls[0]
        PROVE  AloneInv'
    <2>1. temp'[0] = r /\ at'[0] = "sent" /\ view' = view
      BY <1>1, <1>3 DEF Send, TypeOK
    <2>2. Holes(0)' = Holes(0) /\ AloneMeetsWalls'
      BY <1>0, <1>2, <1>3, <2>1, SameRace DEF Holes, AloneMeetsWalls
    <2>3. QED
      BY <1>0, <1>1, <1>2, <1>3, <2>1, <2>2, SameRace DEF AloneInv
  <1>4. CASE Step(0)
    <2>1. PICK d \in {<<-1, 0>>, <<0, 1>>, <<1, 0>>, <<0, -1>>} :
             Send(0, Moved(0, d[1], d[2]))
      BY <1>4 DEF Step
    <2> DEFINE r == Moved(0, d[1], d[2])
    <2>2. r \in Position /\ r.stage = temp[0].stage
      BY <1>1, MovedTyped
    <2>3. <<r.x, r.y>> \notin walls[0]
      BY <1>2 DEF Moved, Free, Gone, Hurt
    <2>4. QED
      BY <1>3, <1>4, <2>1, <2>2, <2>3 DEF Step
  <1>5. CASE Idle(0)
    BY <1>1, <1>2, <1>3, <1>5 DEF Idle
  <1>6. CASE NextStage(0)
    <2> DEFINE z == temp[0].stage + 1
    <2>1. /\ temp'[0] = Entered(temp[0], z) /\ at'[0] = "sent" /\ view' = view
          /\ temp[0].y = 1
      BY <1>1, <1>6 DEF NextStage, Send, TypeOK
    <2>2. SUFFICES ASSUME z <= Final PROVE AloneInv'
      BY <1>0, <2>1, SameRace DEF AloneInv, Entered
    <2>3. walls'[0] = Walls[z] /\ z \in 1 .. Final /\ temp[0].stage \in Int
      BY <1>1, <1>6, <2>2, TheRace DEF NextStage, TypeOK, Position
    <2>4. /\ temp'[0].stage = z /\ temp'[0].y = Length + 1
          /\ view'[0][0] = temp[0] /\ temp[0].stage < z
      BY <1>2, <2>1, <2>3 DEF Entered
    <2>5. <<temp'[0].x, temp'[0].y>> \notin walls'[0]
      <3>1. Walls[z] \subseteq Cells
        BY <1>0, <2>3, TheRace
      <3>2. \A c \in Cells : c[2] # Length + 1
        BY <1>0, TheRace DEF Cells
      <3>3. <<temp'[0].x, temp'[0].y>>[2] = temp'[0].y
        OBVIOUS
      <3>4. QED
        BY <2>3, <2>4, <3>1, <3>2, <3>3
    <2>6. Holes(0)' = {}
      BY <1>0, <2>3, <2>4, SameRace DEF Holes
    <2>7. AloneMeetsWalls'
      BY <2>6 DEF AloneMeetsWalls
    <2>8. QED
      BY <1>0, <1>1, <2>1, <2>4, <2>5, <2>6, <2>7, SameRace DEF AloneInv
  <1>7. QED
    BY <1>4, <1>5, <1>6

LEMMA AloneServe == ASSUME IInv, AloneInv, Num = 1, Serve PROVE AloneInv'
  <1>1. PICK S \in SUBSET {i \in Players : at[i] = "sent"} :
           /\ p' = [i \in Players |-> IF i \in S THEN temp[i] ELSE p[i]]
           /\ board' = [i \in Players |-> IF i \in S THEN p' ELSE board[i]]
           /\ at' = [i \in Players |-> IF i \in S THEN "board" ELSE at[i]]
           /\ UNCHANGED <<race, temp, view, walls>>
    BY DEF Serve
  <1>2. 0 \in Players
    BY AlonePlayers
  <1>3. \/ at'[0] = "board" /\ board'[0][0] = temp[0]
        \/ at'[0] = at[0] /\ board'[0] = board[0]
    BY <1>1, <1>2
  <1>4. Holes(0)' = Holes(0) /\ (AloneMeetsWalls' <=> AloneMeetsWalls)
    BY <1>1, SameRace DEF Holes, AloneMeetsWalls
  <1>5. QED
    BY <1>1, <1>3, <1>4, SameRace DEF AloneInv

LEMMA AloneRefresh == ASSUME IInv, AloneInv, Num = 1, Refresh(0) PROVE AloneInv'
  <1> DEFINE r == temp[0]
             v == view[0][0]
  <1>1. 0 \in Players /\ at[0] = "board" /\ r \in Position
    BY AlonePlayers DEF Refresh, IInv, TypeOK
  <1>0. race' = race
    BY DEF Refresh
  <1>2. SUFFICES ASSUME r.stage <= Final PROVE AloneInv'
    BY <1>0, SameRace DEF AloneInv, Refresh
  <1>3. /\ v \in Position /\ board[0][0] = r
        /\ <<r.x, r.y>> \notin walls[0] /\ AloneMeetsWalls
        /\ \/ v.stage = r.stage /\ <<v.x, v.y>> \notin walls[0]
           \/ v.stage < r.stage /\ v.y = 1 /\ Holes(0) = {}
    BY <1>1, <1>2 DEF AloneInv
  <1>4. temp' = temp /\ view'[0][0] = r /\ at'[0] \in {"key", "over"}
    BY <1>1, <1>3 DEF Refresh, After, IInv, TypeOK
  <1>5. walls'[0] = walls[0] \ {<<v.x, v.y>>, <<r.x, r.y>>}
    <2>1. walls'[0] = walls[0] \ (Touched(view[0], v.stage)
                                  \cup Touched(board[0], r.stage))
      BY <1>1, <1>3 DEF Refresh, IInv, TypeOK
    <2>2. /\ Touched(view[0], v.stage) = {<<v.x, v.y>>}
          /\ Touched(board[0], r.stage) = {<<r.x, r.y>>}
      BY <1>3, AlonePlayers
    <2>3. QED
      BY <2>1, <2>2
  <1>6. AloneMeetsWalls'
    <2>1. CASE v.stage = r.stage /\ <<v.x, v.y>> \notin walls[0]
      <3>1. Holes(0)' = Holes(0)
        BY <1>0, <1>3, <1>4, <1>5, <2>1, SameRace DEF Holes
      <3>2. QED
        BY <1>0, <1>3, <1>4, <3>1, SameRace DEF AloneMeetsWalls
    <2>2. CASE v.stage < r.stage /\ v.y = 1 /\ Holes(0) = {}
      <3>1. Holes(0)' \subseteq {<<v.x, v.y>>}
        BY <1>0, <1>3, <1>4, <1>5, <2>2, SameRace DEF Holes
      <3>2. r.stage # 1
        BY <1>1, <1>3, <2>2 DEF Position
      <3>3. QED
        BY <1>0, <1>4, <2>2, <3>1, <3>2, SameRace DEF AloneMeetsWalls
    <2>3. QED
      BY <1>3, <2>1, <2>2
  <1>7. QED
    BY <1>0, <1>1, <1>4, <1>5, <1>6, SameRace DEF AloneInv

LEMMA AloneStep == IInv /\ AloneInv /\ [Next]_vars => AloneInv'
  <1>0. [Next]_vars => Num' = Num
    BY DEF Next, vars, Step, NextStage, Idle, Send, Refresh, Serve, Num
  <1> SUFFICES ASSUME IInv, AloneInv, [Next]_vars, Num = 1 PROVE AloneInv'
    BY <1>0 DEF AloneInv
  <1>1. CASE UNCHANGED vars
    BY <1>1, SameRace DEF vars, AloneInv, AloneMeetsWalls, Holes
  <1>2. QED
    BY <1>1, AlonePlayers, AloneKey, AloneServe, AloneRefresh DEF Next

\* A player who is alone meets all walls but one: digits are drawn and rubbed
\* out in the window that is his only map, and still no wall is lost but the one
\* under his start, or under the cell from which he left the stage before.
THEOREM Alone == Spec => []AloneMeetsWalls
  <1>1. IInv /\ AloneInv => AloneMeetsWalls
    BY DEF IInv, AloneInv, AloneMeetsWalls
  <1>2. Spec => [](IInv /\ AloneInv)
    BY InitInv, StepInv, AloneStart, AloneStep, PTL DEF Spec
  <1>3. QED
    BY <1>1, <1>2, PTL
=============================================================================
