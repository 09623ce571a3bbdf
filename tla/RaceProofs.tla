----------------------------- MODULE RaceProofs -----------------------------
(***************************************************************************)
(* The inductive invariant of Race, for any number of players and stages   *)
(* and whoever may leave, and what follows from it: the table is sound and *)
(* its rows stand, boards are never ahead of the race, the game ends for   *)
(* all or for nobody, who was seen at the goal is placed above; and, when  *)
(* nobody leaves, the server implements Podium.                            *)
(***************************************************************************)
EXTENDS Race, TLAPS, SequenceTheorems, FiniteSetTheorems

-----------------------------------------------------------------------------
\* The inductive invariant, part by part.

\* A client has closed its connection when and only when its process is gone.
LeftInv == \A i \in Players : cpc[i] = "left" <=> i \in left

\* The loop of enter has passed player i, or has not come to him yet.
Named(i) ==
    \/ spc \in {"params", "loop", "recv", "send", "ending", "exit"}
    \/ spc \in {"prompt", "name"} /\ i \notin todo
NotAsked(i) ==
    i \in todo /\ (spc = "prompt" \/ (spc = "name" /\ ~Turn(i)))

\* Before the server has read the name of a player, nothing but a name is on
\* its way from him; afterwards, nothing but moves.
NameInv ==
    spc # "killed" => \A i \in Players :
        IF Named(i)
        THEN /\ cpc[i] \notin {"prompt", "name"}
             /\ \A k \in 1 .. Len(up[i]) : up[i][k].kind = "move"
        ELSE /\ cpc[i] \in {"prompt", "name", "entry", "left"}
             /\ up[i] # <<>> => cpc[i] \in {"entry", "left"} /\ Len(up[i]) = 1
             /\ cpc[i] \in {"name", "entry"} => down[i] = <<>>
             /\ cpc[i] = "prompt" => Len(down[i]) <= 1
             /\ NotAsked(i) => cpc[i] \in {"prompt", "left"} /\ down[i] = <<>>

\* A player who may still press a key has neither arrived nor crashed.
KeyInv == \A i \in Players : cpc[i] \in Before \cup {"key"} => ~Over(temp[i])

TypeInv == TypeOK /\ LeftInv /\ NameInv /\ KeyInv

Both(r) == ReachedGoal(r) /\ Crashed(r)

\* Nobody arrives and crashes with the same move, and the move that ends a
\* player's race is his last: nothing is queued behind it, and once the server
\* has it nothing more comes.
OverInv ==
    \A i \in Players :
        /\ ~Both(temp[i]) /\ ~Both(p[i])
        /\ \A k \in 1 .. Len(up[i]) : up[i][k].kind = "move" =>
              /\ ~Both(up[i][k].rec)
              /\ Over(up[i][k].rec) => k = Len(up[i]) /\ Over(temp[i])
        /\ Over(p[i]) => up[i] = <<>> /\ Over(temp[i])

\* What select() found readable stays so until it is read.
ReadyInv == spc = "recv" => \A i \in todo : Readable(i)

RankInv ==
    LateLeaver \/
        /\ reached = Cardinality(Finishers)
        /\ crashed = Cardinality(Crashers)
        /\ TableSound

EndInv == spc \in {"ending", "exit"} => EverybodyPlaced

\* NameInv without the server: of a player who is still there, what it says
\* holds when the server has been killed as well.
EarlyInv ==
    \A i \in Players \ left :
        /\ cpc[i] = "prompt" => Len(down[i]) <= 1
        /\ cpc[i] = "name" => down[i] = <<>>
        /\ \/ cpc[i] \notin {"prompt", "name", "entry"}
           \/ cpc[i] = "entry" /\ down[i] # <<>>
           => \A k \in 1 .. Len(up[i]) : up[i][k].kind = "move"

\* Somebody has to leave for the server to be killed.
KilledInv == spc = "killed" => left # {}

\* The server has read a move of player i and not sent him the board yet.
Pending(i) ==
    \/ spc = "recv" /\ i \in readOk \ todo
    \/ spc = "send" /\ i \in todo

PendingInv == spc \in {"recv", "send"} => todo \subseteq readOk

\* A move and its board go round one at a time: the move is on its way to the
\* server, or read and not answered, or the board is on its way to the client,
\* who meanwhile does nothing but wait.  ("garbled" is where a client waits
\* who has taken the grades for his board.)
Waits == {"view", "garbled"}
IsBoard(i, k) == down[i][k].kind = "board"

MoveAt(i) ==
    \A k \in 1 .. Len(up[i]) : up[i][k].kind = "move" =>
        /\ Len(up[i]) = 1
        /\ up[i][k].rec = temp[i]
        /\ cpc[i] \in Waits \cup {"left"}

AnswerAt(i) == Pending(i) => cpc[i] \in Waits /\ up[i] = <<>> /\ p[i] = temp[i]

BoardAt(i) ==
    \A k \in 1 .. Len(down[i]) : IsBoard(i, k) =>
        /\ cpc[i] \in Waits /\ up[i] = <<>> /\ ~Pending(i)
        /\ down[i][k].p[i] = temp[i]
        /\ \A n \in 1 .. Len(down[i]) : IsBoard(i, n) => n = k

HandAt(i) == MoveAt(i) /\ (i \notin left => AnswerAt(i) /\ BoardAt(i))

HandInv == PendingInv /\ \A i \in Players : HandAt(i)

\* Records never go back: from the board a client shows, over the boards on
\* their way to him and what the server has received, to the players themselves.
NotAhead(q, r) == q.stage <= r.stage /\ q.damage <= r.damage

OwnOrder ==
    \A j \in Players :
        NotAhead(p[j], temp[j]) /\ (cpc[j] \in Before => temp[j] = StartRecord)

DownOrder ==
    \A i, j \in Players : \A k \in 1 .. Len(down[i]) :
        IsBoard(i, k) => NotAhead(down[i][k].p[j], p[j])

ViewOrder ==
    \A i, j \in Players :
        view[i][j] = StartRecord \/ NotAhead(view[i][j], p[j])

OrderInv == OwnOrder /\ DownOrder /\ ViewOrder

IInv ==
    /\ TypeInv /\ OverInv /\ ReadyInv /\ RankInv /\ EndInv
    /\ EarlyInv /\ KilledInv /\ HandInv /\ OrderInv /\ EchoInv

-----------------------------------------------------------------------------
\* What a write, a read and a drop do to the streams.
LEMMA SendTyped ==
    ASSUME WireTypeOK, NEW i \in Players, NEW m \in UpMsg
    PROVE  /\ [up EXCEPT ![i] = Append(@, m)] \in [Players -> Seq(UpMsg)]
           /\ Len(Append(up[i], m)) = Len(up[i]) + 1
           /\ Append(up[i], m)[Len(up[i]) + 1] = m
           /\ \A k \in 1 .. Len(up[i]) : Append(up[i], m)[k] = up[i][k]
  <1>1. up[i] \in Seq(UpMsg)
    BY DEF WireTypeOK
  <1>2. QED
    BY <1>1, AppendProperties DEF WireTypeOK

LEMMA WriteTyped ==
    ASSUME WireTypeOK, NEW i \in Players, NEW m \in DownMsg
    PROVE  /\ Written(i, m) \in [Players -> Seq(DownMsg)]
           /\ Len(Append(down[i], m)) = Len(down[i]) + 1
  <1>1. down[i] \in Seq(DownMsg)
    BY DEF WireTypeOK
  <1>2. Append(down[i], m) \in Seq(DownMsg)
    BY <1>1, AppendProperties
  <1>3. QED
    BY <1>1, <1>2, AppendProperties DEF WireTypeOK, Written

LEMMA ReadTyped ==
    ASSUME WireTypeOK, NEW i \in Players, up[i] # <<>>
    PROVE  /\ [up EXCEPT ![i] = Tail(@)] \in [Players -> Seq(UpMsg)]
           /\ Head(up[i]) \in UpMsg
           /\ Head(up[i]) = up[i][1]
           /\ Len(up[i]) \in Nat \ {0}
           /\ Len(Tail(up[i])) = Len(up[i]) - 1
           /\ \A k \in 1 .. Len(up[i]) - 1 : Tail(up[i])[k] = up[i][k + 1]
  <1>1. up[i] \in Seq(UpMsg)
    BY DEF WireTypeOK
  <1>2. /\ Head(up[i]) \in UpMsg
        /\ Tail(up[i]) \in Seq(UpMsg)
        /\ Len(Tail(up[i])) = Len(up[i]) - 1
        /\ \A k \in 1 .. Len(up[i]) - 1 : Tail(up[i])[k] = up[i][k + 1]
    BY <1>1, HeadTailProperties
  <1>3. Len(up[i]) \in Nat \ {0}
    BY <1>1, LenProperties, EmptySeq
  <1>4. QED
    BY <1>1, <1>2, <1>3 DEF WireTypeOK

LEMMA DropTyped ==
    ASSUME WireTypeOK, NEW i \in Players, NEW k \in Taken(i)
    PROVE  /\ Drop(i, k) \in [Players -> Seq(DownMsg)]
           /\ \A j \in Players \ {i} : Drop(i, k)[j] = down[j]
           /\ down[i] # <<>>
           /\ Len(down[i]) <= 1 => Drop(i, k)[i] = <<>>
  <1>1. down[i] \in Seq(DownMsg) /\ k \in Int /\ Len(down[i]) \in Nat
    BY LenProperties DEF WireTypeOK, Taken
  <1>2. \A n \in k + 1 .. Len(down[i]) : down[i][n] \in DownMsg
    BY <1>1, ElementOfSeq DEF Taken
  <1>3. /\ SubSeq(down[i], k + 1, Len(down[i])) \in Seq(DownMsg)
        /\ Len(down[i]) < k + 1 => SubSeq(down[i], k + 1, Len(down[i])) = <<>>
    BY <1>1, <1>2, SubSeqProperties, SubSeqEmpty
  <1>4. down[i] # <<>>
    BY <1>1, EmptySeq DEF Taken
  <1>5. QED
    BY <1>1, <1>3, <1>4 DEF WireTypeOK, Drop, Taken

LEMMA Records ==
    /\ ZeroRecord \in Record /\ StartRecord \in Record
    /\ ~Over(ZeroRecord) /\ ~Over(StartRecord)
    /\ \A r \in Record : ~Over(r) =>
          /\ Moves(r) \subseteq Record
          /\ \A q \in Moves(r) : ~Both(q)
  BY RaceAssumption
  DEF Record, ZeroRecord, StartRecord, Over, ReachedGoal, Crashed, Moves, Both

-----------------------------------------------------------------------------
\* The type invariant.
LEMMA TypeInit == Init => TypeInv
  <1> SUFFICES ASSUME Init PROVE TypeInv
    OBVIOUS
  <1>2. WireTypeOK
    BY EmptySeq DEF Init, WireInit, WireTypeOK
  <1>3. ServerTypeOK
    BY Records
    DEF Init, ServerInit, ServerTypeOK, Running, Stopped, Board, Table, Nobody
  <1>4. ClientTypeOK
    BY Records DEF Init, ClientInit, ClientTypeOK, Before, InPlay, Board
  <1>5. LeftInv /\ KeyInv
    BY Records DEF Init, WireInit, ClientInit, LeftInv, KeyInv
  <1>6. NameInv
    <2>1. ASSUME NEW i \in Players
          PROVE  /\ up[i] = <<>> /\ down[i] = <<>> /\ Len(down[i]) <= 1
                 /\ cpc[i] = "prompt" /\ spc = "prompt" /\ i \in todo
      BY EmptySeq DEF Init, WireInit, ServerInit, ClientInit
    <2>2. QED
      BY <2>1 DEF NameInv, Named
  <1>7. QED
    BY <1>2, <1>3, <1>4, <1>5, <1>6 DEF TypeInv, TypeOK

LEMMA TypePrompt ==
    ASSUME TypeInv, NEW i \in Players, Prompt(i), UNCHANGED client
    PROVE  TypeInv'
  <1> USE DEF TypeInv, Prompt, client
  <1>1. TypeOK'
    BY WriteTyped DEF TypeOK, ServerTypeOK, ClientTypeOK, WireTypeOK, DownMsg, Running
  <1>2. LeftInv' /\ KeyInv'
    BY DEF LeftInv, KeyInv
  <1>3. NameInv'
    BY WriteTyped DEF NameInv, Named, NotAsked, Turn, Written, TypeOK, DownMsg, WireTypeOK
  <1>4. QED
    BY <1>1, <1>2, <1>3

LEMMA TypeReadName ==
    ASSUME TypeInv, NEW i \in Players, ReadName(i), UNCHANGED client
    PROVE  TypeInv'
  <1> USE DEF TypeInv, ReadName, client
  <1>1. TypeOK'
    BY WriteTyped, ReadTyped DEF Advance, TypeOK, ServerTypeOK, ClientTypeOK, WireTypeOK, DownMsg, Running
  <1>2. LeftInv' /\ KeyInv'
    BY DEF LeftInv, KeyInv
  <1>3. spc = "name" /\ i \in todo /\ todo \subseteq Players /\ ~Named(i)
    BY DEF Turn, Named, TypeOK, ServerTypeOK
  <1>4. cpc'[i] \notin {"prompt", "name"} /\ Len(up'[i]) = 0
    <2>1. cpc[i] \notin {"prompt", "name"}
      <3>1. up[i] # <<>> => cpc[i] \in {"entry", "left"}
        BY <1>3 DEF NameInv
      <3>2. up[i] = <<>> => cpc[i] = "left"
        BY DEF LeftInv, Readable
      <3>3. QED
        BY <3>1, <3>2
    <2>2. CASE up[i] = <<>>
      BY <2>1, <2>2, EmptySeq
    <2>3. CASE up[i] # <<>>
      <3>1. Len(up[i]) = 1
        BY <1>3, <2>3 DEF NameInv
      <3>2. up'[i] = Tail(up[i])
        BY <2>3 DEF TypeOK, WireTypeOK
      <3>3. Len(Tail(up[i])) = 0
        BY <2>3, <3>1, ReadTyped DEF TypeOK
      <3>4. cpc' = cpc
        OBVIOUS
      <3>5. QED
        BY <2>1, <3>2, <3>3, <3>4, Zenon
    <2>4. QED
      BY <2>2, <2>3
  <1>5. ASSUME NEW j \in Players, j # i
        PROVE  /\ up'[j] = up[j] /\ down'[j] = down[j] /\ cpc'[j] = cpc[j]
               /\ Named(j)' <=> Named(j)
               /\ NotAsked(j)' => NotAsked(j)
    <2>1. up'[j] = up[j] /\ down'[j] = down[j] /\ cpc'[j] = cpc[j]
      BY <1>5 DEF TypeOK, WireTypeOK, Written
    <2>2. Named(j)' <=> Named(j)
      BY <1>3, <1>5 DEF Named, Advance
    <2>3. j \in todo => ~Turn(j)
      BY <1>3, <1>5 DEF Turn, Players
    <2>4. NotAsked(j)' => NotAsked(j)
      BY <1>3, <1>5, <2>3 DEF NotAsked, Advance
    <2>5. QED
      BY <2>1, <2>2, <2>4
  <1>6. NameInv'
    <2>1. Named(i)'
      BY <1>3 DEF Named, Advance
    <2>2. QED
      BY <1>3, <1>4, <1>5, <2>1 DEF NameInv
  <1>7. QED
    BY <1>1, <1>2, <1>6

LEMMA TypeSendParams ==
    ASSUME TypeInv, NEW i \in Players, SendParams(i), UNCHANGED client
    PROVE  TypeInv'
  <1> USE DEF TypeInv, SendParams, client
  <1>1. TypeOK'
    BY WriteTyped DEF Advance, TypeOK, ServerTypeOK, ClientTypeOK, WireTypeOK,
        DownMsg, Running
  <1>2. LeftInv' /\ KeyInv'
    BY DEF LeftInv, KeyInv
  <1>3. NameInv'
    BY DEF NameInv, Named, Advance
  <1>4. QED
    BY <1>1, <1>2, <1>3

LEMMA TypeSelect ==
    ASSUME TypeInv, Select, UNCHANGED client
    PROVE  TypeInv'
  BY DEF TypeInv, Select, client, wire, TypeOK, ServerTypeOK, ClientTypeOK,
      WireTypeOK, Running, LeftInv, KeyInv, NameInv, Named

\* What recv_data reads from a player who is named is a record.
LEMMA ReceivedTyped ==
    ASSUME TypeInv, NEW i \in Players, spc = "recv"
    PROVE  /\ Received(i) \in Record
           /\ up[i] # <<>> => /\ Head(up[i]) = up[i][1]
                              /\ up[i][1].kind = "move"
                              /\ Received(i) = up[i][1].rec
  <1>1. CASE up[i] = <<>>
    BY <1>1 DEF Received, TypeInv, TypeOK, ServerTypeOK, Board
  <1>2. CASE up[i] # <<>>
    <2>1. /\ Head(up[i]) \in UpMsg /\ Head(up[i]) = up[i][1]
          /\ Len(up[i]) \in Nat \ {0}
      BY <1>2, ReadTyped DEF TypeInv, TypeOK
    <2>2. up[i][1].kind = "move"
      BY <2>1 DEF TypeInv, NameInv, Named
    <2>3. up[i][1] \in [kind : {"move"}, rec : Record]
      BY <2>1, <2>2 DEF UpMsg
    <2>4. QED
      BY <1>2, <2>1, <2>2, <2>3 DEF Received
  <1>3. QED
    BY <1>1, <1>2

\* The two forms of the body of recv_data's loop have this in common.
Reads(i) ==
    /\ spc = "recv" /\ Turn(i)
    /\ p' = [p EXCEPT ![i] = Received(i)]
    /\ reached' \in Nat /\ crashed' \in Nat /\ g' \in Table
    /\ up' = IF up[i] = <<>> THEN up ELSE [up EXCEPT ![i] = Tail(@)]
    /\ Advance(i, "recv", "send", Audience)
    /\ UNCHANGED <<down, left, readOk>>

LEMMA RecvReads ==
    ASSUME TypeInv, NEW i \in Players, Recv(i) \/ RecvOutside(i)
    PROVE  Reads(i)
  <1>1. CASE RecvOutside(i)
    BY <1>1, RaceAssumption
    DEF RecvOutside, Reads, TypeInv, TypeOK, ServerTypeOK
  <1>2. CASE Recv(i)
    <2>1. /\ Crashed(Received(i)) => CrashSlot \in Slots
          /\ ReachedGoal(Received(i)) => GoalSlot \in Slots
      BY <1>2 DEF Recv, Outside
    <2>2. g' \in Table
      BY <1>2, <2>1 DEF Recv, TypeInv, TypeOK, ServerTypeOK, Table
    <2>3. reached' \in Nat /\ crashed' \in Nat
      BY <1>2 DEF Recv, TypeInv, TypeOK, ServerTypeOK
    <2>4. QED
      BY <1>2, <2>2, <2>3 DEF Recv, Reads
  <1>3. QED
    BY <1>1, <1>2

LEMMA TypeRecv ==
    ASSUME TypeInv, NEW i \in Players, Recv(i) \/ RecvOutside(i),
           UNCHANGED client
    PROVE  TypeInv'
  <1>1. Reads(i)
    BY RecvReads
  <1> USE <1>1 DEF TypeInv, Reads, client
  <1>2. Received(i) \in Record
    BY ReceivedTyped
  <1>3. TypeOK'
    BY <1>2, ReadTyped DEF Advance, TypeOK, ServerTypeOK, ClientTypeOK,
        WireTypeOK, Running, Audience, Board
  <1>4. LeftInv' /\ KeyInv'
    BY DEF LeftInv, KeyInv
  <1>5. NameInv'
    <2>1. ASSUME NEW j \in Players
          PROVE  \A k \in 1 .. Len(up'[j]) : up'[j][k].kind = "move"
      <3>1. \A k \in 1 .. Len(up[j]) : up[j][k].kind = "move"
        BY DEF NameInv, Named
      <3>2. CASE j # i \/ up[i] = <<>>
        BY <3>1, <3>2 DEF TypeOK, WireTypeOK
      <3>3. CASE j = i /\ up[i] # <<>>
        <4>1. up[i] \in Seq(UpMsg) /\ up'[i] = Tail(up[i])
          BY <3>3 DEF TypeOK, WireTypeOK
        <4>2. \A k \in 1 .. Len(Tail(up[i])) :
                 k + 1 \in 1 .. Len(up[i]) /\ Tail(up[i])[k] = up[i][k + 1]
          <5> HIDE DEF Reads, TypeInv
          <5>1. QED
            BY <3>3, <4>1
        <4>3. QED
          BY <3>1, <3>3, <4>1, <4>2
      <3>4. QED
        BY <3>2, <3>3
    <2>2. QED
      BY <2>1 DEF NameInv, Named, Advance
  <1>6. QED
    BY <1>3, <1>4, <1>5

LEMMA TypeSend ==
    ASSUME TypeInv, NEW i \in Players, Send(i), UNCHANGED client
    PROVE  TypeInv'
  <1> USE DEF TypeInv, Send, client
  <1>1. TypeOK'
    BY WriteTyped DEF Advance, TypeOK, ServerTypeOK, ClientTypeOK, WireTypeOK,
        DownMsg, Running
  <1>2. LeftInv' /\ KeyInv'
    BY DEF LeftInv, KeyInv
  <1>3. NameInv'
    BY DEF NameInv, Named, Advance
  <1>4. QED
    BY <1>1, <1>2, <1>3

LEMMA TypeEnding ==
    ASSUME TypeInv, UNCHANGED client,
           StartEnding \/ \E i \in Players : SendGrades(i)
    PROVE  TypeInv'
  <1> USE DEF TypeInv, client
  <1>1. CASE StartEnding
    BY <1>1 DEF StartEnding, wire, TypeOK, ServerTypeOK, ClientTypeOK,
        WireTypeOK, Running, LeftInv, KeyInv, NameInv, Named
  <1>2. ASSUME NEW i \in Players, SendGrades(i) PROVE TypeInv'
    <2> USE <1>2 DEF SendGrades
    <2>1. TypeOK'
      BY WriteTyped DEF Advance, TypeOK, ServerTypeOK, ClientTypeOK,
          WireTypeOK, DownMsg, Running, Stopped
    <2>2. LeftInv' /\ KeyInv'
      BY DEF LeftInv, KeyInv
    <2>3. NameInv'
      BY DEF NameInv, Named, Advance
    <2>4. QED
      BY <2>1, <2>2, <2>3
  <1>3. QED
    BY <1>1, <1>2

LEMMA TypeKilled ==
    ASSUME TypeInv, NEW i \in Players, Killed(i), UNCHANGED client
    PROVE  TypeInv'
  BY DEF TypeInv, Killed, client, wire, TypeOK, ServerTypeOK, ClientTypeOK,
      WireTypeOK, Stopped, LeftInv, KeyInv, NameInv

\* A client that drops messages and goes from one place to another.
LEMMA TypeRead ==
    ASSUME TypeInv, NEW i \in Players, NEW k \in Taken(i),
           \/ At(i, "prompt") /\ Goto(i, "name")
           \/ At(i, "entry") /\ Goto(i, "params"),
           down' = Drop(i, k),
           UNCHANGED <<up, left, temp, view, server>>
    PROVE  TypeInv'
  <1> USE DEF TypeInv, At, Goto
  <1>1. TypeOK'
    BY DropTyped DEF TypeOK, WireTypeOK, ServerTypeOK, ClientTypeOK, server,
        Before
  <1>2. LeftInv' /\ KeyInv'
    BY DEF LeftInv, KeyInv, Before, TypeOK, ClientTypeOK
  <1>3. down[i] # <<>> /\ (Len(down[i]) <= 1 => down'[i] = <<>>)
    BY DropTyped DEF TypeOK
  <1>4. \A j \in Players \ {i} : down'[j] = down[j] /\ cpc'[j] = cpc[j]
    BY DropTyped DEF TypeOK, ClientTypeOK
  <1>5. \/ cpc[i] = "prompt" /\ cpc'[i] = "name"
        \/ cpc[i] = "entry" /\ cpc'[i] = "params"
    BY DEF TypeOK, ClientTypeOK
  <1>6. \A j \in Players : (Named(j)' <=> Named(j)) /\ (NotAsked(j)' <=> NotAsked(j))
    BY DEF server, Named, NotAsked, Turn
  <1>7. NameInv'
    BY <1>3, <1>4, <1>5, <1>6 DEF NameInv, server
  <1>8. QED
    BY <1>1, <1>2, <1>7

LEMMA TypeSendName ==
    ASSUME TypeInv, NEW i \in Players, SendName(i), UNCHANGED server
    PROVE  TypeInv'
  <1> USE DEF TypeInv, SendName, At, Goto, Sent
  <1>1. TypeOK'
    BY SendTyped DEF TypeOK, WireTypeOK, ServerTypeOK, ClientTypeOK, server,
        Before, UpMsg
  <1>2. LeftInv' /\ KeyInv'
    BY DEF LeftInv, KeyInv, Before, TypeOK, ClientTypeOK
  <1>3. \A j \in Players \ {i} : up'[j] = up[j] /\ cpc'[j] = cpc[j]
    BY DEF TypeOK, WireTypeOK, ClientTypeOK
  <1>4. cpc'[i] = "entry" /\ up'[i] = Append(up[i], [kind |-> "name"])
    BY DEF TypeOK, WireTypeOK, ClientTypeOK
  <1>5. spc # "killed" => up[i] = <<>> /\ ~Named(i) /\ ~NotAsked(i) /\ down[i] = <<>>
    BY DEF NameInv
  <1>6. up[i] = <<>> => Len(up'[i]) = 1
    BY <1>4, EmptySeq, SendTyped DEF TypeOK, UpMsg
  <1>7. \A j \in Players : (Named(j)' <=> Named(j)) /\ (NotAsked(j)' <=> NotAsked(j))
    BY DEF server, Named, NotAsked, Turn
  <1>8. NameInv'
    BY <1>3, <1>4, <1>5, <1>6, <1>7 DEF NameInv, server
  <1>9. QED
    BY <1>1, <1>2, <1>8

\* A client that is past its entry number does not disturb NameInv as long as
\* it sends nothing but moves.
LEMMA NamePlay ==
    ASSUME TypeInv, NEW i \in Players,
           cpc[i] \notin {"prompt", "name", "entry", "left"},
           cpc'[i] \notin {"prompt", "name"},
           \A j \in Players \ {i} :
              up'[j] = up[j] /\ down'[j] = down[j] /\ cpc'[j] = cpc[j],
           \A k \in 1 .. Len(up'[i]) :
              \/ k \in 1 .. Len(up[i]) /\ up'[i][k] = up[i][k]
              \/ up'[i][k].kind = "move",
           UNCHANGED server
    PROVE  NameInv'
  <1> SUFFICES ASSUME spc # "killed" PROVE NameInv'
    BY DEF NameInv, server
  <1>1. \A j \in Players : (Named(j)' <=> Named(j)) /\ (NotAsked(j)' <=> NotAsked(j))
    BY DEF server, Named, NotAsked, Turn
  <1>2. Named(i)
    BY DEF TypeInv, NameInv
  <1>3. \A k \in 1 .. Len(up'[i]) : up'[i][k].kind = "move"
    BY <1>2 DEF TypeInv, NameInv
  <1>4. QED
    BY <1>1, <1>2, <1>3 DEF TypeInv, NameInv

LEMMA TypeReadParams ==
    ASSUME TypeInv, NEW i \in Players, ReadParams(i), UNCHANGED server
    PROVE  TypeInv'
  <1> USE DEF TypeInv, ReadParams, At, Goto
  <1>1. PICK k \in Taken(i) : down' = Drop(i, k)
    OBVIOUS
  <1>2. TypeOK'
    BY <1>1, DropTyped, Records DEF TypeOK, WireTypeOK, ServerTypeOK,
        ClientTypeOK, server, InPlay, Board
  <1>3. LeftInv' /\ KeyInv'
    BY Records DEF LeftInv, KeyInv, Before, TypeOK, ClientTypeOK
  <1>4. \A j \in Players \ {i} : down'[j] = down[j] /\ cpc'[j] = cpc[j]
    BY <1>1, DropTyped DEF TypeOK, ClientTypeOK
  <1>5. cpc'[i] = "key"
    BY DEF TypeOK, ClientTypeOK
  <1>6. NameInv'
    BY <1>4, <1>5, NamePlay
  <1>7. QED
    BY <1>2, <1>3, <1>6

LEMMA TypeKey ==
    ASSUME TypeInv, NEW i \in Players, Key(i), UNCHANGED server
    PROVE  TypeInv'
  <1> USE DEF TypeInv, Key, At, Goto, Sent
  <1>1. PICK r \in Moves(temp[i]) :
           /\ temp' = [temp EXCEPT ![i] = r]
           /\ up' = Sent(i, [kind |-> "move", rec |-> r])
    OBVIOUS
  <1>2. r \in Record
    BY Records DEF KeyInv, TypeOK, ClientTypeOK
  <1> DEFINE m == [kind |-> "move", rec |-> r]
  <1>3. m \in UpMsg
    BY <1>2 DEF UpMsg
  <1>4. TypeOK'
    BY <1>1, <1>2, <1>3, SendTyped DEF TypeOK, WireTypeOK, ServerTypeOK,
        ClientTypeOK, server, InPlay
  <1>5. LeftInv' /\ KeyInv'
    BY <1>1 DEF LeftInv, KeyInv, Before, TypeOK, ClientTypeOK
  <1>6. \A j \in Players \ {i} : up'[j] = up[j] /\ down'[j] = down[j] /\ cpc'[j] = cpc[j]
    BY <1>1 DEF TypeOK, ClientTypeOK, WireTypeOK
  <1>7. cpc'[i] = "view" /\ up'[i] = Append(up[i], m)
    BY <1>1 DEF TypeOK, ClientTypeOK, WireTypeOK
  <1>8. Len(up[i]) \in Nat
    BY LenProperties DEF TypeOK, WireTypeOK
  <1>9. \A k \in 1 .. Len(up'[i]) :
           \/ k \in 1 .. Len(up[i]) /\ up'[i][k] = up[i][k]
           \/ up'[i][k].kind = "move"
    BY <1>3, <1>7, <1>8, SendTyped DEF TypeOK
  <1>10. NameInv'
    BY <1>6, <1>7, <1>9, NamePlay
  <1>11. QED
    BY <1>4, <1>5, <1>10

LEMMA TypeReadView ==
    ASSUME TypeInv, NEW i \in Players,
           ReadView(i) \/ ReadGrades(i) \/ Garbled(i), UNCHANGED server
    PROVE  TypeInv'
  <1> USE DEF TypeInv, ReadView, ReadGrades, Garbled, At, Goto
  <1>1. /\ 1 \in Taken(i) /\ down' = Drop(i, 1)
        /\ Head(down[i]) \in DownMsg
    <2>1. down[i] \in Seq(DownMsg) /\ down[i] # <<>>
      BY DEF TypeOK, WireTypeOK
    <2>2. Len(down[i]) \in Nat \ {0}
      BY <2>1, LenProperties, EmptySeq
    <2>3. QED
      BY <2>1, <2>2, HeadTailProperties DEF Taken
  <1>2. view' \in [Players -> Board]
    <2>1. CASE ReadView(i)
      <3>1. Head(down[i]) \in [kind : {"board"}, p : Board]
        BY <1>1, <2>1 DEF DownMsg
      <3>2. QED
        BY <2>1, <3>1 DEF TypeOK, ClientTypeOK
    <2>2. QED
      BY <2>1 DEF TypeOK, ClientTypeOK
  <1>3. TypeOK'
    BY <1>1, <1>2, DropTyped DEF TypeOK, WireTypeOK, ServerTypeOK,
        ClientTypeOK, server, InPlay
  <1>4. LeftInv' /\ KeyInv'
    BY DEF LeftInv, KeyInv, Before, TypeOK, ClientTypeOK
  <1>5. \A j \in Players \ {i} : down'[j] = down[j] /\ cpc'[j] = cpc[j]
    BY <1>1, DropTyped DEF TypeOK, ClientTypeOK
  <1>6. /\ cpc[i] \in {"view", "grade"}
        /\ cpc'[i] \in {"key", "grade", "done", "garbled"}
    BY DEF TypeOK, ClientTypeOK
  <1>7. NameInv'
    BY <1>5, <1>6, NamePlay
  <1>8. QED
    BY <1>3, <1>4, <1>7

LEMMA TypeGone ==
    ASSUME TypeInv, NEW i \in Players, Gone(i), UNCHANGED server
    PROVE  TypeInv'
  <1> USE DEF TypeInv, Gone, Goto
  <1>1. TypeOK'
    BY DEF TypeOK, WireTypeOK, ServerTypeOK, ClientTypeOK, server
  <1>2. LeftInv' /\ KeyInv'
    BY DEF LeftInv, KeyInv, Before, TypeOK, ClientTypeOK
  <1>3. \A j \in Players : (Named(j)' <=> Named(j)) /\ (NotAsked(j)' <=> NotAsked(j))
    BY DEF server, Named, NotAsked, Turn
  <1>4. NameInv'
    BY <1>3 DEF NameInv, server, TypeOK, ClientTypeOK
  <1>5. QED
    BY <1>1, <1>2, <1>4

LEMMA TypeStep == TypeInv /\ [Next]_vars => TypeInv'
  <1> SUFFICES ASSUME TypeInv, [Next]_vars PROVE TypeInv'
    OBVIOUS
  <1>1. CASE ServerStep
    BY <1>1, TypePrompt, TypeReadName, TypeSendParams, TypeSelect, TypeRecv,
       TypeSend, TypeEnding DEF ServerStep, Serve
  <1>2. CASE ServerKilled
    BY <1>2, TypeKilled DEF ServerKilled
  <1>3. ASSUME NEW i \in Players, PlayStep(i) PROVE TypeInv'
    <2>1. CASE ReadPrompt(i) \/ ReadEntry(i)
      <3>1. PICK k \in Taken(i) : down' = Drop(i, k)
        BY <2>1 DEF ReadPrompt, ReadEntry
      <3>2. UNCHANGED <<up, left, temp, view, server>>
        BY <1>3, <2>1 DEF ReadPrompt, ReadEntry, PlayStep
      <3>3. \/ At(i, "prompt") /\ Goto(i, "name")
            \/ At(i, "entry") /\ Goto(i, "params")
        BY <2>1 DEF ReadPrompt, ReadEntry
      <3>4. QED
        BY <3>1, <3>2, <3>3, TypeRead
    <2>2. QED
      BY <1>3, <2>1, TypeSendName, TypeReadParams, TypeKey, TypeReadView
      DEF PlayStep, Play
  <1>4. ASSUME NEW i \in Players, QuitStep(i) \/ OrphanStep(i) PROVE TypeInv'
    BY <1>4, TypeGone DEF QuitStep, Quit, OrphanStep, Orphan
  <1>5. CASE UNCHANGED vars
    BY <1>5 DEF vars, wire, server, client, TypeInv, TypeOK, WireTypeOK,
        ServerTypeOK, ClientTypeOK, LeftInv, KeyInv, NameInv, Named, NotAsked,
        Turn
  <1>6. QED
    BY <1>1, <1>2, <1>3, <1>4, <1>5 DEF Next

\* Every variable keeps its type: in particular the server never takes a name
\* for a move, and no client plays on after the goal or the crash.
THEOREM TypeCorrect == Safety => []TypeOK
  <1>1. TypeInv => TypeOK
    BY DEF TypeInv
  <1>2. QED
    BY <1>1, TypeInit, TypeStep, PTL DEF Safety

-----------------------------------------------------------------------------
\* The last move.
LEMMA OverInit == Init => OverInv /\ ReadyInv /\ EndInv
  BY Records, EmptySeq
  DEF Init, WireInit, ServerInit, ClientInit, OverInv, ReadyInv, EndInv, Both,
      Over

LEMMA OverSame ==
    ASSUME OverInv, UNCHANGED <<up, temp, p>> PROVE OverInv'
  BY DEF OverInv

\* A player who may still act sends one message more.
LEMMA OverSent ==
    ASSUME TypeInv, OverInv, NEW i \in Players, NEW m \in UpMsg, NEW r,
           cpc[i] \in Before \cup {"key"}, up' = Sent(i, m),
           temp' = [temp EXCEPT ![i] = r], ~Both(r),
           m.kind = "move" => m.rec = r, UNCHANGED p
    PROVE  OverInv'
  <1>1. /\ ~Over(temp[i]) /\ ~Over(p[i])
        /\ \A k \in 1 .. Len(up[i]) : up[i][k].kind = "move" => ~Over(up[i][k].rec)
    BY DEF TypeInv, KeyInv, OverInv
  <1>2. \A j \in Players \ {i} : up'[j] = up[j] /\ temp'[j] = temp[j]
    BY DEF Sent, TypeInv, TypeOK, WireTypeOK, ClientTypeOK
  <1>3. up'[i] = Append(up[i], m) /\ temp'[i] = r
    BY DEF Sent, TypeInv, TypeOK, WireTypeOK, ClientTypeOK
  <1>4. /\ Len(up[i]) \in Nat /\ Len(up'[i]) = Len(up[i]) + 1
        /\ up'[i][Len(up[i]) + 1] = m
        /\ \A k \in 1 .. Len(up[i]) : up'[i][k] = up[i][k]
    BY <1>3, SendTyped, LenProperties DEF TypeInv, TypeOK, WireTypeOK
  <1>5. ASSUME NEW k \in 1 .. Len(up'[i]), up'[i][k].kind = "move"
        PROVE  /\ ~Both(up'[i][k].rec)
               /\ Over(up'[i][k].rec) => k = Len(up'[i]) /\ Over(temp'[i])
    <2>1. CASE k = Len(up[i]) + 1
      BY <1>3, <1>4, <1>5, <2>1
    <2>2. CASE k \in 1 .. Len(up[i])
      BY <1>1, <1>4, <1>5, <2>2 DEF OverInv
    <2>3. QED
      BY <1>4, <2>1, <2>2
  <1>6. QED
    BY <1>1, <1>2, <1>3, <1>5 DEF OverInv

LEMMA ReadEffect ==
    ASSUME WireTypeOK, NEW i \in Players, up[i] # <<>>,
           up' = [up EXCEPT ![i] = Tail(@)]
    PROVE  /\ Len(up[i]) \in Nat \ {0}
           /\ Len(up'[i]) = Len(up[i]) - 1
           /\ \A k \in 1 .. Len(up[i]) - 1 : up'[i][k] = up[i][k + 1]
           /\ Len(up[i]) = 1 => up'[i] = <<>>
           /\ \A j \in Players \ {i} : up'[j] = up[j]
  <1>1. up'[i] = Tail(up[i]) /\ \A j \in Players \ {i} : up'[j] = up[j]
    BY DEF WireTypeOK
  <1>2. /\ Len(up[i]) \in Nat \ {0}
        /\ Len(Tail(up[i])) = Len(up[i]) - 1
        /\ \A k \in 1 .. Len(up[i]) - 1 : Tail(up[i])[k] = up[i][k + 1]
    BY ReadTyped
  <1>3. Tail(up[i]) \in Seq(UpMsg)
    BY HeadTailProperties DEF WireTypeOK
  <1>4. ASSUME Len(up[i]) = 1 PROVE Tail(up[i]) = <<>>
    <2>1. Len(Tail(up[i])) \notin Nat \ {0}
      BY <1>2, <1>4
    <2>2. QED
      BY <1>3, <2>1, EmptySeq, Zenon
  <1>5. QED
    BY <1>1, <1>2, <1>4, Zenon

LEMMA OverRead ==
    ASSUME TypeInv, OverInv, NEW i \in Players,
           Len(up[i]) \in Nat \ {0},
           Len(up'[i]) = Len(up[i]) - 1,
           \A k \in 1 .. Len(up[i]) - 1 : up'[i][k] = up[i][k + 1],
           Len(up[i]) = 1 => up'[i] = <<>>,
           \A j \in Players \ {i} : up'[j] = up[j] /\ p'[j] = p[j],
           UNCHANGED temp,
           \/ p'[i] = p[i] /\ up[i][1].kind = "name" /\ Len(up[i]) = 1
           \/ up[i][1].kind = "move" /\ p'[i] = up[i][1].rec
    PROVE  OverInv'
  <1>1. ASSUME NEW k \in 1 .. Len(up'[i]), up'[i][k].kind = "move"
        PROVE  /\ ~Both(up'[i][k].rec)
               /\ Over(up'[i][k].rec) => k = Len(up'[i]) /\ Over(temp'[i])
    BY <1>1 DEF OverInv
  <1>2. CASE p'[i] = p[i] /\ Len(up[i]) = 1
    BY <1>1, <1>2 DEF OverInv
  <1>3. CASE up[i][1].kind = "move" /\ p'[i] = up[i][1].rec
    <2>1. 1 \in 1 .. Len(up[i])
      OBVIOUS
    <2>2. /\ ~Both(up[i][1].rec)
          /\ Over(up[i][1].rec) => 1 = Len(up[i]) /\ Over(temp[i])
      BY <1>3, <2>1 DEF OverInv
    <2>3. ~Both(p'[i]) /\ (Over(p'[i]) => up'[i] = <<>> /\ Over(temp'[i]))
      BY <1>3, <2>2
    <2>4. ASSUME NEW j \in Players PROVE ~Both(temp'[j]) /\ ~Both(p'[j])
      BY <2>3 DEF OverInv
    <2>5. ASSUME NEW j \in Players PROVE Over(p'[j]) => up'[j] = <<>> /\ Over(temp'[j])
      BY <2>3 DEF OverInv
    <2>6. ASSUME NEW j \in Players, NEW k \in 1 .. Len(up'[j]), up'[j][k].kind = "move"
          PROVE  /\ ~Both(up'[j][k].rec)
                 /\ Over(up'[j][k].rec) => k = Len(up'[j]) /\ Over(temp'[j])
      BY <1>1, <2>6 DEF OverInv
    <2>7. QED
      BY <2>4, <2>5, <2>6 DEF OverInv
  <1>4. QED
    BY <1>2, <1>3

LEMMA OverServe ==
    ASSUME TypeInv, OverInv, ServerStep
    PROVE  OverInv'
  <1>1. UNCHANGED temp
    BY DEF ServerStep, client
  <1>2. ASSUME NEW i \in Players, ReadName(i) PROVE OverInv'
    <2>1. CASE up[i] = <<>>
      BY <1>1, <1>2, <2>1, OverSame DEF ReadName
    <2>2. CASE up[i] # <<>>
      <3>1. WireTypeOK /\ up' = [up EXCEPT ![i] = Tail(@)] /\ UNCHANGED p
        BY <1>2, <2>2 DEF ReadName, TypeInv, TypeOK
      <3>2. ~Named(i) /\ spc # "killed"
        BY <1>2 DEF ReadName, Turn, Named
      <3>3. Len(up[i]) = 1
        BY <2>2, <3>2 DEF TypeInv, NameInv
      <3>4. QED
        BY <1>1, <2>2, <3>1, <3>3, ReadEffect DEF OverInv
    <2>3. QED
      BY <2>1, <2>2
  <1>3. ASSUME NEW i \in Players, Recv(i) \/ RecvOutside(i) PROVE OverInv'
    <2>1. Reads(i)
      BY <1>3, RecvReads
    <2>2. \A j \in Players \ {i} : p'[j] = p[j]
      BY <2>1 DEF Reads, TypeInv, TypeOK, ServerTypeOK, Board
    <2>3. p'[i] = Received(i)
      BY <2>1 DEF Reads, TypeInv, TypeOK, ServerTypeOK, Board
    <2>4. CASE up[i] = <<>>
      <3>1. UNCHANGED up
        BY <2>1, <2>4 DEF Reads
      <3>2. p'[i] = p[i]
        BY <2>3, <2>4 DEF Received
      <3>3. QED
        BY <1>1, <2>2, <3>1, <3>2 DEF OverInv
    <2>5. CASE up[i] # <<>>
      <3>1. up' = [up EXCEPT ![i] = Tail(@)] /\ spc = "recv"
        BY <2>1, <2>5 DEF Reads
      <3>2. up[i][1].kind = "move" /\ p'[i] = up[i][1].rec
        BY <2>3, <2>5, <3>1, ReceivedTyped
      <3>3. WireTypeOK
        BY DEF TypeInv, TypeOK
      <3>4. QED
        BY <1>1, <2>2, <2>5, <3>1, <3>2, <3>3, ReadEffect, OverRead
    <2>6. QED
      BY <2>4, <2>5
  <1>4. ASSUME NEW i \in Players,
               Prompt(i) \/ SendParams(i) \/ Send(i) \/ SendGrades(i)
        PROVE  OverInv'
    BY <1>1, <1>4, OverSame DEF Prompt, SendParams, Send, SendGrades
  <1>5. ASSUME Select \/ StartEnding PROVE OverInv'
    BY <1>1, <1>5, OverSame DEF Select, StartEnding, wire
  <1>6. QED
    BY <1>2, <1>3, <1>4, <1>5 DEF ServerStep, Serve

LEMMA OverPlay ==
    ASSUME TypeInv, OverInv, NEW i \in Players, PlayStep(i)
    PROVE  OverInv'
  <1> USE DEF PlayStep, server
  <1>1. CASE SendName(i)
    <2>1. [kind |-> "name"] \in UpMsg /\ cpc[i] \in Before
      BY <1>1 DEF SendName, At, UpMsg, Before
    <2>2. temp' = [temp EXCEPT ![i] = temp[i]] /\ ~Both(temp[i])
      BY <1>1 DEF SendName, TypeInv, TypeOK, ClientTypeOK, OverInv
    <2>3. UNCHANGED p /\ up' = Sent(i, [kind |-> "name"])
      BY <1>1 DEF SendName
    <2>4. QED
      BY <2>1, <2>2, <2>3, OverSent
  <1>2. CASE Key(i)
    <2>1. PICK r \in Moves(temp[i]) :
             /\ temp' = [temp EXCEPT ![i] = r]
             /\ up' = Sent(i, [kind |-> "move", rec |-> r])
      BY <1>2 DEF Key
    <2>2. cpc[i] = "key" /\ UNCHANGED p
      BY <1>2 DEF Key, At
    <2>3. r \in Record /\ ~Both(r)
      BY <2>1, <2>2, Records DEF TypeInv, TypeOK, ClientTypeOK, KeyInv
    <2>4. [kind |-> "move", rec |-> r] \in UpMsg
      BY <2>3 DEF UpMsg
    <2>5. QED
      BY <2>1, <2>2, <2>3, <2>4, OverSent
  <1>3. CASE ReadParams(i)
    <2>1. /\ ~Over(temp[i]) /\ UNCHANGED <<up, p>>
          /\ temp' = [temp EXCEPT ![i] = StartRecord]
      BY <1>3 DEF ReadParams, At, TypeInv, KeyInv, Before
    <2>2. ~Both(StartRecord)
      BY Records DEF Both, Over
    <2>3. temp'[i] = StartRecord /\ \A j \in Players \ {i} : temp'[j] = temp[j]
      BY <2>1 DEF TypeInv, TypeOK, ClientTypeOK
    <2>4. QED
      BY <2>1, <2>2, <2>3 DEF OverInv
  <1>4. CASE \/ ReadPrompt(i) \/ ReadEntry(i) \/ ReadView(i) \/ ReadGrades(i)
             \/ Garbled(i)
    BY <1>4, OverSame
    DEF ReadPrompt, ReadEntry, ReadView, ReadGrades, Garbled
  <1>5. QED
    BY <1>1, <1>2, <1>3, <1>4 DEF Play

LEMMA OverStep == TypeInv /\ OverInv /\ [Next]_vars => OverInv'
  <1> SUFFICES ASSUME TypeInv, OverInv, [Next]_vars PROVE OverInv'
    OBVIOUS
  <1>1. CASE UNCHANGED <<up, temp, p>>
    BY <1>1, OverSame
  <1>2. CASE ServerStep
    BY <1>2, OverServe
  <1>3. CASE ServerKilled
    BY <1>1, <1>3 DEF ServerKilled, Killed, wire, client
  <1>4. ASSUME NEW i \in Players, PlayStep(i) PROVE OverInv'
    BY <1>4, OverPlay
  <1>5. ASSUME NEW i \in Players, QuitStep(i) \/ OrphanStep(i) PROVE OverInv'
    BY <1>1, <1>5
    DEF QuitStep, Quit, OrphanStep, Orphan, Gone, server
  <1>6. QED
    BY <1>1, <1>2, <1>3, <1>4, <1>5 DEF Next, vars, wire, server, client

-----------------------------------------------------------------------------
\* What select() has found.
\* No step of a client takes anything out of what it has sent.
LEMMA PlayKeeps ==
    ASSUME TypeInv, NEW i \in Players,
           PlayStep(i) \/ QuitStep(i) \/ OrphanStep(i)
    PROVE  /\ left \subseteq left'
           /\ \A j \in Players : up[j] # <<>> => up'[j] # <<>>
           /\ UNCHANGED server
  <1>1. UNCHANGED server
    BY DEF PlayStep, QuitStep, OrphanStep
  <1>2. CASE UNCHANGED up /\ left \subseteq left'
    BY <1>1, <1>2
  <1>3. ASSUME NEW m \in UpMsg, up' = Sent(i, m), UNCHANGED left
        PROVE  /\ left \subseteq left'
               /\ \A j \in Players : up[j] # <<>> => up'[j] # <<>>
    <2>1. Append(up[i], m) # <<>>
      BY AppendProperties DEF TypeInv, TypeOK, WireTypeOK
    <2>2. QED
      BY <1>3, <2>1 DEF Sent, TypeInv, TypeOK, WireTypeOK
  <1>4. CASE PlayStep(i)
    <2>1. CASE SendName(i)
      BY <1>1, <1>3, <2>1 DEF SendName, UpMsg
    <2>2. CASE Key(i)
      <3>1. PICK r \in Moves(temp[i]) :
               up' = Sent(i, [kind |-> "move", rec |-> r])
        BY <2>2 DEF Key
      <3>2. r \in Record
        BY <2>2, Records DEF TypeInv, TypeOK, ClientTypeOK, KeyInv, Key, At
      <3>3. [kind |-> "move", rec |-> r] \in UpMsg /\ UNCHANGED left
        BY <2>2, <3>2 DEF UpMsg, Key
      <3>4. QED
        BY <1>1, <1>3, <3>1, <3>3
    <2>3. QED
      BY <1>2, <1>4, <2>1, <2>2
      DEF PlayStep, Play, ReadPrompt, ReadEntry, ReadParams, ReadView,
          ReadGrades, Garbled
  <1>5. CASE QuitStep(i) \/ OrphanStep(i)
    BY <1>2, <1>5 DEF QuitStep, Quit, OrphanStep, Orphan, Gone
  <1>6. QED
    BY <1>4, <1>5

LEMMA ReadyStep == TypeInv /\ ReadyInv /\ [Next]_vars => ReadyInv'
  <1> SUFFICES ASSUME TypeInv, ReadyInv, [Next]_vars, spc' = "recv"
               PROVE  \A i \in todo' : Readable(i)'
    BY DEF ReadyInv
  <1>1. ASSUME NEW i \in Players, Recv(i) \/ RecvOutside(i)
        PROVE  \A j \in todo' : Readable(j)'
    <2>1. Reads(i)
      BY <1>1, RecvReads
    <2>2. todo' = todo \ {i} /\ todo \subseteq Players
      BY <2>1 DEF Reads, Advance, TypeInv, TypeOK, ServerTypeOK
    <2>3. \A j \in todo' : up'[j] = up[j]
      BY <2>1, <2>2 DEF Reads, TypeInv, TypeOK, WireTypeOK
    <2>4. QED
      BY <2>1, <2>2, <2>3 DEF Reads, ReadyInv, Readable
  <1>2. CASE Select
    BY <1>2 DEF Select, Readable, wire
  <1>3. CASE ServerStep
    <2>1. ASSUME NEW i \in Players,
                 \/ Prompt(i) \/ ReadName(i) \/ SendParams(i) \/ Send(i)
                 \/ SendGrades(i)
          PROVE  FALSE
      BY <2>1 DEF Prompt, ReadName, SendParams, Send, SendGrades, Advance
    <2>2. QED
      BY <1>1, <1>2, <1>3, <2>1 DEF ServerStep, Serve, StartEnding
  <1>4. CASE ServerKilled
    BY <1>4 DEF ServerKilled, Killed
  <1>5. ASSUME NEW i \in Players,
               PlayStep(i) \/ QuitStep(i) \/ OrphanStep(i)
        PROVE  \A j \in todo' : Readable(j)'
    BY <1>5, PlayKeeps
    DEF ReadyInv, Readable, server, TypeInv, TypeOK, ServerTypeOK
  <1>6. CASE UNCHANGED vars
    BY <1>6 DEF vars, wire, server, ReadyInv, Readable
  <1>7. QED
    BY <1>3, <1>4, <1>5, <1>6 DEF Next

LEMMA EndStep == TypeInv /\ EndInv /\ [Next]_vars => EndInv'
  <1> SUFFICES ASSUME TypeInv, EndInv, [Next]_vars, spc' \in {"ending", "exit"}
               PROVE  EverybodyPlaced'
    BY DEF EndInv
  <1>1. CASE ServerStep
    <2>1. ASSUME NEW i \in Players,
                 Prompt(i) \/ ReadName(i) \/ SendParams(i) \/ Recv(i)
                 \/ RecvOutside(i) \/ Send(i) \/ Select
          PROVE  FALSE
      BY <2>1 DEF Prompt, ReadName, SendParams, Recv, RecvOutside, Send,
          Select, Advance
    <2>2. ASSUME NEW i \in Players, SendGrades(i) PROVE EverybodyPlaced'
      BY <2>2 DEF SendGrades, EndInv, EverybodyPlaced
    <2>3. CASE StartEnding
      BY <2>3 DEF StartEnding, EverybodyPlaced
    <2>4. 0 \in Players
      BY RaceAssumption DEF Players
    <2>5. QED
      BY <1>1, <2>1, <2>2, <2>3, <2>4 DEF ServerStep, Serve
  <1>2. CASE ServerKilled
    BY <1>2 DEF ServerKilled, Killed
  <1>3. CASE UNCHANGED server
    BY <1>3 DEF server, EndInv, EverybodyPlaced
  <1>4. QED
    BY <1>1, <1>2, <1>3 DEF Next, vars, PlayStep, QuitStep, OrphanStep

-----------------------------------------------------------------------------
\* The grade table.
LEMMA PlayersFinite == IsFiniteSet(Players) /\ Cardinality(Players) = Num
  <1>1. 0 \in Int /\ Num - 1 \in Int /\ Num >= 1
    BY RaceAssumption
  <1>2. QED
    BY <1>1, FS_Interval, RaceAssumption DEF Players

LEMMA PlacedFinite ==
    /\ IsFiniteSet(Finishers) /\ IsFiniteSet(Crashers)
    /\ Cardinality(Finishers) \in Nat /\ Cardinality(Crashers) \in Nat
    /\ IsFiniteSet(Finishers \cup Crashers)
    /\ Finishers \cap Crashers = {} =>
          Cardinality(Finishers \cup Crashers)
             = Cardinality(Finishers) + Cardinality(Crashers)
  <1>1. IsFiniteSet(Finishers) /\ IsFiniteSet(Crashers)
    BY PlayersFinite, FS_Subset DEF Finishers, Crashers
  <1>2. Cardinality(Finishers) \in Nat /\ Cardinality(Crashers) \in Nat
    BY <1>1, FS_CardinalityType
  <1>3. /\ IsFiniteSet(Finishers \cup Crashers)
        /\ Cardinality(Finishers \cup Crashers)
              = Cardinality(Finishers) + Cardinality(Crashers)
                - Cardinality(Finishers \cap Crashers)
    BY <1>1, FS_Union
  <1>4. QED
    BY <1>1, <1>2, <1>3, FS_EmptySet

\* As long as somebody is still on the way there is a free row between the two
\* halves of the table.
LEMMA RoomLeft ==
    ASSUME NEW i \in Players, ~Over(p[i]), Finishers \cap Crashers = {},
           reached = Cardinality(Finishers), crashed = Cardinality(Crashers)
    PROVE  reached \in Nat /\ crashed \in Nat /\ reached + crashed < Num
  <1>1. Finishers \cup Crashers \subseteq Players \ {i}
    BY DEF Finishers, Crashers, Over
  <1>2. IsFiniteSet(Players \ {i}) /\ Cardinality(Players \ {i}) = Num - 1
    BY PlayersFinite, FS_RemoveElement
  <1>3. Cardinality(Finishers \cup Crashers) <= Num - 1
    BY <1>1, <1>2, FS_Subset
  <1>4. QED
    BY <1>3, PlacedFinite, RaceAssumption

\* When everybody has been placed, nobody is left out.
LEMMA AllPlaced ==
    ASSUME Finishers \cap Crashers = {}, EverybodyPlaced,
           reached = Cardinality(Finishers), crashed = Cardinality(Crashers)
    PROVE  Finishers \cup Crashers = Players /\ reached + crashed = Num
  <1>1. Finishers \cup Crashers \in SUBSET Players
    BY DEF Finishers, Crashers
  <1>2. Cardinality(Finishers \cup Crashers) <= Num
    BY <1>1, PlayersFinite, FS_Subset
  <1>3. reached + crashed = Num
    BY <1>2, PlacedFinite, RaceAssumption DEF EverybodyPlaced
  <1>4. QED
    BY <1>1, <1>3, PlayersFinite, PlacedFinite, FS_Subset

LEMMA RankInit == Init => RankInv
  <1> SUFFICES ASSUME Init PROVE RankInv
    OBVIOUS
  <1>1. Finishers = {} /\ Crashers = {}
    BY Records
    DEF Init, ServerInit, Finishers, Crashers, Over, ReachedGoal, Crashed
  <1>2. reached = 0 /\ crashed = 0 /\ \A s \in Slots : g[s] = Nobody
    BY DEF Init, ServerInit
  <1>3. GoalSlots = {} /\ CrashSlots = {}
    BY <1>2, RaceAssumption DEF GoalSlots, CrashSlots
  <1>4. QED
    BY <1>1, <1>2, <1>3, FS_EmptySet, RaceAssumption
    DEF RankInv, TableSound, OneToOne

LEMMA LateStable ==
    ASSUME TypeInv, OverInv, [Next]_vars, LateLeaver
    PROVE  LateLeaver'
  <1>1. PICK i \in left : Over(p[i])
    BY DEF LateLeaver
  <1>2. i \in Players /\ up[i] = <<>>
    BY <1>1 DEF TypeInv, TypeOK, WireTypeOK, OverInv
  <1>3. i \in left'
    <2>1. ASSUME NEW j \in Players, PlayStep(j) \/ QuitStep(j) \/ OrphanStep(j)
          PROVE  i \in left'
      BY <1>1, <2>1, PlayKeeps
    <2>2. ASSUME ServerStep \/ ServerKilled \/ UNCHANGED vars
          PROVE  UNCHANGED left
      BY <2>2
      DEF ServerStep, Serve, ServerKilled, Killed, vars, wire, Prompt,
          ReadName, SendParams, Select, Recv, RecvOutside, Send, StartEnding,
          SendGrades
    <2>3. QED
      BY <1>1, <2>1, <2>2 DEF Next
  <1>4. p'[i] = p[i]
    <2>1. ASSUME NEW j \in Players, Recv(j) \/ RecvOutside(j)
          PROVE  p'[i] = p[i]
      <3>1. p' = [p EXCEPT ![j] = Received(j)]
        BY <2>1, RecvReads DEF Reads
      <3>2. Received(i) = p[i]
        BY <1>2 DEF Received
      <3>3. QED
        BY <1>2, <3>1, <3>2 DEF TypeInv, TypeOK, ServerTypeOK, Board
    <2>2. ASSUME NEW j \in Players, PlayStep(j) \/ QuitStep(j) \/ OrphanStep(j)
          PROVE  p'[i] = p[i]
      BY <2>2, PlayKeeps DEF server
    <2>3. CASE ServerKilled \/ UNCHANGED vars
      BY <2>3 DEF ServerKilled, Killed, vars, server
    <2>4. CASE ServerStep
      BY <2>1, <2>4
      DEF ServerStep, Serve, Prompt, ReadName, SendParams, Select, Send,
          StartEnding, SendGrades
    <2>5. QED
      BY <2>1, <2>2, <2>3, <2>4 DEF Next
  <1>5. QED
    BY <1>1, <1>3, <1>4 DEF LateLeaver

\* A record that ends nobody's race, or is the one that was there, changes
\* nothing in the table.
LEMMA RankSame ==
    ASSUME RankInv, ~LateLeaver, UNCHANGED <<p, reached, crashed, g>>
    PROVE  RankInv'
  BY DEF RankInv, TableSound, Finishers, Crashers, GoalSlots, CrashSlots,
      LateLeaver

\* What an entry does to the table: a new row on one side.
LEMMA RankGoal ==
    ASSUME TypeInv, NEW i \in Players, ~Over(p[i]),
           RankInv, ~LateLeaver, p'[i] \in Record,
           ReachedGoal(p'[i]), ~Crashed(p'[i]),
           \A j \in Players \ {i} : p'[j] = p[j],
           reached' = reached + 1, crashed' = crashed,
           g' = [g EXCEPT ![reached] = i]
    PROVE  RankInv'
  <1>1. /\ reached = Cardinality(Finishers)
        /\ crashed = Cardinality(Crashers)
        /\ Finishers \cap Crashers = {}
        /\ OneToOne(g, GoalSlots, Finishers)
        /\ OneToOne(g, CrashSlots, Crashers)
        /\ \A s \in Slots \ (GoalSlots \cup CrashSlots) : g[s] = Nobody
    BY DEF RankInv, TableSound
  <1>2. reached \in Nat /\ crashed \in Nat /\ reached + crashed < Num
    BY <1>1, RoomLeft
  <1>3. Finishers' = Finishers \cup {i} /\ Crashers' = Crashers
    BY DEF Finishers, Crashers, Over
  <1>4. i \notin Finishers /\ i \notin Crashers
    BY DEF Finishers, Crashers, Over
  <1>5. reached' = Cardinality(Finishers') /\ crashed' = Cardinality(Crashers')
    BY <1>1, <1>3, <1>4, PlacedFinite, FS_AddElement
  <1>6. /\ GoalSlots' = GoalSlots \cup {reached} /\ CrashSlots' = CrashSlots
        /\ reached \notin GoalSlots /\ reached \notin CrashSlots
        /\ GoalSlots \subseteq Slots /\ CrashSlots \subseteq Slots
        /\ reached \in Slots
    BY <1>2, RaceAssumption DEF GoalSlots, CrashSlots, Slots
  <1>7. g'[reached] = i /\ \A s \in Slots \ {reached} : g'[s] = g[s]
    BY <1>6 DEF TypeInv, TypeOK, ServerTypeOK, Table
  <1>8. OneToOne(g', GoalSlots', Finishers')
    BY <1>1, <1>3, <1>4, <1>6, <1>7 DEF OneToOne
  <1>9. OneToOne(g', CrashSlots', Crashers')
    BY <1>1, <1>3, <1>6, <1>7 DEF OneToOne
  <1>10. reached' + crashed' <= Num
    BY <1>2, RaceAssumption
  <1>11. \A s \in Slots \ (GoalSlots' \cup CrashSlots') : g'[s] = Nobody
    BY <1>1, <1>6, <1>7
  <1>12. Finishers' \cap Crashers' = {}
    BY <1>1, <1>3, <1>4
  <1>13. QED
    BY <1>5, <1>8, <1>9, <1>10, <1>11, <1>12 DEF RankInv, TableSound, Slots

LEMMA RankCrash ==
    ASSUME TypeInv, NEW i \in Players, ~Over(p[i]),
           RankInv, ~LateLeaver, p'[i] \in Record,
           Crashed(p'[i]), ~ReachedGoal(p'[i]),
           \A j \in Players \ {i} : p'[j] = p[j],
           reached' = reached, crashed' = crashed + 1,
           g' = [g EXCEPT ![CrashSlot] = i]
    PROVE  RankInv'
  <1>1. /\ reached = Cardinality(Finishers)
        /\ crashed = Cardinality(Crashers)
        /\ Finishers \cap Crashers = {}
        /\ OneToOne(g, GoalSlots, Finishers)
        /\ OneToOne(g, CrashSlots, Crashers)
        /\ \A s \in Slots \ (GoalSlots \cup CrashSlots) : g[s] = Nobody
    BY DEF RankInv, TableSound
  <1>2. reached \in Nat /\ crashed \in Nat /\ reached + crashed < Num
    BY <1>1, RoomLeft
  <1>3. Crashers' = Crashers \cup {i} /\ Finishers' = Finishers
    BY DEF Finishers, Crashers, Over
  <1>4. i \notin Finishers /\ i \notin Crashers
    BY DEF Finishers, Crashers, Over
  <1>5. reached' = Cardinality(Finishers') /\ crashed' = Cardinality(Crashers')
    BY <1>1, <1>3, <1>4, PlacedFinite, FS_AddElement
  <1>6. /\ CrashSlots' = CrashSlots \cup {CrashSlot} /\ GoalSlots' = GoalSlots
        /\ CrashSlot \notin GoalSlots /\ CrashSlot \notin CrashSlots
        /\ GoalSlots \subseteq Slots /\ CrashSlots \subseteq Slots
        /\ CrashSlot \in Slots
    BY <1>2, RaceAssumption DEF GoalSlots, CrashSlots, Slots, CrashSlot
  <1>7. g'[CrashSlot] = i /\ \A s \in Slots \ {CrashSlot} : g'[s] = g[s]
    BY <1>6 DEF TypeInv, TypeOK, ServerTypeOK, Table
  <1>8. OneToOne(g', CrashSlots', Crashers')
    BY <1>1, <1>3, <1>4, <1>6, <1>7 DEF OneToOne
  <1>9. OneToOne(g', GoalSlots', Finishers')
    BY <1>1, <1>3, <1>6, <1>7 DEF OneToOne
  <1>10. reached' + crashed' <= Num
    BY <1>2, RaceAssumption
  <1>11. \A s \in Slots \ (GoalSlots' \cup CrashSlots') : g'[s] = Nobody
    BY <1>1, <1>6, <1>7
  <1>12. Finishers' \cap Crashers' = {}
    BY <1>1, <1>3, <1>4
  <1>13. QED
    BY <1>5, <1>8, <1>9, <1>10, <1>11, <1>12 DEF RankInv, TableSound, Slots

\* The body of recv_data's loop, for a player who has something to say and for
\* one who has gone before the end of his race.
LEMMA RankRecv ==
    ASSUME TypeInv, OverInv, OverInv', ReadyInv, RankInv, ~LateLeaver,
           NEW i \in Players, Recv(i) \/ RecvOutside(i)
    PROVE  RankInv'
  <1> DEFINE r == Received(i)
  <1>1. Reads(i)
    BY RecvReads
  <1>2. /\ r \in Record /\ p' = [p EXCEPT ![i] = r] /\ p'[i] = r
        /\ \A j \in Players \ {i} : p'[j] = p[j]
    BY <1>1, ReceivedTyped DEF Reads, TypeInv, TypeOK, ServerTypeOK, Board
  <1>3. ~Over(p[i]) /\ (Over(r) => up[i] # <<>>)
    <2>1. up[i] = <<>> => i \in left
      BY <1>1 DEF Reads, Turn, ReadyInv, Readable
    <2>2. up[i] # <<>> => ~Over(p[i])
      BY DEF OverInv
    <2>3. i \in left => ~Over(p[i])
      BY DEF LateLeaver
    <2>4. up[i] = <<>> => r = p[i]
      BY DEF Received
    <2>5. QED
      BY <2>1, <2>2, <2>3, <2>4
  <1>4. ~Both(r)
    BY <1>2 DEF OverInv
  <1>5. reached \in Nat /\ crashed \in Nat /\ reached + crashed < Num
    BY <1>3, RoomLeft DEF RankInv, TableSound
  <1>6. ~Outside(r)
    BY <1>5, RaceAssumption DEF Outside, CrashSlot, GoalSlot, Slots
  <1>7. Recv(i)
    BY <1>6 DEF RecvOutside
  <1>8. CASE ReachedGoal(r)
    <2>1. ~Crashed(r)
      BY <1>4, <1>8 DEF Both
    <2>2. /\ reached' = reached + 1 /\ crashed' = crashed
          /\ g' = [g EXCEPT ![reached] = i]
      BY <1>7, <1>8, <2>1 DEF Recv, GoalSlot
    <2>3. QED
      BY <1>2, <1>3, <1>8, <2>1, <2>2, RankGoal
  <1>9. CASE Crashed(r)
    <2>1. ~ReachedGoal(r)
      BY <1>4, <1>9 DEF Both
    <2>2. /\ reached' = reached /\ crashed' = crashed + 1
          /\ g' = [g EXCEPT ![CrashSlot] = i]
      BY <1>7, <1>9, <2>1 DEF Recv
    <2>3. QED
      BY <1>2, <1>3, <1>9, <2>1, <2>2, RankCrash
  <1>10. CASE ~Over(r)
    <2>1. UNCHANGED <<reached, crashed, g>>
      BY <1>7, <1>10 DEF Recv, Over
    <2>2. Finishers' = Finishers /\ Crashers' = Crashers
      BY <1>2, <1>3, <1>10 DEF Finishers, Crashers, Over
    <2>3. QED
      BY <2>1, <2>2 DEF RankInv, TableSound, GoalSlots, CrashSlots
  <1>11. QED
    BY <1>8, <1>9, <1>10 DEF Over

LEMMA RankStep ==
    ASSUME TypeInv, OverInv, OverInv', ReadyInv, RankInv, [Next]_vars
    PROVE  RankInv'
  <1>1. CASE LateLeaver
    BY <1>1, LateStable DEF RankInv
  <1>2. CASE ~LateLeaver /\ UNCHANGED <<p, reached, crashed, g>>
    BY <1>2, RankSame
  <1>3. ASSUME ~LateLeaver, NEW i \in Players, Recv(i) \/ RecvOutside(i)
        PROVE  RankInv'
    BY <1>3, RankRecv
  <1>4. CASE ServerStep
    BY <1>1, <1>2, <1>3, <1>4
    DEF ServerStep, Serve, Prompt, ReadName, SendParams, Select, Send,
        StartEnding, SendGrades
  <1>5. CASE ServerKilled \/ UNCHANGED server
    BY <1>1, <1>2, <1>5 DEF ServerKilled, Killed, server
  <1>6. QED
    BY <1>4, <1>5 DEF Next, vars, PlayStep, QuitStep, OrphanStep

-----------------------------------------------------------------------------
-----------------------------------------------------------------------------
\* Moves and boards.
\* What a write and a read do to the stream, message by message.
LEMMA WriteEffect ==
    ASSUME WireTypeOK, NEW i \in Players, NEW m \in DownMsg,
           down' = Written(i, m)
    PROVE  /\ \A j \in Players \ {i} : down'[j] = down[j]
           /\ i \in left => down' = down
           /\ i \notin left =>
                 /\ Len(down[i]) \in Nat /\ Len(down'[i]) = Len(down[i]) + 1
                 /\ down'[i][Len(down[i]) + 1] = m
                 /\ \A k \in 1 .. Len(down[i]) : down'[i][k] = down[i][k]
  <1>1. down[i] \in Seq(DownMsg)
    BY DEF WireTypeOK
  <1>2. i \notin left => down'[i] = Append(down[i], m)
    BY DEF WireTypeOK, Written
  <1>3. \A j \in Players \ {i} : down'[j] = down[j]
    BY DEF WireTypeOK, Written
  <1>4. i \in left => down' = down
    BY DEF Written
  <1>5. QED
    BY <1>1, <1>2, <1>3, <1>4, AppendProperties, LenProperties

LEMMA DropEffect ==
    ASSUME WireTypeOK, NEW i \in Players, NEW k \in Taken(i), down' = Drop(i, k)
    PROVE  /\ \A j \in Players \ {i} : down'[j] = down[j]
           /\ Len(down[i]) \in Nat /\ k \in 1 .. Len(down[i])
           /\ Len(down'[i]) = Len(down[i]) - k
           /\ \A n \in 1 .. Len(down'[i]) :
                 n + k \in 1 .. Len(down[i]) /\ down'[i][n] = down[i][n + k]
           /\ Len(down[i]) <= 1 => down'[i] = <<>>
           /\ down[i] # <<>>
  <1>1. /\ down[i] \in Seq(DownMsg) /\ Len(down[i]) \in Nat
        /\ k \in 1 .. Len(down[i])
    BY LenProperties DEF WireTypeOK, Taken
  <1>2. down'[i] = SubSeq(down[i], k + 1, Len(down[i]))
    BY DEF WireTypeOK, Drop
  <1>3. \A n \in k + 1 .. Len(down[i]) : down[i][n] \in DownMsg
    BY <1>1, ElementOfSeq
  <1>4. /\ Len(SubSeq(down[i], k + 1, Len(down[i]))) = Len(down[i]) - k
        /\ \A n \in 1 .. Len(down[i]) - k :
              SubSeq(down[i], k + 1, Len(down[i]))[n] = down[i][n + k]
    BY <1>1, <1>3, SubSeqProperties
  <1>5. QED
    BY <1>1, <1>2, <1>4, DropTyped

LEMMA FirstTaken ==
    ASSUME WireTypeOK, NEW i \in Players, down[i] # <<>>
    PROVE  1 \in Taken(i) /\ Head(down[i]) = down[i][1]
  <1>1. down[i] \in Seq(DownMsg)
    BY DEF WireTypeOK
  <1>2. Len(down[i]) \in Nat \ {0}
    BY <1>1, LenProperties, EmptySeq
  <1>3. QED
    BY <1>1, <1>2 DEF Taken

\* A client's step touches nothing of the other players.
OthersSame(i) ==
    /\ UNCHANGED server
    /\ \A j \in Players \ {i} :
          /\ up'[j] = up[j] /\ down'[j] = down[j] /\ cpc'[j] = cpc[j]
          /\ temp'[j] = temp[j] /\ view'[j] = view[j]
          /\ j \in left' <=> j \in left

LEMMA PlayOthers ==
    ASSUME TypeInv, NEW i \in Players,
           PlayStep(i) \/ QuitStep(i) \/ OrphanStep(i)
    PROVE  OthersSame(i)
  <1> USE DEF OthersSame, TypeInv, TypeOK, WireTypeOK, ClientTypeOK, Goto, Sent,
              Drop
  <1>1. CASE QuitStep(i) \/ OrphanStep(i)
    BY <1>1 DEF QuitStep, Quit, OrphanStep, Orphan, Gone
  <1>2. CASE PlayStep(i) /\ (ReadPrompt(i) \/ ReadEntry(i) \/ ReadParams(i))
    BY <1>2 DEF PlayStep, ReadPrompt, ReadEntry, ReadParams
  <1>3. CASE PlayStep(i) /\ (SendName(i) \/ Key(i))
    BY <1>3 DEF PlayStep, SendName, Key
  <1>4. CASE PlayStep(i) /\ (ReadView(i) \/ ReadGrades(i) \/ Garbled(i))
    BY <1>4 DEF PlayStep, ReadView, ReadGrades, Garbled
  <1>5. QED
    BY <1>1, <1>2, <1>3, <1>4 DEF PlayStep, Play

\* Only Killed kills.
LEMMA KilledOnly ==
    ASSUME [Next]_vars, spc' = "killed", spc # "killed"
    PROVE  \E i \in Players : Killed(i) /\ UNCHANGED client
  <1>1. ~Serve
    BY DEF Serve, Prompt, ReadName, SendParams, Recv, RecvOutside, Send,
       SendGrades, Select, StartEnding, Advance
  <1>2. QED
    BY <1>1 DEF Next, ServerStep, ServerKilled, PlayStep, QuitStep, OrphanStep,
       vars, server

LEMMA KilledStep == TypeInv /\ KilledInv /\ [Next]_vars => KilledInv'
  <1> SUFFICES ASSUME TypeInv, KilledInv, [Next]_vars, spc' = "killed"
               PROVE  left' # {}
    BY DEF KilledInv
  <1>1. CASE spc # "killed"
    BY <1>1, KilledOnly DEF Killed, wire
  <1>2. CASE spc = "killed"
    <2>1. ~Serve /\ ~ServerKilled
      BY <1>2 DEF Serve, Prompt, ReadName, SendParams, Recv, RecvOutside, Send,
         SendGrades, Select, StartEnding, ServerKilled, Killed
    <2>2. left \subseteq left'
      BY <2>1, PlayKeeps DEF Next, ServerStep, vars, wire
    <2>3. QED
      BY <1>2, <2>2 DEF KilledInv
  <1>3. QED
    BY <1>1, <1>2

LEMMA EarlyStep == TypeInv /\ TypeInv' /\ EarlyInv /\ [Next]_vars => EarlyInv'
  <1> SUFFICES ASSUME TypeInv, TypeInv', EarlyInv, [Next]_vars PROVE EarlyInv'
    OBVIOUS
  <1>1. CASE spc' # "killed"
    BY <1>1, EmptySeq DEF TypeInv, NameInv, LeftInv, EarlyInv
  <1>2. CASE spc' = "killed" /\ spc # "killed"
    BY <1>2, KilledOnly DEF Killed, wire, client, EarlyInv
  <1>3. CASE spc = "killed"
    <2>1. ~Serve /\ ~ServerKilled
      BY <1>3 DEF Serve, Prompt, ReadName, SendParams, Recv, RecvOutside, Send,
         SendGrades, Select, StartEnding, ServerKilled, Killed
    <2>2. CASE UNCHANGED vars
      BY <2>2 DEF vars, wire, client, EarlyInv
    <2>3. ASSUME NEW i \in Players, PlayStep(i) \/ QuitStep(i) \/ OrphanStep(i)
          PROVE  EarlyInv'
      <3> DEFINE Early(j) ==
            /\ cpc[j] = "prompt" => Len(down[j]) <= 1
            /\ cpc[j] = "name" => down[j] = <<>>
            /\ \/ cpc[j] \notin {"prompt", "name", "entry"}
               \/ cpc[j] = "entry" /\ down[j] # <<>>
               => \A k \in 1 .. Len(up[j]) : up[j][k].kind = "move"
      <3>1. \A j \in Players \ {i} : j \notin left' => Early(j)'
        BY <2>3, PlayOthers DEF EarlyInv, OthersSame
      <3>2. CASE QuitStep(i) \/ OrphanStep(i)
        BY <3>1, <3>2 DEF EarlyInv, QuitStep, Quit, OrphanStep, Orphan, Gone
      <3>3. CASE PlayStep(i)
        <4>1. UNCHANGED left /\ (i \notin left => Early(i))
          BY <3>3 DEF EarlyInv, PlayStep, Play, ReadPrompt, SendName, ReadEntry,
             ReadParams, Key, ReadView, ReadGrades, Garbled
        <4>2. ASSUME i \notin left PROVE Early(i)'
          <5>1. CASE ReadPrompt(i)
            <6>1. cpc[i] = "prompt" /\ cpc'[i] = "name"
              BY <5>1 DEF ReadPrompt, At, Goto, TypeInv, TypeOK, ClientTypeOK
            <6>2. down'[i] = <<>>
              BY <4>1, <4>2, <5>1, <6>1, DropEffect
              DEF ReadPrompt, TypeInv, TypeOK
            <6>3. QED
              BY <6>1, <6>2
          <5>2. CASE SendName(i)
            BY <4>1, <4>2, <5>2
            DEF SendName, At, Goto, TypeInv, TypeOK, ClientTypeOK
          <5>3. CASE ReadEntry(i) \/ ReadParams(i)
            <6>1. down[i] # <<>> /\ UNCHANGED up
              BY <5>3, DropEffect DEF ReadEntry, ReadParams, TypeInv, TypeOK
            <6>2. /\ cpc[i] \in {"entry", "params"}
                  /\ cpc'[i] \in {"params", "key"}
              BY <5>3 DEF ReadEntry, ReadParams, At, Goto, TypeInv, TypeOK,
                 ClientTypeOK
            <6>3. QED
              BY <4>1, <4>2, <6>1, <6>2
          <5>4. CASE Key(i)
            <6>1. PICK r \in Moves(temp[i]) :
                     up' = Sent(i, [kind |-> "move", rec |-> r])
              BY <5>4 DEF Key
            <6>2. cpc[i] = "key" /\ cpc'[i] = "view"
              BY <5>4 DEF Key, At, Goto, TypeInv, TypeOK, ClientTypeOK
            <6>3. [kind |-> "move", rec |-> r] \in UpMsg
              BY <6>1, <6>2, Records DEF KeyInv, TypeInv, TypeOK, ClientTypeOK,
                 UpMsg
            <6>4. up'[i] = Append(up[i], [kind |-> "move", rec |-> r])
              BY <6>1 DEF Sent, TypeInv, TypeOK, WireTypeOK
            <6>5. \A k \in 1 .. Len(up[i]) : up[i][k].kind = "move"
              BY <4>1, <4>2, <6>2
            <6>6. \A k \in 1 .. Len(up'[i]) : up'[i][k].kind = "move"
              BY <6>3, <6>4, <6>5, SendTyped, LenProperties
              DEF TypeInv, TypeOK, WireTypeOK
            <6>7. QED
              BY <6>2, <6>6
          <5>5. CASE ReadView(i) \/ ReadGrades(i) \/ Garbled(i)
            <6>1. /\ cpc[i] \in {"view", "grade"} /\ UNCHANGED up
                  /\ cpc'[i] \in {"key", "grade", "done", "garbled"}
              BY <5>5 DEF ReadView, ReadGrades, Garbled, At, Goto, TypeInv,
                 TypeOK, ClientTypeOK
            <6>2. QED
              BY <4>1, <4>2, <6>1
          <5>6. QED
            BY <3>3, <5>1, <5>2, <5>3, <5>4, <5>5 DEF PlayStep, Play
        <4>3. QED
          BY <3>1, <4>1, <4>2 DEF EarlyInv
      <3>4. QED
        BY <2>3, <3>2, <3>3
    <2>4. QED
      BY <2>1, <2>2, <2>3 DEF Next, ServerStep
  <1>4. QED
    BY <1>1, <1>2, <1>3

\* A player who waits for nothing has neither a move nor a board under way,
\* and who has neither is in order.
Calm(i) ==
    /\ \A k \in 1 .. Len(up[i]) : up[i][k].kind # "move"
    /\ i \notin left => ~Pending(i)
    /\ i \notin left => \A k \in 1 .. Len(down[i]) : ~IsBoard(i, k)

LEMMA CalmPlayer ==
    ASSUME NEW i \in Players, HandAt(i), cpc[i] \notin Waits \cup {"left"}
    PROVE  Calm(i)
  BY DEF HandAt, MoveAt, AnswerAt, BoardAt, Calm

LEMMA CalmHand ==
    ASSUME NEW i \in Players, Calm(i)' PROVE HandAt(i)'
  BY DEF HandAt, MoveAt, AnswerAt, BoardAt, Calm

LEMMA HandOthers ==
    ASSUME HandInv, NEW i \in Players, OthersSame(i), HandAt(i)'
    PROVE  HandInv'
  <1>1. \A j \in Players \ {i} : HandAt(j)'
    BY DEF HandInv, OthersSame, HandAt, MoveAt, AnswerAt, BoardAt, IsBoard,
       Pending, server
  <1>2. PendingInv'
    BY DEF HandInv, OthersSame, PendingInv, server
  <1>3. QED
    BY <1>1, <1>2 DEF HandInv

LEMMA HandPlay ==
    ASSUME TypeInv, EarlyInv, HandInv, NEW i \in Players,
           PlayStep(i) \/ QuitStep(i) \/ OrphanStep(i)
    PROVE  HandInv'
  <1>1. OthersSame(i) /\ UNCHANGED server
    BY PlayOthers DEF OthersSame
  <1>2. HandAt(i) /\ (Pending(i)' <=> Pending(i))
    BY <1>1 DEF HandInv, Pending, server
  <1> SUFFICES HandAt(i)'
    BY <1>1, HandOthers
  <1>3. CASE QuitStep(i) \/ OrphanStep(i)
    <2>1. /\ i \in left' /\ cpc'[i] = "left"
          /\ up' = up /\ temp' = temp
      BY <1>3 DEF QuitStep, Quit, OrphanStep, Orphan, Gone, Goto, TypeInv,
         TypeOK, ClientTypeOK
    <2>2. QED
      BY <1>2, <2>1 DEF HandAt, MoveAt
  <1>4. CASE PlayStep(i) /\ (ReadPrompt(i) \/ ReadEntry(i) \/ ReadParams(i)
                             \/ ReadGrades(i))
    <2>1. cpc[i] \notin Waits \cup {"left"} /\ UNCHANGED <<up, left>>
      BY <1>4 DEF ReadPrompt, ReadEntry, ReadParams, ReadGrades, At, Waits
    <2>2. PICK k \in Taken(i) : down' = Drop(i, k)
      BY <1>4, FirstTaken
      DEF ReadPrompt, ReadEntry, ReadParams, ReadGrades, TypeInv, TypeOK
    <2>3. Calm(i)
      BY <1>2, <2>1, CalmPlayer
    <2>4. \A n \in 1 .. Len(down'[i]) :
             n + k \in 1 .. Len(down[i]) /\ down'[i][n] = down[i][n + k]
      BY <2>2, DropEffect DEF TypeInv, TypeOK
    <2>5. \A n \in 1 .. Len(down'[i]) : IsBoard(i, n)' <=> IsBoard(i, n + k)
      BY <2>4 DEF IsBoard
    <2>6. Calm(i)'
      BY <1>2, <2>1, <2>3, <2>4, <2>5 DEF Calm
    <2>7. QED
      BY <2>6, CalmHand
  <1>5. CASE PlayStep(i) /\ SendName(i)
    <2>1. /\ cpc[i] \notin Waits \cup {"left"} /\ UNCHANGED <<down, left>>
          /\ up'[i] = Append(up[i], [kind |-> "name"])
      BY <1>5 DEF SendName, At, Waits, Sent, TypeInv, TypeOK, WireTypeOK
    <2>2. Calm(i)
      BY <1>2, <2>1, CalmPlayer
    <2>3. [kind |-> "name"] \in UpMsg /\ Len(up[i]) \in Nat
      BY LenProperties DEF UpMsg, TypeInv, TypeOK, WireTypeOK
    <2>4. \A k \in 1 .. Len(up'[i]) : up'[i][k].kind # "move"
      BY <2>1, <2>2, <2>3, SendTyped DEF Calm, TypeInv, TypeOK
    <2>5. Calm(i)'
      BY <1>2, <2>1, <2>2, <2>4 DEF Calm, IsBoard
    <2>6. QED
      BY <2>5, CalmHand
  <1>6. CASE PlayStep(i) /\ Key(i)
    <2>1. PICK r \in Moves(temp[i]) :
             /\ temp' = [temp EXCEPT ![i] = r]
             /\ up' = Sent(i, [kind |-> "move", rec |-> r])
      BY <1>6 DEF Key
    <2> DEFINE m == [kind |-> "move", rec |-> r]
    <2>2. /\ cpc[i] = "key" /\ cpc'[i] = "view" /\ UNCHANGED <<down, left>>
          /\ up'[i] = Append(up[i], m) /\ temp'[i] = r
      BY <1>6, <2>1 DEF Key, At, Goto, Sent, TypeInv, TypeOK, WireTypeOK,
         ClientTypeOK
    <2>3. Calm(i) /\ i \notin left
      BY <1>2, <2>2, CalmPlayer DEF Waits, TypeInv, LeftInv
    <2>4. up[i] \in Seq(UpMsg) /\ Len(up[i]) \in Nat
      BY LenProperties DEF TypeInv, TypeOK, WireTypeOK
    <2>5. Len(up[i]) = 0
      BY <2>2, <2>3, <2>4 DEF EarlyInv, Calm
    <2>6. m \in UpMsg
      BY <2>1, <2>2, Records DEF KeyInv, TypeInv, TypeOK, ClientTypeOK, UpMsg
    <2>7. Len(up'[i]) = 1 /\ up'[i][1] = m
      BY <2>2, <2>5, <2>6, SendTyped DEF TypeInv, TypeOK
    <2>8. MoveAt(i)'
      BY <2>2, <2>7 DEF MoveAt, Waits
    <2>9. ~Pending(i)' /\ \A k \in 1 .. Len(down'[i]) : ~IsBoard(i, k)'
      BY <1>2, <2>2, <2>3 DEF Calm, IsBoard
    <2>10. QED
      BY <2>8, <2>9 DEF HandAt, AnswerAt, BoardAt
  <1>7. CASE PlayStep(i) /\ ReadView(i)
    <2>1. /\ cpc[i] = "view" /\ UNCHANGED <<up, left>> /\ down' = Drop(i, 1)
          /\ down[i] # <<>> /\ Head(down[i]).kind = "board"
      BY <1>7 DEF ReadView, At
    <2>2. 1 \in Taken(i) /\ Head(down[i]) = down[i][1]
      BY <2>1, FirstTaken DEF TypeInv, TypeOK
    <2>3. /\ 1 \in 1 .. Len(down[i]) /\ IsBoard(i, 1) /\ Len(down[i]) \in Nat
          /\ \A n \in 1 .. Len(down'[i]) :
                n + 1 \in 1 .. Len(down[i]) /\ down'[i][n] = down[i][n + 1]
      BY <2>1, <2>2, DropEffect DEF IsBoard, TypeInv, TypeOK
    <2>4. i \notin left
      BY <2>1 DEF TypeInv, LeftInv
    <2>5. /\ up[i] = <<>> /\ ~Pending(i)
          /\ \A n \in 1 .. Len(down[i]) : IsBoard(i, n) => n = 1
      BY <1>2, <2>3, <2>4 DEF HandAt, BoardAt
    <2>6. Calm(i)'
      BY <1>2, <2>1, <2>3, <2>5, EmptySeq DEF Calm, IsBoard
    <2>7. QED
      BY <2>6, CalmHand
  <1>8. CASE PlayStep(i) /\ Garbled(i)
    <2>1. /\ cpc[i] = "view" /\ UNCHANGED <<up, left, temp>>
          /\ down' = Drop(i, 1) /\ cpc'[i] = "garbled"
          /\ down[i] # <<>> /\ Head(down[i]).kind = "grades"
      BY <1>8 DEF Garbled, At, Goto, TypeInv, TypeOK, ClientTypeOK
    <2>2. 1 \in Taken(i) /\ Head(down[i]) = down[i][1]
      BY <2>1, FirstTaken DEF TypeInv, TypeOK
    <2>3. \A n \in 1 .. Len(down'[i]) :
             /\ n + 1 \in 1 .. Len(down[i]) /\ down'[i][n] = down[i][n + 1]
             /\ IsBoard(i, n)' <=> IsBoard(i, n + 1)
      BY <2>1, <2>2, DropEffect DEF IsBoard, TypeInv, TypeOK
    <2>4. MoveAt(i)'
      BY <1>2, <2>1 DEF HandAt, MoveAt, Waits
    <2>5. i \notin left => AnswerAt(i)'
      BY <1>1, <1>2, <2>1 DEF HandAt, AnswerAt, Waits, server
    <2>6. i \notin left => BoardAt(i)'
      <3> SUFFICES ASSUME i \notin left, NEW n \in 1 .. Len(down'[i]),
                          IsBoard(i, n)'
                   PROVE  /\ cpc'[i] \in Waits /\ up'[i] = <<>> /\ ~Pending(i)'
                          /\ down'[i][n].p[i] = temp'[i]
                          /\ \A o \in 1 .. Len(down'[i]) :
                                IsBoard(i, o)' => o = n
        BY DEF BoardAt
      <3>1. n + 1 \in 1 .. Len(down[i]) /\ IsBoard(i, n + 1)
        BY <2>3
      <3>2. /\ up[i] = <<>> /\ ~Pending(i) /\ down[i][n + 1].p[i] = temp[i]
            /\ \A o \in 1 .. Len(down[i]) : IsBoard(i, o) => o = n + 1
        BY <1>2, <3>1 DEF HandAt, BoardAt
      <3>3. \A o \in 1 .. Len(down'[i]) : IsBoard(i, o)' => o = n
        BY <2>3, <3>2
      <3>4. QED
        BY <1>2, <2>1, <2>3, <3>2, <3>3 DEF Waits
    <2>7. QED
      BY <2>1, <2>4, <2>5, <2>6 DEF HandAt
  <1>9. QED
    BY <1>3, <1>4, <1>5, <1>6, <1>7, <1>8 DEF PlayStep, Play

\* Server steps outside of recv_data and send_data send no board and receive
\* no move.
LEMMA HandQuiet ==
    ASSUME HandInv, UNCHANGED <<left, cpc, temp, p>>,
           spc' \notin {"recv", "send"},
           \A j \in Players : UNCHANGED up[j] \/ (up'[j] = <<>> /\ Len(up'[j]) = 0),
           \A j \in Players \ left : \A k \in 1 .. Len(down'[j]) :
              down'[j][k].kind = "board" =>
                 k \in 1 .. Len(down[j]) /\ down'[j][k] = down[j][k]
    PROVE  HandInv'
  <1>1. PendingInv' /\ \A j \in Players : ~Pending(j)'
    BY DEF PendingInv, Pending
  <1>2. \A j \in Players : MoveAt(j)'
    BY DEF HandInv, HandAt, MoveAt
  <1>3. ASSUME NEW j \in Players \ left PROVE BoardAt(j)'
    BY <1>1, <1>3 DEF HandInv, HandAt, BoardAt, IsBoard
  <1>4. QED
    BY <1>1, <1>2, <1>3 DEF HandInv, HandAt, AnswerAt

\* A message that is no board.
LEMMA QuietWrite ==
    ASSUME WireTypeOK, NEW i \in Players, NEW m \in DownMsg, m.kind # "board",
           down' = Written(i, m)
    PROVE  \A j \in Players \ left : \A k \in 1 .. Len(down'[j]) :
              down'[j][k].kind = "board" =>
                 k \in 1 .. Len(down[j]) /\ down'[j][k] = down[j][k]
  <1> SUFFICES ASSUME NEW j \in Players \ left, NEW k \in 1 .. Len(down'[j]),
                      down'[j][k].kind = "board"
               PROVE  k \in 1 .. Len(down[j]) /\ down'[j][k] = down[j][k]
    OBVIOUS
  <1>1. CASE j # i
    BY <1>1, WriteEffect
  <1>2. CASE j = i
    BY <1>2, WriteEffect
  <1>3. QED
    BY <1>1, <1>2

LEMMA HandWrites ==
    ASSUME TypeInv, HandInv, UNCHANGED client, NEW i \in Players,
           Prompt(i) \/ ReadName(i) \/ SendParams(i) \/ SendGrades(i)
    PROVE  HandInv'
  <1>1. PICK m \in DownMsg : m.kind # "board" /\ down' = Written(i, m)
    <2>1. /\ [kind |-> "prompt"] \in DownMsg /\ [kind |-> "entry"] \in DownMsg
          /\ [kind |-> "params"] \in DownMsg
          /\ [kind |-> "grades", g |-> g] \in DownMsg
      BY DEF DownMsg, TypeInv, TypeOK, ServerTypeOK
    <2>2. QED
      BY <2>1 DEF Prompt, ReadName, SendParams, SendGrades
  <1>2. /\ UNCHANGED <<left, cpc, temp, p>> /\ spc' \notin {"recv", "send"}
    BY DEF Prompt, ReadName, SendParams, SendGrades, Advance, client
  <1>3. \A j \in Players : UNCHANGED up[j] \/ (up'[j] = <<>> /\ Len(up'[j]) = 0)
    <2>1. CASE UNCHANGED up
      BY <2>1
    <2>2. CASE ReadName(i) /\ up[i] # <<>>
      <3>1. up' = [up EXCEPT ![i] = Tail(@)] /\ spc = "name" /\ Turn(i)
        BY <2>2 DEF ReadName
      <3>2. Len(up[i]) = 1
        BY <2>2, <3>1 DEF TypeInv, NameInv, Named, Turn
      <3>3. up'[i] = <<>> /\ Len(up'[i]) = 0
        BY <2>2, <3>1, <3>2, ReadEffect DEF TypeInv, TypeOK
      <3>4. \A j \in Players \ {i} : up'[j] = up[j]
        BY <3>1 DEF TypeInv, TypeOK, WireTypeOK
      <3>5. QED
        BY <3>3, <3>4
    <2>3. QED
      BY <2>1, <2>2 DEF Prompt, ReadName, SendParams, SendGrades
  <1>4. QED
    BY <1>1, <1>2, <1>3, QuietWrite, HandQuiet DEF TypeInv, TypeOK

LEMMA HandRecv ==
    ASSUME TypeInv, ReadyInv, HandInv, UNCHANGED client,
           NEW i \in Players, Recv(i) \/ RecvOutside(i)
    PROVE  HandInv'
  <1>1. Reads(i) /\ spc = "recv" /\ i \in todo /\ UNCHANGED <<down, left, readOk>>
    BY RecvReads DEF Reads, Turn
  <1>2. todo \subseteq readOk
    BY <1>1 DEF HandInv, PendingInv
  <1>3. PendingInv'
    BY <1>1, <1>2 DEF Reads, Advance, Audience, PendingInv
  <1>4. p'[i] = Received(i) /\ \A j \in Players \ {i} : p'[j] = p[j]
    BY <1>1 DEF Reads, TypeInv, TypeOK, ServerTypeOK, Board
  <1>5. \A j \in Players \ {i} : UNCHANGED up[j] /\ (Pending(j)' <=> Pending(j))
    BY <1>1, <1>2 DEF Reads, Advance, Audience, Pending, TypeInv, TypeOK,
       WireTypeOK
  <1>6. UNCHANGED <<cpc, temp>>
    BY DEF client
  <1>7. \A j \in Players \ {i} : HandAt(j)'
    BY <1>1, <1>4, <1>5, <1>6
    DEF HandInv, HandAt, MoveAt, AnswerAt, BoardAt, IsBoard
  <1>8. CASE up[i] = <<>>
    <2>1. i \in left /\ UNCHANGED up
      BY <1>1, <1>8 DEF Reads, ReadyInv, Readable
    <2>2. HandAt(i)'
      BY <1>1, <1>6, <2>1 DEF HandInv, HandAt, MoveAt
    <2>3. QED
      BY <1>3, <1>7, <2>2 DEF HandInv
  <1>9. CASE up[i] # <<>>
    <2>1. /\ up[i][1].kind = "move" /\ Received(i) = up[i][1].rec
          /\ up' = [up EXCEPT ![i] = Tail(@)]
      BY <1>1, <1>9, ReceivedTyped DEF Reads
    <2>2. Len(up[i]) \in Nat \ {0}
      BY <1>9, ReadTyped DEF TypeInv, TypeOK
    <2>3. /\ Len(up[i]) = 1 /\ Received(i) = temp[i]
          /\ cpc[i] \in Waits \cup {"left"}
      BY <2>1, <2>2 DEF HandInv, HandAt, MoveAt
    <2>4. up'[i] = <<>> /\ Len(up'[i]) = 0
      BY <1>9, <2>1, <2>3, ReadEffect DEF TypeInv, TypeOK
    <2>5. i \notin left => \A k \in 1 .. Len(down[i]) : ~IsBoard(i, k)
      BY <1>9 DEF HandInv, HandAt, BoardAt
    <2>6. MoveAt(i)'
      BY <2>4 DEF MoveAt
    <2>7. i \notin left => AnswerAt(i)'
      BY <1>4, <1>6, <2>3, <2>4 DEF AnswerAt, TypeInv, LeftInv
    <2>8. i \notin left => BoardAt(i)'
      BY <1>1, <2>5 DEF BoardAt, IsBoard
    <2>9. QED
      BY <1>1, <1>3, <1>7, <2>6, <2>7, <2>8 DEF HandInv, HandAt
  <1>10. QED
    BY <1>8, <1>9

LEMMA HandSend ==
    ASSUME TypeInv, HandInv, UNCHANGED client, NEW i \in Players, Send(i)
    PROVE  HandInv'
  <1> DEFINE m == [kind |-> "board", p |-> p]
  <1>1. /\ spc = "send" /\ i \in todo /\ down' = Written(i, m)
        /\ UNCHANGED <<up, left, readOk, p, cpc, temp>>
    BY DEF Send, Turn, client
  <1>2. m \in DownMsg
    BY DEF DownMsg, TypeInv, TypeOK, ServerTypeOK
  <1>3. PendingInv'
    BY <1>1 DEF Send, Advance, HandInv, PendingInv
  <1>4. ~Pending(i)' /\ \A j \in Players \ {i} : Pending(j)' <=> Pending(j)
    BY <1>1 DEF Send, Advance, Pending
  <1>5. /\ \A j \in Players \ {i} : UNCHANGED down[j]
        /\ i \notin left =>
              /\ Len(down[i]) \in Nat /\ Len(down'[i]) = Len(down[i]) + 1
              /\ down'[i][Len(down[i]) + 1] = m
              /\ \A k \in 1 .. Len(down[i]) : down'[i][k] = down[i][k]
    BY <1>1, <1>2, WriteEffect DEF TypeInv, TypeOK
  <1>6. \A j \in Players \ {i} : HandAt(j)'
    BY <1>1, <1>4, <1>5
    DEF HandInv, HandAt, MoveAt, AnswerAt, BoardAt, IsBoard
  <1>7. MoveAt(i)'
    BY <1>1 DEF HandInv, HandAt, MoveAt
  <1>8. i \notin left => AnswerAt(i)' /\ BoardAt(i)'
    <2> SUFFICES ASSUME i \notin left PROVE AnswerAt(i)' /\ BoardAt(i)'
      OBVIOUS
    <2>1. Pending(i)
      BY <1>1 DEF Pending
    <2>2. /\ cpc[i] \in Waits /\ up[i] = <<>> /\ p[i] = temp[i]
          /\ \A k \in 1 .. Len(down[i]) : ~IsBoard(i, k)
      BY <2>1 DEF HandInv, HandAt, AnswerAt, BoardAt
    <2>3. \A k \in 1 .. Len(down'[i]) : IsBoard(i, k)' => k = Len(down[i]) + 1
      BY <1>5, <2>2 DEF IsBoard
    <2>4. QED
      BY <1>1, <1>4, <1>5, <2>2, <2>3 DEF AnswerAt, BoardAt
  <1>9. QED
    BY <1>1, <1>3, <1>6, <1>7, <1>8 DEF HandInv, HandAt

LEMMA HandStep ==
    TypeInv /\ ReadyInv /\ EarlyInv /\ HandInv /\ [Next]_vars => HandInv'
  <1> SUFFICES ASSUME TypeInv, ReadyInv, EarlyInv, HandInv, [Next]_vars
               PROVE  HandInv'
    OBVIOUS
  <1>1. ASSUME Select \/ StartEnding \/ ServerKilled, UNCHANGED client
        PROVE  HandInv'
    <2>1. UNCHANGED <<wire, p>>
      BY <1>1 DEF Select, StartEnding, ServerKilled, Killed
    <2>2. CASE spc' \notin {"recv", "send"}
      BY <1>1, <2>1, <2>2, HandQuiet DEF wire, client
    <2>3. CASE Select
      <3>1. /\ spc' = "recv" /\ todo' = readOk' /\ spc = "loop"
        BY <2>3 DEF Select
      <3>2. PendingInv' /\ \A i \in Players : ~Pending(i)' /\ ~Pending(i)
        BY <3>1 DEF PendingInv, Pending
      <3>3. QED
        BY <1>1, <2>1, <3>2
        DEF wire, client, HandInv, HandAt, MoveAt, AnswerAt, BoardAt, IsBoard
    <2>4. QED
      BY <1>1, <2>2, <2>3 DEF StartEnding, ServerKilled, Killed
  <1>2. CASE ServerStep
    BY <1>1, <1>2, HandWrites, HandRecv, HandSend DEF ServerStep, Serve
  <1>3. CASE UNCHANGED vars
    BY <1>3 DEF vars, wire, server, client, HandInv, PendingInv, Pending, HandAt,
       MoveAt, AnswerAt, BoardAt, IsBoard
  <1>4. QED
    BY <1>1, <1>2, <1>3, HandPlay DEF Next, ServerKilled

-----------------------------------------------------------------------------
\* Records never go back.
LEMMA AheadOrder ==
    \A q, r, t \in Record :
        NotAhead(q, q) /\ (NotAhead(q, r) /\ NotAhead(r, t) => NotAhead(q, t))
  BY RaceAssumption DEF NotAhead, Record

LEMMA MovesAhead ==
    \A q \in Record : ~Over(q) =>
        \A r \in Moves(q) : r \in Record /\ NotAhead(q, r)
  <1> SUFFICES ASSUME NEW q \in Record, ~Over(q), NEW r \in Moves(q)
               PROVE  r \in Record /\ NotAhead(q, r)
    OBVIOUS
  <1>1. r \in Record
    BY Records
  <1>2. NotAhead(q, r)
    BY RaceAssumption DEF Moves, NotAhead, Record
  <1>3. QED
    BY <1>1, <1>2

LEMMA BoardTyped ==
    ASSUME WireTypeOK, NEW i \in Players, NEW k \in 1 .. Len(down[i]),
           IsBoard(i, k)
    PROVE  down[i][k].p \in Board
  <1>1. down[i][k] \in DownMsg
    BY ElementOfSeq DEF WireTypeOK
  <1>2. down[i][k] \in [kind : {"board"}, p : Board]
    BY <1>1 DEF IsBoard, DownMsg
  <1>3. QED
    BY <1>2

\* What the server takes for a player's record only grows, and stays behind the
\* player, whose own record grows too.
LEMMA RecvOrder ==
    ASSUME TypeInv, ReadyInv, HandInv, OwnOrder, UNCHANGED client,
           NEW i \in Players, Recv(i) \/ RecvOutside(i)
    PROVE  \A j \in Players :
              p'[j] \in Record /\ NotAhead(p[j], p'[j]) /\ NotAhead(p'[j], temp[j])
  <1>1. Reads(i) /\ spc = "recv"
    BY RecvReads DEF Reads
  <1>2. p \in Board /\ temp \in Board
    BY DEF TypeInv, TypeOK, ServerTypeOK, ClientTypeOK, Board
  <1>3. p'[i] = Received(i) /\ \A j \in Players \ {i} : p'[j] = p[j]
    BY <1>1, <1>2 DEF Reads, Board
  <1>4. Received(i) = p[i] \/ Received(i) = temp[i]
    <2>1. CASE up[i] = <<>>
      BY <2>1 DEF Received
    <2>2. CASE up[i] # <<>>
      BY <1>1, <2>2, ReceivedTyped, ReadTyped
      DEF HandInv, HandAt, MoveAt, TypeInv, TypeOK
    <2>3. QED
      BY <2>1, <2>2
  <1>5. \A j \in Players : /\ p[j] \in Record /\ temp[j] \in Record
                           /\ NotAhead(p[j], temp[j])
    BY <1>2 DEF Board, OwnOrder
  <1>6. QED
    BY <1>3, <1>4, <1>5, AheadOrder

LEMMA PUnchanged ==
    ASSUME NEW i \in Players,
           Prompt(i) \/ ReadName(i) \/ SendParams(i) \/ Send(i) \/ SendGrades(i)
    PROVE  UNCHANGED p
  BY DEF Prompt, ReadName, SendParams, Send, SendGrades

LEMMA RecordsGrow ==
    ASSUME TypeInv, ReadyInv, HandInv, OwnOrder, [Next]_vars
    PROVE  \A j \in Players : p'[j] \in Record /\ NotAhead(p[j], p'[j])
  <1>1. CASE UNCHANGED p
    BY <1>1, AheadOrder DEF TypeInv, TypeOK, ServerTypeOK, Board
  <1>2. CASE ServerStep
    BY <1>1, <1>2, RecvOrder, PUnchanged
    DEF ServerStep, Serve, Select, StartEnding
  <1>3. QED
    BY <1>1, <1>2 DEF Next, vars, server, ServerKilled, Killed, PlayStep,
       QuitStep, OrphanStep

LEMMA OwnStep ==
    TypeInv /\ ReadyInv /\ HandInv /\ OwnOrder /\ [Next]_vars => OwnOrder'
  <1> SUFFICES ASSUME TypeInv, ReadyInv, HandInv, OwnOrder, [Next]_vars
               PROVE  OwnOrder'
    OBVIOUS
  <1>1. CASE UNCHANGED <<p, temp, cpc>>
    BY <1>1 DEF OwnOrder
  <1>2. ASSUME NEW i \in Players, Recv(i) \/ RecvOutside(i), UNCHANGED client
        PROVE  OwnOrder'
    BY <1>2, RecvOrder DEF OwnOrder, client
  <1>3. CASE ServerStep
    BY <1>1, <1>2, <1>3, PUnchanged
    DEF ServerStep, Serve, Select, StartEnding, client
  <1>4. ASSUME NEW i \in Players, PlayStep(i) \/ QuitStep(i) \/ OrphanStep(i)
        PROVE  OwnOrder'
    <2>1. OthersSame(i) /\ UNCHANGED p
      BY <1>4, PlayOthers DEF OthersSame, server
    <2>2. SUFFICES /\ NotAhead(p[i], temp'[i])
                   /\ cpc'[i] \in Before => temp'[i] = StartRecord
      BY <2>1 DEF OwnOrder, OthersSame
    <2>3. /\ p[i] \in Record /\ temp[i] \in Record /\ NotAhead(p[i], temp[i])
          /\ cpc[i] \in Before => temp[i] = StartRecord
      BY DEF TypeInv, TypeOK, ServerTypeOK, ClientTypeOK, Board, OwnOrder
    <2>4. CASE PlayStep(i) /\ Key(i)
      <3>1. PICK r \in Moves(temp[i]) : temp' = [temp EXCEPT ![i] = r]
        BY <2>4 DEF Key
      <3>2. /\ cpc[i] = "key" /\ cpc'[i] \notin Before /\ temp'[i] = r
        BY <2>4, <3>1 DEF Key, At, Goto, TypeInv, TypeOK, ClientTypeOK, Before
      <3>3. r \in Record /\ NotAhead(temp[i], r)
        BY <2>3, <3>2, MovesAhead DEF TypeInv, KeyInv
      <3>4. QED
        BY <2>3, <3>2, <3>3, AheadOrder
    <2>5. CASE PlayStep(i) /\ ReadParams(i)
      BY <2>3, <2>5
      DEF ReadParams, At, Goto, TypeInv, TypeOK, ClientTypeOK, Before
    <2>6. CASE PlayStep(i) /\ (ReadPrompt(i) \/ SendName(i) \/ ReadEntry(i))
      BY <2>3, <2>6
      DEF ReadPrompt, SendName, ReadEntry, At, Before
    <2>7. CASE PlayStep(i) /\ (ReadView(i) \/ ReadGrades(i) \/ Garbled(i))
      BY <2>3, <2>7
      DEF ReadView, ReadGrades, Garbled, At, Goto, TypeInv, TypeOK,
          ClientTypeOK, Before
    <2>8. CASE QuitStep(i) \/ OrphanStep(i)
      BY <2>3, <2>8
      DEF QuitStep, Quit, OrphanStep, Orphan, Gone, Goto, TypeInv, TypeOK,
          ClientTypeOK, Before
    <2>9. QED
      BY <1>4, <2>4, <2>5, <2>6, <2>7, <2>8 DEF PlayStep, Play
  <1>5. QED
    BY <1>1, <1>3, <1>4 DEF Next, vars, server, client, ServerKilled, Killed

\* Every board on its way after a step was on its way before, or is what the
\* server knows.
LEMMA BoardsFrom ==
    ASSUME TypeInv, [Next]_vars, NEW i \in Players,
           NEW n \in 1 .. Len(down'[i]), IsBoard(i, n)'
    PROVE  \/ \E k \in 1 .. Len(down[i]) :
                 IsBoard(i, k) /\ down'[i][n] = down[i][k]
           \/ down'[i][n].p = p
  <1>1. CASE UNCHANGED down
    BY <1>1 DEF IsBoard
  <1>2. ASSUME NEW h \in Players, NEW m \in DownMsg, down' = Written(h, m),
               m.kind = "board" => m.p = p
        PROVE  \/ \E k \in 1 .. Len(down[i]) :
                     IsBoard(i, k) /\ down'[i][n] = down[i][k]
               \/ down'[i][n].p = p
    <2>1. CASE i # h \/ h \in left
      BY <1>2, <2>1, WriteEffect DEF TypeInv, TypeOK, IsBoard
    <2>2. CASE i = h /\ h \notin left
      <3>1. /\ Len(down[i]) \in Nat /\ Len(down'[i]) = Len(down[i]) + 1
            /\ down'[i][Len(down[i]) + 1] = m
            /\ \A k \in 1 .. Len(down[i]) : down'[i][k] = down[i][k]
        BY <1>2, <2>2, WriteEffect DEF TypeInv, TypeOK
      <3>2. CASE n = Len(down[i]) + 1
        BY <1>2, <3>1, <3>2 DEF IsBoard
      <3>3. CASE n \in 1 .. Len(down[i])
        BY <3>1, <3>3 DEF IsBoard
      <3>4. QED
        BY <3>1, <3>2, <3>3
    <2>3. QED
      BY <2>1, <2>2
  <1>3. ASSUME NEW h \in Players,
               \/ Prompt(h) \/ ReadName(h) \/ SendParams(h) \/ Send(h)
               \/ SendGrades(h)
        PROVE  \E m \in DownMsg :
                  down' = Written(h, m) /\ (m.kind = "board" => m.p = p)
    <2>1. /\ [kind |-> "prompt"] \in DownMsg /\ [kind |-> "entry"] \in DownMsg
          /\ [kind |-> "params"] \in DownMsg
          /\ [kind |-> "grades", g |-> g] \in DownMsg
          /\ [kind |-> "board", p |-> p] \in DownMsg
      BY DEF DownMsg, TypeInv, TypeOK, ServerTypeOK
    <2>2. QED
      BY <1>3, <2>1 DEF Prompt, ReadName, SendParams, Send, SendGrades
  <1>4. CASE ServerStep
    BY <1>1, <1>2, <1>3, <1>4
    DEF ServerStep, Serve, Recv, RecvOutside, Select, StartEnding, wire
  <1>5. ASSUME NEW h \in Players, PlayStep(h)
        PROVE  \/ \E k \in 1 .. Len(down[i]) :
                     IsBoard(i, k) /\ down'[i][n] = down[i][k]
               \/ down'[i][n].p = p
    <2>1. CASE SendName(h) \/ Key(h)
      BY <1>1, <2>1 DEF SendName, Key
    <2>2. ASSUME NEW k \in Taken(h), down' = Drop(h, k)
          PROVE  \E o \in 1 .. Len(down[i]) :
                     IsBoard(i, o) /\ down'[i][n] = down[i][o]
      <3>1. CASE h # i
        BY <2>2, <3>1, DropEffect DEF TypeInv, TypeOK, IsBoard
      <3>2. CASE h = i
        <4>1. n + k \in 1 .. Len(down[i]) /\ down'[i][n] = down[i][n + k]
          BY <2>2, <3>2, DropEffect DEF TypeInv, TypeOK
        <4>2. IsBoard(i, n + k)
          BY <4>1 DEF IsBoard
        <4>3. QED
          BY <4>1, <4>2
      <3>3. QED
        BY <3>1, <3>2
    <2>3. CASE ReadPrompt(h) \/ ReadEntry(h) \/ ReadParams(h)
      BY <2>2, <2>3 DEF ReadPrompt, ReadEntry, ReadParams
    <2>4. CASE ReadView(h) \/ ReadGrades(h) \/ Garbled(h)
      BY <2>2, <2>4, FirstTaken
      DEF ReadView, ReadGrades, Garbled, TypeInv, TypeOK
    <2>5. QED
      BY <1>5, <2>1, <2>3, <2>4 DEF PlayStep, Play
  <1>6. QED
    BY <1>1, <1>4, <1>5
    DEF Next, vars, wire, ServerKilled, Killed, QuitStep, Quit, OrphanStep,
        Orphan, Gone

LEMMA DownStep ==
    ASSUME TypeInv, ReadyInv, HandInv, OwnOrder, DownOrder, [Next]_vars
    PROVE  DownOrder'
  <1> SUFFICES ASSUME NEW i \in Players, NEW j \in Players,
                      NEW n \in 1 .. Len(down'[i]), IsBoard(i, n)'
               PROVE  NotAhead(down'[i][n].p[j], p'[j])
    BY DEF DownOrder
  <1>1. p[j] \in Record /\ p'[j] \in Record /\ NotAhead(p[j], p'[j])
    BY RecordsGrow DEF TypeInv, TypeOK, ServerTypeOK, Board
  <1>2. ASSUME NEW k \in 1 .. Len(down[i]), IsBoard(i, k),
               down'[i][n] = down[i][k]
        PROVE  NotAhead(down'[i][n].p[j], p'[j])
    <2>1. down[i][k].p[j] \in Record
      BY <1>2, BoardTyped DEF TypeInv, TypeOK, Board
    <2>2. NotAhead(down[i][k].p[j], p[j])
      BY <1>2 DEF DownOrder
    <2>3. QED
      BY <1>1, <1>2, <2>1, <2>2, AheadOrder
  <1>3. QED
    BY <1>1, <1>2, BoardsFrom

LEMMA ViewStep ==
    ASSUME TypeInv, ReadyInv, HandInv, OwnOrder, DownOrder, ViewOrder,
           [Next]_vars
    PROVE  ViewOrder'
  <1> SUFFICES ASSUME NEW i \in Players, NEW j \in Players
               PROVE  view'[i][j] = StartRecord \/ NotAhead(view'[i][j], p'[j])
    BY DEF ViewOrder
  <1>1. p[j] \in Record /\ p'[j] \in Record /\ NotAhead(p[j], p'[j])
    BY RecordsGrow DEF TypeInv, TypeOK, ServerTypeOK, Board
  <1>2. CASE view'[i] = view[i]
    <2>1. view[i][j] \in Record
      BY DEF TypeInv, TypeOK, ClientTypeOK, Board
    <2>2. QED
      BY <1>1, <1>2, <2>1, AheadOrder DEF ViewOrder
  <1>3. CASE PlayStep(i) /\ ReadParams(i)
    BY <1>3 DEF ReadParams, TypeInv, TypeOK, ClientTypeOK
  <1>4. CASE PlayStep(i) /\ ReadView(i)
    <2>1. /\ down[i] # <<>> /\ Head(down[i]).kind = "board"
          /\ view'[i] = Head(down[i]).p
      BY <1>4 DEF ReadView, TypeInv, TypeOK, ClientTypeOK
    <2>2. /\ 1 \in 1 .. Len(down[i]) /\ IsBoard(i, 1)
          /\ view'[i] = down[i][1].p
      BY <2>1, FirstTaken DEF IsBoard, Taken, TypeInv, TypeOK
    <2>3. view'[i][j] \in Record /\ NotAhead(view'[i][j], p[j])
      BY <2>2, BoardTyped DEF DownOrder, TypeInv, TypeOK, Board
    <2>4. QED
      BY <1>1, <2>3, AheadOrder
  <1>5. ASSUME NEW h \in Players, PlayStep(h) \/ QuitStep(h) \/ OrphanStep(h),
               h # i
        PROVE  view'[i] = view[i]
    BY <1>5, PlayOthers DEF OthersSame
  <1>6. CASE PlayStep(i) \/ QuitStep(i) \/ OrphanStep(i)
    BY <1>2, <1>3, <1>4, <1>6
    DEF PlayStep, Play, ReadPrompt, SendName, ReadEntry, Key, ReadGrades,
        Garbled, QuitStep, Quit, OrphanStep, Orphan, Gone
  <1>7. QED
    BY <1>2, <1>5, <1>6 DEF Next, vars, client, ServerStep, ServerKilled

LEMMA OrderStep ==
    TypeInv /\ ReadyInv /\ HandInv /\ OrderInv /\ [Next]_vars => OrderInv'
  BY OwnStep, DownStep, ViewStep DEF OrderInv

\* The board that a client gets shows his own last move.
LEMMA EchoStep ==
    TypeInv /\ HandInv /\ OwnOrder /\ EchoInv /\ [Next]_vars => EchoInv'
  <1> SUFFICES ASSUME TypeInv, HandInv, OwnOrder, EchoInv, [Next]_vars,
                      NEW i \in Players, cpc'[i] = "key"
               PROVE  view'[i][i] = temp'[i]
    BY DEF EchoInv, At
  <1>1. CASE cpc'[i] = cpc[i] /\ temp'[i] = temp[i] /\ view'[i] = view[i]
    BY <1>1 DEF EchoInv, At
  <1>2. CASE PlayStep(i) /\ ReadParams(i)
    BY <1>2 DEF ReadParams, TypeInv, TypeOK, ClientTypeOK
  <1>3. CASE PlayStep(i) /\ ReadView(i)
    <2>1. /\ down[i] # <<>> /\ Head(down[i]).kind = "board"
          /\ view'[i] = Head(down[i]).p /\ temp' = temp /\ cpc[i] = "view"
      BY <1>3 DEF ReadView, At, TypeInv, TypeOK, ClientTypeOK
    <2>2. /\ 1 \in 1 .. Len(down[i]) /\ IsBoard(i, 1)
          /\ view'[i] = down[i][1].p
      BY <2>1, FirstTaken DEF IsBoard, Taken, TypeInv, TypeOK
    <2>3. i \notin left
      BY <2>1 DEF TypeInv, LeftInv
    <2>4. QED
      BY <2>1, <2>2, <2>3 DEF HandInv, HandAt, BoardAt
  <1>4. CASE PlayStep(i) /\ ~ReadParams(i) /\ ~ReadView(i)
    BY <1>4
    DEF PlayStep, Play, ReadPrompt, SendName, ReadEntry, Key, ReadGrades,
        Garbled, Goto, TypeInv, TypeOK, ClientTypeOK
  <1>5. CASE QuitStep(i) \/ OrphanStep(i)
    BY <1>5
    DEF QuitStep, Quit, OrphanStep, Orphan, Gone, Goto, TypeInv, TypeOK,
        ClientTypeOK
  <1>6. ASSUME NEW h \in Players, PlayStep(h) \/ QuitStep(h) \/ OrphanStep(h),
               h # i
        PROVE  cpc'[i] = cpc[i] /\ temp'[i] = temp[i] /\ view'[i] = view[i]
    BY <1>6, PlayOthers DEF OthersSame
  <1>7. QED
    BY <1>1, <1>2, <1>3, <1>4, <1>5, <1>6
    DEF Next, vars, client, ServerStep, ServerKilled

LEMMA NewInit ==
    Init => EarlyInv /\ KilledInv /\ HandInv /\ OrderInv /\ EchoInv
  <1> SUFFICES ASSUME Init
               PROVE  EarlyInv /\ KilledInv /\ HandInv /\ OrderInv /\ EchoInv
    OBVIOUS
  <1>1. /\ spc = "prompt" /\ todo = Players /\ left = {}
        /\ \A i \in Players :
              /\ up[i] = <<>> /\ down[i] = <<>> /\ cpc[i] = "prompt"
              /\ Len(up[i]) = 0 /\ Len(down[i]) = 0
              /\ p[i] = ZeroRecord /\ temp[i] = StartRecord
              /\ \A j \in Players : view[i][j] = StartRecord
    BY EmptySeq DEF Init, WireInit, ServerInit, ClientInit
  <1>2. NotAhead(ZeroRecord, StartRecord)
    BY DEF NotAhead, ZeroRecord, StartRecord
  <1>3. EarlyInv /\ KilledInv
    BY <1>1 DEF EarlyInv, KilledInv
  <1>4. HandInv
    BY <1>1 DEF HandInv, PendingInv, Pending, HandAt, MoveAt, AnswerAt, BoardAt
  <1>5. OrderInv /\ EchoInv
    BY <1>1, <1>2 DEF OrderInv, OwnOrder, DownOrder, ViewOrder, EchoInv, At
  <1>6. QED
    BY <1>3, <1>4, <1>5

-----------------------------------------------------------------------------
LEMMA Inductive == IInv /\ [Next]_vars => IInv'
  <1> SUFFICES ASSUME IInv, [Next]_vars PROVE IInv'
    OBVIOUS
  <1>1. TypeInv' /\ OverInv' /\ ReadyInv' /\ RankInv' /\ EndInv'
    BY TypeStep, OverStep, ReadyStep, RankStep, EndStep DEF IInv
  <1>2. EarlyInv' /\ KilledInv' /\ HandInv'
    BY <1>1, EarlyStep, KilledStep, HandStep DEF IInv
  <1>3. OrderInv' /\ EchoInv'
    BY OrderStep, EchoStep DEF IInv, OrderInv
  <1>4. QED
    BY <1>1, <1>2, <1>3 DEF IInv

\* The inductive invariant holds as long as the program runs: it says of every
\* player where his one move or its board is.
THEOREM Invariance == Safety => []IInv
  <1>1. Init => IInv
    BY TypeInit, OverInit, RankInit, NewInit DEF IInv
  <1>2. QED
    BY <1>1, Inductive, PTL DEF Safety

\* Unless somebody leaves after his last move, the two halves of the grade
\* table that recv_data fills hold exactly those who arrived and those who
\* crashed, everybody once, and never meet.
THEOREM GradeTable == Safety => []TableSound
  <1>1. IInv => TableSound
    BY DEF IInv, RankInv, TableSound
  <1>2. QED
    BY <1>1, Invariance, PTL

\* The table that ending sends names every player, those who arrived above
\* those who crashed.
THEOREM Grades == Safety => []GradesComplete
  <1>1. IInv => GradesComplete
    <2> SUFFICES ASSUME IInv, spc \in {"ending", "exit"}, ~LateLeaver
                 PROVE  /\ {g[s] : s \in 0 .. Num - 1} = Players
                        /\ \A s, t \in 0 .. Num - 1 :
                              s < t /\ g[s] \in Crashers => g[t] \in Crashers
      BY DEF GradesComplete
    <2>1. /\ reached = Cardinality(Finishers)
          /\ crashed = Cardinality(Crashers)
          /\ Finishers \cap Crashers = {}
          /\ OneToOne(g, GoalSlots, Finishers)
          /\ OneToOne(g, CrashSlots, Crashers)
      BY DEF IInv, RankInv, TableSound
    <2>2. Finishers \cup Crashers = Players /\ reached + crashed = Num
      BY <2>1, AllPlaced DEF IInv, EndInv
    <2>3. reached \in Nat /\ crashed \in Nat
      BY <2>1, PlacedFinite
    <2>4. /\ GoalSlots \cup CrashSlots = 0 .. Num - 1
          /\ \A s \in CrashSlots, t \in 0 .. Num - 1 : s < t => t \in CrashSlots
      BY <2>2, <2>3, RaceAssumption DEF GoalSlots, CrashSlots
    <2>5. {g[s] : s \in 0 .. Num - 1} = Players
      BY <2>1, <2>2, <2>4 DEF OneToOne
    <2>6. ASSUME NEW s \in 0 .. Num - 1, NEW t \in 0 .. Num - 1,
                 s < t, g[s] \in Crashers
          PROVE  g[t] \in Crashers
      <3>1. s \in CrashSlots
        BY <2>1, <2>4, <2>6 DEF OneToOne
      <3>2. t \in CrashSlots
        BY <2>4, <2>6, <3>1
      <3>3. QED
        BY <2>1, <3>2 DEF OneToOne
    <2>7. QED
      BY <2>5, <2>6
  <1>2. QED
    BY <1>1, Invariance, PTL

\* The step that places a player fills one row.
LEMMA Placing ==
    ASSUME IInv, IInv', ~LateLeaver, NEW i \in Players,
           Recv(i) \/ RecvOutside(i)
    PROVE  /\ Recv(i) /\ ~Over(p[i]) /\ p'[i] = Received(i) /\ ~Both(p'[i])
           /\ \A j \in Players \ {i} : p'[j] = p[j]
           /\ reached \in Nat /\ crashed \in Nat /\ reached + crashed < Num
           /\ reached \in Slots /\ CrashSlot \in Slots
           /\ spc' \in {"recv", "send"} /\ spc = "recv"
  <1>1. Reads(i) /\ spc = "recv"
    BY RecvReads DEF IInv, Reads
  <1>2. p'[i] = Received(i) /\ \A j \in Players \ {i} : p'[j] = p[j]
    BY <1>1 DEF Reads, IInv, TypeInv, TypeOK, ServerTypeOK, Board
  <1>3. ~Both(p'[i])
    BY DEF IInv, OverInv
  <1>4. ~Over(p[i])
    <2>1. up[i] = <<>> => i \in left
      BY <1>1 DEF Reads, Turn, IInv, ReadyInv, Readable
    <2>2. up[i] # <<>> => ~Over(p[i])
      BY DEF IInv, OverInv
    <2>3. QED
      BY <2>1, <2>2 DEF LateLeaver
  <1>5. reached \in Nat /\ crashed \in Nat /\ reached + crashed < Num
    BY <1>4, RoomLeft DEF IInv, RankInv, TableSound
  <1>6. reached \in Slots /\ CrashSlot \in Slots
    BY <1>5, RaceAssumption DEF Slots, CrashSlot
  <1>7. ~Outside(Received(i))
    BY <1>6 DEF Outside, GoalSlot
  <1>8. QED
    BY <1>1, <1>2, <1>3, <1>4, <1>5, <1>6, <1>7
    DEF RecvOutside, Reads, Advance

\* Unless somebody leaves after his last move, a row of the table that is
\* filled is never overwritten.
THEOREM RowsStand == Safety => RankingStable
  <1> DEFINE Kept == LateLeaver \/ \A s \in Slots : g[s] # Nobody => g'[s] = g[s]
  <1>1. ASSUME IInv, IInv', ~LateLeaver, NEW i \in Players,
               Recv(i) \/ RecvOutside(i)
        PROVE  Kept
    <2>1. /\ Recv(i) /\ ~Over(p[i]) /\ ~Both(Received(i))
          /\ reached \in Nat /\ crashed \in Nat /\ reached + crashed < Num
      BY <1>1, Placing
    <2>2. \A s \in Slots \ (GoalSlots \cup CrashSlots) : g[s] = Nobody
      BY <1>1 DEF IInv, RankInv, TableSound
    <2>3. /\ reached \in Slots /\ g[reached] = Nobody
          /\ CrashSlot \in Slots /\ g[CrashSlot] = Nobody
      BY <2>1, <2>2, RaceAssumption DEF GoalSlots, CrashSlots, Slots, CrashSlot
    <2>4. \/ g' = g \/ g' = [g EXCEPT ![reached] = i]
          \/ g' = [g EXCEPT ![CrashSlot] = i]
      BY <2>1 DEF Recv, Both, GoalSlot
    <2>5. ASSUME NEW t \in Slots, g[t] = Nobody, g' = [g EXCEPT ![t] = i]
          PROVE  \A s \in Slots : g[s] # Nobody => g'[s] = g[s]
      BY <1>1, <2>5 DEF IInv, TypeInv, TypeOK, ServerTypeOK, Table
    <2>6. QED
      BY <2>3, <2>4, <2>5
  <1>2. ASSUME IInv, IInv', [Next]_vars PROVE Kept
    <2>1. CASE UNCHANGED g
      BY <2>1
    <2>2. CASE LateLeaver
      BY <2>2
    <2>3. CASE ServerStep
      BY <1>1, <1>2, <2>1, <2>2, <2>3
      DEF ServerStep, Serve, Prompt, ReadName, SendParams, Select, Send,
          StartEnding, SendGrades
    <2>4. CASE ServerKilled \/ UNCHANGED server
      BY <2>1, <2>4 DEF ServerKilled, Killed, server
    <2>5. QED
      BY <1>2, <2>3, <2>4 DEF Next, vars, PlayStep, QuitStep, OrphanStep
  <1>3. ASSUME IInv, IInv', [Next]_vars
        PROVE  [LateLeaver \/ \A s \in Slots : g[s] # Nobody => g'[s] = g[s]]_vars
    BY <1>2, <1>3
  <1>4. QED
    BY <1>3, Invariance, PTL DEF RankingStable, Safety

\* What a client shows of another player is old but never wrong, and at every
\* key the board shows his own last move: boards and moves never get out of
\* step, although session.c tells one message from another by its size alone.
THEOREM BoardsHonest == Safety => []HonestBoards
  <1>1. IInv => HonestBoards
    BY DEF IInv, OrderInv, OwnOrder, ViewOrder, NotAhead, NeverAhead,
       HonestBoards
  <1>2. QED
    BY <1>1, Invariance, PTL

\* A client that has swallowed its parameters keeps the game from ending for
\* everybody, unless somebody leaves.
THEOREM Stalls == Safety => []SwallowStalls
  <1>1. IInv => SwallowStalls
    <2> SUFFICES ASSUME IInv, left = {}, NEW i \in Players, At(i, "params"),
                        spc \in {"ending", "exit", "killed"}
                 PROVE  FALSE
      BY DEF SwallowStalls, Swallowed
    <2>1. spc \in {"ending", "exit"}
      BY DEF IInv, KilledInv
    <2>2. ~Over(temp[i])
      BY DEF IInv, TypeInv, KeyInv, At, Before
    <2>3. ~LateLeaver
      BY DEF LateLeaver
    <2>4. Finishers \cup Crashers = Players
      BY <2>1, <2>3, AllPlaced DEF IInv, EndInv, RankInv, TableSound
    <2>5. Over(p[i])
      BY <2>4 DEF Finishers, Crashers, Over
    <2>6. QED
      BY <2>2, <2>5 DEF IInv, OverInv
  <1>2. QED
    BY <1>1, Invariance, PTL

\* Who has seen another player at the goal before he arrived himself is placed
\* below that player.
THEOREM SeenFirst == Safety => SeenFirstRanksFirst
  <1> DEFINE Ranked(i, j) == \E s \in GoalSlots : g[s] = j /\ g'[reached] = i
             Below == \A i, j \in Players :
                ~ReachedGoal(p[i]) /\ ReachedGoal(p'[i]) /\ ReachedGoal(view[i][j])
                  => LateLeaver \/ Ranked(i, j)
  <1>1. ASSUME IInv, IInv', [Next]_vars PROVE Below
    <2> SUFFICES ASSUME NEW i \in Players, NEW j \in Players, ~LateLeaver,
                        ~ReachedGoal(p[i]), ReachedGoal(p'[i]),
                        ReachedGoal(view[i][j])
                 PROVE  Ranked(i, j)
      OBVIOUS
    <2>1. Recv(i) \/ RecvOutside(i)
      <3>1. p'[i] # p[i]
        OBVIOUS
      <3>2. ServerStep
        BY <1>1, <3>1 DEF Next, vars, server, ServerKilled, Killed, PlayStep,
           QuitStep, OrphanStep
      <3>3. ASSUME NEW h \in Players, h # i, Recv(h) \/ RecvOutside(h)
            PROVE  p'[i] = p[i]
        BY <1>1, <3>3, RecvReads
        DEF Reads, IInv, TypeInv, TypeOK, ServerTypeOK, Board
      <3>4. QED
        BY <3>1, <3>2, <3>3, PUnchanged
        DEF ServerStep, Serve, Select, StartEnding
    <2>2. /\ Recv(i) /\ p'[i] = Received(i) /\ reached \in Slots
          /\ CrashSlot \in Slots /\ ~Both(p'[i])
      BY <1>1, <2>1, Placing
    <2>3. g' = [g EXCEPT ![reached] = i]
      BY <2>2 DEF Recv, GoalSlot, Both
    <2>4. g'[reached] = i
      BY <1>1, <2>2, <2>3 DEF IInv, TypeInv, TypeOK, ServerTypeOK, Table
    <2>5. view[i][j] # StartRecord
      BY RaceAssumption DEF StartRecord, ReachedGoal
    <2>6. view[i][j] \in Record /\ p[j] \in Record
      BY <1>1
      DEF IInv, TypeInv, TypeOK, ServerTypeOK, ClientTypeOK, Board
    <2>7. NotAhead(view[i][j], p[j])
      BY <1>1, <2>5 DEF IInv, OrderInv, ViewOrder
    <2>8. j \in Finishers
      BY <2>6, <2>7, RaceAssumption DEF Finishers, ReachedGoal, NotAhead, Record
    <2>9. PICK s \in GoalSlots : g[s] = j
      BY <1>1, <2>8 DEF IInv, RankInv, TableSound, OneToOne
    <2>10. QED
      BY <2>4, <2>9
  <1>2. ASSUME IInv, IInv', [Next]_vars
        PROVE  [\A i, j \in Players :
                  ~ReachedGoal(p[i]) /\ ReachedGoal(p'[i])
                  /\ ReachedGoal(view[i][j])
                    => LateLeaver \/ \E s \in GoalSlots :
                          g[s] = j /\ g'[reached] = i]_vars
    BY <1>1, <1>2
  <1>3. QED
    BY <1>2, Invariance, PTL DEF SeenFirstRanksFirst, Safety

-----------------------------------------------------------------------------
\* The podium, when no player's process is killed.  A client ends of its own
\* accord only after the server has stopped.
Stays == left # {} => spc \in Stopped

LEMMA StaysStep ==
    ASSUME Quitters = {}, TypeInv, Stays, [Next]_vars PROVE Stays'
  <1>1. CASE ServerStep
    BY <1>1
    DEF ServerStep, Serve, Stays, Stopped, Prompt, ReadName, SendParams, Recv,
        RecvOutside, Send, SendGrades, Select, StartEnding, wire
  <1>2. CASE ServerKilled
    BY <1>2 DEF ServerKilled, Killed, Stays, Stopped, wire
  <1>3. ASSUME NEW i \in Players, PlayStep(i) \/ QuitStep(i) \/ OrphanStep(i)
        PROVE  Stays'
    BY <1>3
    DEF PlayStep, Play, ReadPrompt, SendName, ReadEntry, ReadParams, Key,
        ReadView, ReadGrades, Garbled, QuitStep, Quit, OrphanStep, Orphan,
        server, Stays
  <1>4. CASE UNCHANGED vars
    BY <1>4 DEF vars, wire, server, Stays
  <1>5. QED
    BY <1>1, <1>2, <1>3, <1>4 DEF Next

LEMMA ArrivedTyped ==
    ASSUME IInv, ~LateLeaver
    PROVE  /\ Arrived \in Seq(Players) /\ Len(Arrived) = reached
           /\ Dropped \in Seq(Players) /\ Len(Dropped) = crashed
           /\ DOMAIN Arrived = 1 .. reached /\ DOMAIN Dropped = 1 .. crashed
           /\ {Arrived[k] : k \in 1 .. reached} = Finishers
           /\ {Dropped[k] : k \in 1 .. crashed} = Crashers
  <1>1. reached \in Nat /\ crashed \in Nat
    BY DEF IInv, TypeInv, TypeOK, ServerTypeOK
  <1>2. /\ \A k \in 1 .. reached : k - 1 \in GoalSlots
        /\ \A s \in GoalSlots : s + 1 \in 1 .. reached /\ (s + 1) - 1 = s
        /\ \A k \in 1 .. crashed : Num - k \in CrashSlots
        /\ \A s \in CrashSlots : Num - s \in 1 .. crashed /\ Num - (Num - s) = s
    BY <1>1, RaceAssumption DEF GoalSlots, CrashSlots
  <1>3. OneToOne(g, GoalSlots, Finishers) /\ OneToOne(g, CrashSlots, Crashers)
    BY DEF IInv, RankInv, TableSound
  <1>4. /\ \A k \in 1 .. reached : Arrived[k] \in Finishers
        /\ \A i \in Finishers : \E k \in 1 .. reached : Arrived[k] = i
    BY <1>2, <1>3 DEF OneToOne, Arrived
  <1>5. /\ \A k \in 1 .. crashed : Dropped[k] \in Crashers
        /\ \A i \in Crashers : \E k \in 1 .. crashed : Dropped[k] = i
    BY <1>2, <1>3 DEF OneToOne, Dropped
  <1>6. Finishers \subseteq Players /\ Crashers \subseteq Players
    BY DEF Finishers, Crashers
  <1>7. /\ Arrived \in [1 .. reached -> Players]
        /\ Dropped \in [1 .. crashed -> Players]
    BY <1>4, <1>5, <1>6 DEF Arrived, Dropped
  <1>8. ASSUME NEW S, NEW n \in Nat, NEW f \in [1 .. n -> S]
        PROVE  f \in Seq(S) /\ Len(f) = n /\ DOMAIN f = 1 .. n
    <2>1. f \in Seq(S)
      BY SeqDef
    <2>2. QED
      BY <2>1, LenProperties
  <1>9. /\ Arrived \in Seq(Players) /\ Len(Arrived) = reached /\ DOMAIN Arrived = 1 .. reached
        /\ Dropped \in Seq(Players) /\ Len(Dropped) = crashed /\ DOMAIN Dropped = 1 .. crashed
    BY <1>1, <1>7, <1>8
  <1>10. {Arrived[k] : k \in 1 .. reached} = Finishers
    BY <1>4
  <1>11. {Dropped[k] : k \in 1 .. crashed} = Crashers
    BY <1>5
  <1>12. QED
    BY <1>9, <1>10, <1>11

\* A longer list whose first entries are the old ones is the old list with one
\* entry appended.
LEMMA OneMore ==
    ASSUME NEW S, NEW s \in Seq(S), NEW n \in Nat, Len(s) = n,
           NEW f \in [1 .. n + 1 -> S],
           \A k \in 1 .. n : f[k] = s[k]
    PROVE  f = Append(s, f[n + 1])
  <1>1. f \in Seq(S) /\ Len(f) = n + 1
    BY SeqDef, LenProperties
  <1>2. f[n + 1] \in S
    OBVIOUS
  <1>3. /\ Append(s, f[n + 1]) \in Seq(S) /\ Len(Append(s, f[n + 1])) = n + 1
        /\ \A k \in 1 .. n : Append(s, f[n + 1])[k] = s[k]
        /\ Append(s, f[n + 1])[n + 1] = f[n + 1]
    BY <1>2, AppendProperties
  <1>4. \A k \in 1 .. n + 1 : f[k] = Append(s, f[n + 1])[k]
    BY <1>3
  <1>5. QED
    BY <1>1, <1>3, <1>4, SeqEqual

\* Without players who are killed the server and its table implement the
\* podium: everybody is placed once and for ever, in the order of the last
\* moves, and the table is published when all are placed.
THEOREM PodiumKept == Quitters = {} => (Safety => ImplementsPodium)
  <1> SUFFICES ASSUME Quitters = {} PROVE Safety => ImplementsPodium
    OBVIOUS
  <1> DEFINE Published == spc \in {"ending", "exit"}
  <1>1. Init => Stays /\ P!Init
    <2> SUFFICES ASSUME Init PROVE Stays /\ P!Init
      OBVIOUS
    <2>1. reached = 0 /\ crashed = 0 /\ spc = "prompt" /\ left = {}
      BY DEF Init, WireInit, ServerInit
    <2>2. Arrived = <<>> /\ Dropped = <<>>
      BY <2>1 DEF Arrived, Dropped
    <2>3. QED
      BY <2>1, <2>2 DEF P!Init, Stays
  <1>2. ASSUME UNCHANGED <<reached, crashed, g>>, UNCHANGED Published
        PROVE  [P!Next]_<<Arrived, Dropped, Published>>
    BY <1>2 DEF Arrived, Dropped
  <1>3. ASSUME IInv, Stays, StartEnding
        PROVE  P!Publish
    <2>1. left = {} /\ spc = "loop" /\ spc' = "ending" /\ EverybodyPlaced
      BY <1>3 DEF StartEnding, Stays, Stopped
    <2>2. ~LateLeaver
      BY <2>1 DEF LateLeaver
    <2>3. Finishers \cup Crashers = Players
      BY <1>3, <2>1, <2>2, AllPlaced DEF IInv, RankInv, TableSound
    <2>4. P!Placed = Players
      BY <1>3, <2>2, <2>3, ArrivedTyped DEF P!Placed
    <2>5. UNCHANGED <<Arrived, Dropped>>
      BY <1>3 DEF StartEnding, Arrived, Dropped
    <2>6. QED
      BY <2>1, <2>4, <2>5 DEF P!Publish
  <1>4. ASSUME IInv, IInv', Stays, NEW i \in Players, Recv(i) \/ RecvOutside(i)
        PROVE  [P!Next]_<<Arrived, Dropped, Published>>
    <2>1. spc = "recv" /\ UNCHANGED left
      BY <1>4 DEF Recv, RecvOutside
    <2>2. left = {} /\ ~LateLeaver /\ ~LateLeaver'
      BY <1>4, <2>1 DEF Stays, Stopped, LateLeaver
    <2>3. /\ Recv(i) /\ ~Over(p[i]) /\ ~Both(Received(i))
          /\ reached \in Nat /\ crashed \in Nat /\ reached + crashed < Num
          /\ reached \in Slots /\ CrashSlot \in Slots
          /\ spc' \in {"recv", "send"}
      BY <1>4, <2>2, Placing
    <2>4. ~Published /\ ~Published' /\ UNCHANGED Published
      BY <2>1, <2>3
    <2>5. /\ i \notin P!Placed
          /\ Arrived \in Seq(Players) /\ Len(Arrived) = reached
          /\ Dropped \in Seq(Players) /\ Len(Dropped) = crashed
      <3>1. i \notin Finishers /\ i \notin Crashers
        BY <2>3 DEF Finishers, Crashers, Over
      <3>2. QED
        BY <1>4, <2>2, <3>1, ArrivedTyped DEF P!Placed
    <2>6. g \in [Slots -> Players \cup {Nobody}]
      BY <1>4 DEF IInv, TypeInv, TypeOK, ServerTypeOK, Table
    <2>7. /\ \A k \in 1 .. reached : Arrived[k] \in Players
          /\ \A k \in 1 .. crashed : Dropped[k] \in Players
      BY <2>5, ElementOfSeq
    <2>8. CASE ReachedGoal(Received(i))
      <3>1. /\ reached' = reached + 1 /\ crashed' = crashed
            /\ g' = [g EXCEPT ![reached] = i]
        BY <2>3, <2>8 DEF Recv, GoalSlot, Both
      <3>2. Dropped' = Dropped
        <4>1. \A k \in 1 .. crashed : Num - k # reached
          BY <2>3, RaceAssumption
        <4>2. \A k \in 1 .. crashed : g'[Num - k] = g[Num - k]
          BY <2>6, <3>1, <4>1
        <4>3. QED
          BY <3>1, <4>2 DEF Dropped
      <3>3. Arrived' = Append(Arrived, i)
        <4>1. \A k \in 1 .. reached : g'[k - 1] = g[k - 1]
          BY <2>3, <2>6, <3>1
        <4>2. g'[reached] = i
          BY <2>3, <2>6, <3>1
        <4>3. /\ \A k \in 1 .. reached : Arrived'[k] = Arrived[k]
              /\ Arrived'[reached + 1] = i
          BY <2>3, <3>1, <4>1, <4>2 DEF Arrived
        <4>4. Arrived' \in [1 .. reached + 1 -> Players]
          BY <2>3, <2>7, <3>1, <4>3 DEF Arrived
        <4>5. QED
          BY <2>3, <2>5, <4>3, <4>4, OneMore
      <3>4. P!Arrive(i)
        BY <2>4, <2>5, <3>2, <3>3 DEF P!Arrive
      <3>5. QED
        BY <3>4 DEF P!Next
    <2>9. CASE Crashed(Received(i))
      <3>1. /\ reached' = reached /\ crashed' = crashed + 1
            /\ g' = [g EXCEPT ![Num - crashed - 1] = i]
        BY <2>3, <2>9 DEF Recv, CrashSlot, Both
      <3>2. Arrived' = Arrived
        <4>1. \A k \in 1 .. reached : k - 1 # Num - crashed - 1
          BY <2>3, RaceAssumption
        <4>2. \A k \in 1 .. reached : g'[k - 1] = g[k - 1]
          BY <2>6, <3>1, <4>1
        <4>3. QED
          BY <3>1, <4>2 DEF Arrived
      <3>3. Dropped' = Append(Dropped, i)
        <4>1. \A k \in 1 .. crashed : g'[Num - k] = g[Num - k]
          BY <2>3, <2>6, <3>1, RaceAssumption
        <4>2. /\ g'[Num - crashed - 1] = i
              /\ Num - (crashed + 1) = Num - crashed - 1
          BY <2>3, <2>6, <3>1, RaceAssumption DEF CrashSlot
        <4>3. /\ \A k \in 1 .. crashed : Dropped'[k] = Dropped[k]
              /\ Dropped'[crashed + 1] = i
          BY <2>3, <3>1, <4>1, <4>2 DEF Dropped
        <4>4. Dropped' \in [1 .. crashed + 1 -> Players]
          BY <2>3, <2>7, <3>1, <4>3 DEF Dropped
        <4>5. QED
          BY <2>3, <2>5, <4>3, <4>4, OneMore
      <3>4. P!Drop(i)
        BY <2>4, <2>5, <3>2, <3>3 DEF P!Drop
      <3>5. QED
        BY <3>4 DEF P!Next
    <2>10. CASE ~Over(Received(i))
      <3>1. UNCHANGED <<reached, crashed, g>>
        BY <2>3, <2>10 DEF Recv, Over
      <3>2. QED
        BY <1>2, <2>4, <3>1
    <2>11. QED
      BY <2>8, <2>9, <2>10 DEF Over
  <1>5. ASSUME IInv, IInv', Stays, [Next]_vars
        PROVE  [P!Next]_<<Arrived, Dropped, Published>>
    <2>1. CASE UNCHANGED server
      BY <1>2, <2>1 DEF server
    <2>2. CASE ServerKilled
      <3>1. PICK i \in Players : Killed(i)
        BY <2>2 DEF ServerKilled
      <3>2. FALSE
        BY <1>5, <3>1 DEF Killed, Stays, Stopped
      <3>3. QED
        BY <3>2
    <2>3. ASSUME NEW i \in Players,
                 Prompt(i) \/ ReadName(i) \/ SendParams(i) \/ Send(i)
                 \/ SendGrades(i) \/ Select
          PROVE  [P!Next]_<<Arrived, Dropped, Published>>
      <3>1. UNCHANGED <<reached, crashed, g>>
        BY <2>3 DEF Prompt, ReadName, SendParams, Send, SendGrades, Select
      <3>2. Published' <=> Published
        BY <2>3
        DEF Prompt, ReadName, SendParams, Send, SendGrades, Select, Advance
      <3>3. QED
        BY <1>2, <3>1, <3>2
    <2>4. CASE StartEnding
      BY <1>3, <1>5, <2>4 DEF P!Next
    <2>5. CASE ServerStep
      <3>1. 0 \in Players
        BY RaceAssumption DEF Players
      <3>2. QED
        BY <1>4, <1>5, <2>3, <2>4, <2>5, <3>1 DEF ServerStep, Serve
    <2>6. QED
      BY <1>5, <2>1, <2>2, <2>5 DEF Next, vars, PlayStep, QuitStep, OrphanStep
  <1>6. IInv /\ Stays /\ [Next]_vars => Stays'
    BY StaysStep DEF IInv
  <1>7. QED
    BY <1>1, <1>5, <1>6, Invariance, PTL DEF Safety, ImplementsPodium, P!Spec
=============================================================================
