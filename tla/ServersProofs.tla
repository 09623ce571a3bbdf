--------------------------- MODULE ServersProofs ---------------------------
(***************************************************************************)
(* What Servers promises of mtalk, Msg.pm and the bulletin board, proved   *)
(* from HostProofs with the parameters that Servers gives them: once for   *)
(* "talk", "msg" and "board", once for "talk cut" and "msg busy", and once *)
(* for "msg rough".  What a program does not touch stays as it was, so     *)
(* that its invariant holds as well where another one runs.                *)
(***************************************************************************)
EXTENDS Servers, TLAPS

\* What Talk2 assumes of the clients and of its table.
LEMMA Table ==
    /\ 2 \in Nat \ {0} /\ 1 \in Nat /\ {Ann} \subseteq {Ann, Bob}
    /\ "nobody" \notin {Ann, Bob} /\ TRUE \in BOOLEAN
BY ServersBounds

\* What the steps of one program do to the variables of the others.
allVars == <<program, talkVars, talk2Vars, msgVars, boardVars>>
TalkStays == UNCHANGED talkVars
MsgStays == UNCHANGED msgVars
BoardStays == UNCHANGED boardVars

\* What everybody is shown.
Shown == [c \in Talk!People |-> Talk!Said(screen[c])]

-----------------------------------------------------------------------------
(* "talk", "msg" and "board"                                               *)

Calm == INSTANCE HostProofs WITH
    Clients <- {Ann, Bob}, MaxAttendants <- 2, MaxLines <- 1, Hasty <- {Ann}, Ends <- TRUE,
    Nobody <- "nobody", network <- "busy",
    srv <- talk2Srv, log <- talk2Log, cl <- talk2Cl, typed <- talk2Typed,
    N <- 2, TalkLines <- 2, MaxEmpty <- 1, MaxCuts <- 0, Purges <- FALSE, Impatient <- {},
    TalkEnds <- TRUE, talkLog <- log, talkTyped <- typed,
    MsgClients <- {Ann, Bob}, Comes <- {Ann, Bob}, Requests <- 1, Sizes <- {1, 2},
    Cap <- 4, Splits <- FALSE, Stale <- FALSE, MsgDies <- {Ann},
    BoardClients <- {Ann, Bob}, BoardLines <- 2, Procs <- 1, Terminates <- TRUE,
    BoardDies <- {Ann}

\* mtalk, where read cuts nothing.
LEMMA CalmTalk ==
    /\ Talk!Init => Calm!TalkInv
    /\ Calm!TalkInv /\ (Talk!Next \/ TalkStays) => Calm!TalkInv'
    /\ Calm!TalkInv /\ Calm!TalkInv' /\ (Talk!Next \/ TalkStays) => [Talk!Talking!Next]_<<log, Shown>>
    /\ Calm!TalkInv => Talk!CaughtUp /\ Talk!NobodyMuted /\ Talk!TypeOK /\ Talk!LeftForQuit
<1>1. Calm!Talk!TalkAssumption
    BY DEF Calm!Talk!TalkAssumption, Calm!Talk!People
<1>2. Talk!Init => Calm!Talk!Init
    BY DEF Talk!Init, Talk!People, Calm!Talk!Init, Calm!Talk!People
<1>3. Talk!Next => Calm!Talk!Next
    BY ZenonT(60)
        DEF Talk!Next, Calm!Talk!Next, Talk!Server, Calm!Talk!Server, Talk!Ending,
            Calm!Talk!Ending, Talk!Enter, Calm!Talk!Enter, Talk!SessionInit,
            Calm!Talk!SessionInit, Talk!Select, Calm!Talk!Select, Talk!Read, Calm!Talk!Read,
            Talk!SendName, Calm!Talk!SendName, Talk!SendText, Calm!Talk!SendText, Talk!SayBye,
            Calm!Talk!SayBye, Talk!Killed, Calm!Talk!Killed, Talk!TypeName, Calm!Talk!TypeName,
            Talk!Type, Calm!Talk!Type, Talk!TypeInVain, Calm!Talk!TypeInVain, Talk!Show,
            Calm!Talk!Show, Talk!Interrupt, Calm!Talk!Interrupt, Talk!Reset, Calm!Talk!Reset,
            Talk!Purge, Calm!Talk!Purge, Talk!At, Calm!Talk!At, Talk!Write, Calm!Talk!Write,
            Talk!Speech, Calm!Talk!Speech, Talk!Writing, Calm!Talk!Writing, Talk!Readable,
            Calm!Talk!Readable, Talk!First, Calm!Talk!First, Talk!Prompted, Calm!Talk!Prompted,
            Talk!Named, Calm!Talk!Named, Talk!CanType, Calm!Talk!CanType, Talk!Close,
            Calm!Talk!Close, Talk!QuitIn, Calm!Talk!QuitIn, Talk!Over, Calm!Talk!Over,
            Talk!Reads, Calm!Talk!Reads, Talk!Taken, Calm!Talk!Taken, Talk!Rest, Calm!Talk!Rest,
            Talk!IsName, Calm!Talk!IsName, Talk!Speechless, Calm!Talk!Speechless, Talk!Name,
            Calm!Talk!Name, Talk!Lines, Calm!Talk!Lines, Talk!Ready, Calm!Talk!Ready, Talk!Bye,
            Calm!Talk!Bye, Talk!People, Calm!Talk!People, Talk!server, Calm!Talk!server,
            Talk!client, Calm!Talk!client, Talk!vars, Calm!Talk!vars, Talk!Front,
            Calm!Talk!Front, Talk!Cardinality, Calm!Talk!Cardinality, Talk!FoldFunction,
            Calm!Talk!FoldFunction, Talk!FoldFunctionOnSet, Calm!Talk!FoldFunctionOnSet,
            Talk!MapThenFoldSet, Calm!Talk!MapThenFoldSet
<1>4. TalkStays => UNCHANGED Calm!Talk!vars
    BY DEF TalkStays, talkVars, Calm!Talk!vars
<1>5. Talk!Next \/ TalkStays => [Calm!Talk!Next]_(Calm!Talk!vars)
    BY <1>3, <1>4
<1>6. Talk!Init => Calm!TalkInv
    BY <1>1, <1>2, Table, Calm!TalkInit
<1>7. Calm!TalkInv /\ (Talk!Next \/ TalkStays) => Calm!TalkInv'
    BY <1>1, <1>5, Table, Calm!TalkStep
<1>8. Calm!TalkInv => Talk!CaughtUp
    <2>1. Calm!TalkInv => Calm!Talk!CaughtUp
        BY <1>1, Table, Calm!TalkCaughtUp
    <2>2. Calm!Talk!CaughtUp => Talk!CaughtUp
        BY ZenonT(60) DEF Calm!Talk!CaughtUp, Calm!Talk!Said, Calm!Talk!People, Calm!Talk!Bye, Talk!CaughtUp, Talk!Said, Talk!People, Talk!Bye
    <2> QED BY <2>1, <2>2
<1>9. Calm!Talk!NobodyMuted => Talk!NobodyMuted
    BY ZenonT(60) DEF Calm!Talk!NobodyMuted, Calm!Talk!Speechless, Calm!Talk!IsName, Talk!NobodyMuted, Talk!Speechless, Talk!IsName
<1>10. Calm!Talk!LeftForQuit /\ Calm!Talk!TypeOK => Talk!TypeOK /\ Talk!LeftForQuit
    BY ZenonT(60) DEF Calm!Talk!LeftForQuit, Calm!Talk!TypeOK, Calm!Talk!People, Calm!Talk!Words, Calm!Talk!Pieces, Calm!Talk!Ready, Calm!Talk!Bye,
                 Talk!LeftForQuit, Talk!TypeOK, Talk!People, Talk!Words, Talk!Pieces, Talk!Ready, Talk!Bye
<1>11. ASSUME Calm!TalkInv, Calm!TalkInv', Talk!Next \/ TalkStays
       PROVE  [Talk!Talking!Next]_<<log, Shown>>
    <2>1. [Calm!Talk!Talking!Next]_<<log, Calm!TalkScreens>>
        BY <1>1, <1>5, <1>11, Table, Calm!TalkSpeaks
    <2>2. Calm!TalkScreens = Shown /\ Calm!TalkScreens' = Shown'
        BY ZenonT(60) DEF Calm!TalkScreens, Shown, Talk!Said, Talk!People, Talk!Bye, Calm!Talk!Said, Calm!Talk!People, Calm!Talk!Bye
    <2>3. Calm!Talk!Talking!Next => Talk!Talking!Next
        BY ZenonT(60)
        DEF Talk!Talking!Next, Calm!Talk!Talking!Next, Talk!Talking!Say,
            Calm!Talk!Talking!Say, Talk!Talking!Show, Calm!Talk!Talking!Show,
            Talk!Talking!Piece, Calm!Talk!Talking!Piece, Talk!Talking!IsStrictPrefix,
            Calm!Talk!Talking!IsStrictPrefix, Talk!Talking!IsPrefix, Calm!Talk!Talking!IsPrefix,
            Talk!Said, Calm!Talk!Said, Talk!Bye, Calm!Talk!Bye, Talk!People,
            Calm!Talk!People
    <2> QED BY <2>1, <2>2, <2>3
<1> QED BY <1>6, <1>7, <1>8, <1>9, <1>10, <1>11 DEF Calm!TalkInv

\* The talk begins as Broadcast has it.
LEMMA TalkBegins == Talk!Init => Talk!Talking!Init
<1>1. Talk!Init => Calm!Talk!Init
    BY DEF Talk!Init, Talk!People, Calm!Talk!Init, Calm!Talk!People
<1>2. Calm!Talk!Init => Calm!Talk!Talking!Init
    BY Table, Calm!TalkBegins
<1>3. Calm!Talk!Talking!Init => Talk!Talking!Init
    BY ZenonT(60) DEF Talk!Talking!Init, Talk!Said, Talk!Bye, Talk!People, Calm!Talk!Talking!Init,
                 Calm!Talk!Said, Calm!Talk!Bye, Calm!Talk!People
<1> QED BY <1>1, <1>2, <1>3

\* Msg.pm, with one message each.
LEMMA CalmMsg ==
    /\ Msg!Init => Calm!MsgInv
    /\ Calm!MsgInv /\ (Msg!Next \/ MsgStays) => Calm!MsgInv'
    /\ Calm!MsgInv => Msg!TypeOK /\ Msg!Delivery /\ Msg!Farewell /\ Msg!Earned /\ Msg!OutlivesPolite
<1>1. Calm!Msg!MsgAssumption
    BY DEF Calm!Msg!MsgAssumption
<1>2. Msg!Init => Calm!Msg!Init
    BY DEF Msg!Init, Calm!Msg!Init
<1>3. Msg!Next => Calm!Msg!Next
    BY ZenonT(60)
        DEF Msg!Next, Calm!Msg!Next, Msg!Select, Calm!Msg!Select, Msg!Accept,
            Calm!Msg!Accept, Msg!Header, Calm!Msg!Header, Msg!Body, Calm!Msg!Body, Msg!Finish,
            Calm!Msg!Finish, Msg!Write, Calm!Msg!Write, Msg!WriteInVain, Calm!Msg!WriteInVain,
            Msg!Killed, Calm!Msg!Killed, Msg!Serve, Calm!Msg!Serve, Msg!Connect,
            Calm!Msg!Connect, Msg!SendNow, Calm!Msg!SendNow, Msg!SendLater, Calm!Msg!SendLater,
            Msg!Push, Calm!Msg!Push, Msg!PushInVain, Calm!Msg!PushInVain, Msg!ReadHeader,
            Calm!Msg!ReadHeader, Msg!ReadBody, Calm!Msg!ReadBody, Msg!Got, Calm!Msg!Got,
            Msg!Leave, Calm!Msg!Leave, Msg!Kill, Calm!Msg!Kill, Msg!Reset, Calm!Msg!Reset,
            Msg!Run, Calm!Msg!Run, Msg!Message, Calm!Msg!Message, Msg!Ok, Calm!Msg!Ok,
            Msg!Takes, Calm!Msg!Takes, Msg!From, Calm!Msg!From, Msg!At, Calm!Msg!At, Msg!Loop,
            Calm!Msg!Loop, Msg!Backlog, Calm!Msg!Backlog, Msg!Readable, Calm!Msg!Readable,
            Msg!Client, Calm!Msg!Client, Msg!Owed, Calm!Msg!Owed, Msg!Ended, Calm!Msg!Ended,
            Msg!Close, Calm!Msg!Close, Msg!Min, Calm!Msg!Min, Msg!server, Calm!Msg!server,
            Msg!client, Calm!Msg!client, Msg!vars, Calm!Msg!vars
<1>4. MsgStays => UNCHANGED Calm!Msg!vars
    BY DEF MsgStays, msgVars, Calm!Msg!vars
<1>5. Msg!Next \/ MsgStays => [Calm!Msg!Next]_(Calm!Msg!vars)
    BY <1>3, <1>4
<1>6. Msg!Init => Calm!MsgInv
    BY <1>1, <1>2, Table, Calm!MsgStarts
<1>7. Calm!MsgInv /\ (Msg!Next \/ MsgStays) => Calm!MsgInv'
    BY <1>1, <1>5, Table, Calm!MsgGoesOn
<1>8. Calm!MsgInv => Calm!Msg!TypeOK /\ Calm!Msg!Delivery /\ Calm!Msg!Farewell /\ Calm!Msg!Earned /\ Calm!Msg!OutlivesPolite
    BY <1>1, Table, Calm!MsgShows
<1>9. Calm!Msg!TypeOK => Msg!TypeOK
    BY ZenonT(60) DEF Calm!Msg!TypeOK, Calm!Msg!Pieces, Msg!TypeOK, Msg!Pieces
<1>10. Calm!Msg!Delivery /\ Calm!Msg!Farewell /\ Calm!Msg!Earned => Msg!Delivery /\ Msg!Farewell /\ Msg!Earned
    BY ZenonT(60) DEF Calm!Msg!Delivery, Calm!Msg!Farewell, Calm!Msg!Earned, Calm!Msg!Heard, Calm!Msg!Last, Calm!Msg!Front,
                 Msg!Delivery, Msg!Farewell, Msg!Earned, Msg!Heard, Msg!Last, Msg!Front
<1>11. Calm!Msg!OutlivesPolite => Msg!OutlivesPolite
    BY ZenonT(60) DEF Calm!Msg!OutlivesPolite, Calm!Msg!Ok, Calm!Msg!Message, Msg!OutlivesPolite, Msg!Ok, Msg!Message
<1> QED BY <1>6, <1>7, <1>8, <1>9, <1>10, <1>11

\* The bulletin board.
LEMMA CalmBoard ==
    /\ Board!Init => Calm!BoardInv
    /\ Calm!BoardInv /\ (Board!Next \/ BoardStays) => Calm!BoardInv'
    /\ Calm!BoardInv => Board!TypeOK /\ Board!Asked /\ Board!Room
<1>1. Calm!Board!BulletinAssumption
    BY DEF Calm!Board!BulletinAssumption
<1>2. Board!Init => Calm!Board!Init
    BY DEF Board!Init, Board!Items, Calm!Board!Init, Calm!Board!Items
<1>3. Board!Next => Calm!Board!Next
    BY ZenonT(60)
        DEF Board!Next, Calm!Board!Next, Board!Accept, Calm!Board!Accept, Board!Terminate,
            Calm!Board!Terminate, Board!Fork, Calm!Board!Fork, Board!Close, Calm!Board!Close,
            Board!Greet, Calm!Board!Greet, Board!Menu, Calm!Board!Menu, Board!Read,
            Calm!Board!Read, Board!Process, Calm!Board!Process, Board!Connect,
            Calm!Board!Connect, Board!Kill, Calm!Board!Kill, Board!Type, Calm!Board!Type,
            Board!Serve, Calm!Board!Serve, Board!Write, Calm!Board!Write, Board!Exit,
            Calm!Board!Exit, Board!Leave, Calm!Board!Leave, Board!Open, Calm!Board!Open,
            Board!Used, Calm!Board!Used, Board!Running, Calm!Board!Running, Board!Cardinality,
            Calm!Board!Cardinality, Board!vars, Calm!Board!vars
<1>4. BoardStays => UNCHANGED Calm!Board!vars
    BY DEF BoardStays, boardVars, Calm!Board!vars
<1>5. Board!Next \/ BoardStays => [Calm!Board!Next]_(Calm!Board!vars)
    BY <1>3, <1>4
<1>6. Board!Init => Calm!BoardInv
    BY <1>1, <1>2, Table, Calm!BoardStarts
<1>7. Calm!BoardInv /\ (Board!Next \/ BoardStays) => Calm!BoardInv'
    BY <1>1, <1>5, Table, Calm!BoardGoesOn
<1>8. Calm!BoardInv => Calm!Board!TypeOK /\ Calm!Board!Asked /\ Calm!Board!Room
    BY <1>1, Table, Calm!BoardShows
<1>9. Calm!Board!TypeOK /\ Calm!Board!Asked => Board!TypeOK /\ Board!Asked
    BY ZenonT(60) DEF Calm!Board!TypeOK, Calm!Board!Running, Calm!Board!Items, Calm!Board!Asked,
                 Board!TypeOK, Board!Running, Board!Items, Board!Asked
<1>10. Calm!Board!Room => Board!Room
    BY ZenonT(60) DEF Calm!Board!Room, Calm!Board!Used, Calm!Board!Running, Calm!Board!Cardinality,
                 Board!Room, Board!Used, Board!Running, Board!Cardinality
<1> QED BY <1>6, <1>7, <1>8, <1>9, <1>10

-----------------------------------------------------------------------------
(* "talk cut" and "msg busy"                                               *)

Busy == INSTANCE HostProofs WITH
    Clients <- {Ann, Bob}, MaxAttendants <- 2, MaxLines <- 1, Hasty <- {Ann}, Ends <- TRUE,
    Nobody <- "nobody", network <- "busy",
    srv <- talk2Srv, log <- talk2Log, cl <- talk2Cl, typed <- talk2Typed,
    N <- 2, TalkLines <- 1, MaxEmpty <- 1, MaxCuts <- 1, Purges <- TRUE, Impatient <- {1},
    TalkEnds <- FALSE, talkLog <- log, talkTyped <- typed,
    MsgClients <- {Ann, Bob}, Comes <- {Ann, Bob}, Requests <- 2, Sizes <- {1},
    Cap <- 6, Splits <- FALSE, Stale <- FALSE, MsgDies <- {},
    BoardClients <- {Ann, Bob}, BoardLines <- 2, Procs <- 1, Terminates <- TRUE,
    BoardDies <- {Ann}

\* mtalk, where read cuts.
LEMMA BusyTalk ==
    /\ Talk!Init => Busy!TalkInv
    /\ Busy!TalkInv /\ (TalkCut!Next \/ TalkStays) => Busy!TalkInv'
    /\ Busy!TalkInv /\ Busy!TalkInv' /\ (TalkCut!Next \/ TalkStays) => [Talk!Talking!Next]_<<log, Shown>>
    /\ Busy!TalkInv => Talk!CaughtUp /\ Talk!NobodyMuted /\ TalkCut!TypeOK /\ TalkCut!LeftForQuit
<1>1. Busy!Talk!TalkAssumption
    BY DEF Busy!Talk!TalkAssumption, Busy!Talk!People
<1>2. Talk!Init => Busy!Talk!Init
    BY DEF Talk!Init, Talk!People, Busy!Talk!Init, Busy!Talk!People
<1>3. TalkCut!Next => Busy!Talk!Next
    BY ZenonT(60)
        DEF TalkCut!Next, Busy!Talk!Next, TalkCut!Server, Busy!Talk!Server, TalkCut!Ending,
            Busy!Talk!Ending, TalkCut!Enter, Busy!Talk!Enter, TalkCut!SessionInit,
            Busy!Talk!SessionInit, TalkCut!Select, Busy!Talk!Select, TalkCut!Read,
            Busy!Talk!Read, TalkCut!SendName, Busy!Talk!SendName, TalkCut!SendText,
            Busy!Talk!SendText, TalkCut!SayBye, Busy!Talk!SayBye, TalkCut!Killed,
            Busy!Talk!Killed, TalkCut!TypeName, Busy!Talk!TypeName, TalkCut!Type,
            Busy!Talk!Type, TalkCut!TypeInVain, Busy!Talk!TypeInVain, TalkCut!Show,
            Busy!Talk!Show, TalkCut!Interrupt, Busy!Talk!Interrupt, TalkCut!Reset,
            Busy!Talk!Reset, TalkCut!Purge, Busy!Talk!Purge, TalkCut!At, Busy!Talk!At,
            TalkCut!Write, Busy!Talk!Write, TalkCut!Speech, Busy!Talk!Speech, TalkCut!Writing,
            Busy!Talk!Writing, TalkCut!Readable, Busy!Talk!Readable, TalkCut!First,
            Busy!Talk!First, TalkCut!Prompted, Busy!Talk!Prompted, TalkCut!Named,
            Busy!Talk!Named, TalkCut!CanType, Busy!Talk!CanType, TalkCut!Close, Busy!Talk!Close,
            TalkCut!QuitIn, Busy!Talk!QuitIn, TalkCut!Over, Busy!Talk!Over, TalkCut!Reads,
            Busy!Talk!Reads, TalkCut!Taken, Busy!Talk!Taken, TalkCut!Rest, Busy!Talk!Rest,
            TalkCut!IsName, Busy!Talk!IsName, TalkCut!Speechless, Busy!Talk!Speechless,
            TalkCut!Name, Busy!Talk!Name, TalkCut!Lines, Busy!Talk!Lines, TalkCut!Ready,
            Busy!Talk!Ready, TalkCut!Bye, Busy!Talk!Bye, TalkCut!People, Busy!Talk!People,
            TalkCut!server, Busy!Talk!server, TalkCut!client, Busy!Talk!client, TalkCut!vars,
            Busy!Talk!vars, TalkCut!Front, Busy!Talk!Front, TalkCut!Cardinality,
            Busy!Talk!Cardinality, TalkCut!FoldFunction, Busy!Talk!FoldFunction,
            TalkCut!FoldFunctionOnSet, Busy!Talk!FoldFunctionOnSet, TalkCut!MapThenFoldSet,
            Busy!Talk!MapThenFoldSet
<1>4. TalkStays => UNCHANGED Busy!Talk!vars
    BY DEF TalkStays, talkVars, Busy!Talk!vars
<1>5. TalkCut!Next \/ TalkStays => [Busy!Talk!Next]_(Busy!Talk!vars)
    BY <1>3, <1>4
<1>6. Talk!Init => Busy!TalkInv
    BY <1>1, <1>2, Table, Busy!TalkInit
<1>7. Busy!TalkInv /\ (TalkCut!Next \/ TalkStays) => Busy!TalkInv'
    BY <1>1, <1>5, Table, Busy!TalkStep
<1>8. Busy!TalkInv => Talk!CaughtUp
    <2>1. Busy!TalkInv => Busy!Talk!CaughtUp
        BY <1>1, Table, Busy!TalkCaughtUp
    <2>2. Busy!Talk!CaughtUp => Talk!CaughtUp
        BY ZenonT(60) DEF Busy!Talk!CaughtUp, Busy!Talk!Said, Busy!Talk!People, Busy!Talk!Bye, Talk!CaughtUp, Talk!Said, Talk!People, Talk!Bye
    <2> QED BY <2>1, <2>2
<1>9. Busy!Talk!NobodyMuted => Talk!NobodyMuted
    BY ZenonT(60) DEF Busy!Talk!NobodyMuted, Busy!Talk!Speechless, Busy!Talk!IsName, Talk!NobodyMuted, Talk!Speechless, Talk!IsName
<1>10. Busy!Talk!LeftForQuit /\ Busy!Talk!TypeOK => TalkCut!TypeOK /\ TalkCut!LeftForQuit
    BY ZenonT(60) DEF Busy!Talk!LeftForQuit, Busy!Talk!TypeOK, Busy!Talk!People, Busy!Talk!Words, Busy!Talk!Pieces, Busy!Talk!Ready, Busy!Talk!Bye,
                 TalkCut!LeftForQuit, TalkCut!TypeOK, TalkCut!People, TalkCut!Words, TalkCut!Pieces, TalkCut!Ready, TalkCut!Bye
<1>11. ASSUME Busy!TalkInv, Busy!TalkInv', TalkCut!Next \/ TalkStays
       PROVE  [Talk!Talking!Next]_<<log, Shown>>
    <2>1. [Busy!Talk!Talking!Next]_<<log, Busy!TalkScreens>>
        BY <1>1, <1>5, <1>11, Table, Busy!TalkSpeaks
    <2>2. Busy!TalkScreens = Shown /\ Busy!TalkScreens' = Shown'
        BY ZenonT(60) DEF Busy!TalkScreens, Shown, Talk!Said, Talk!People, Talk!Bye, Busy!Talk!Said, Busy!Talk!People, Busy!Talk!Bye
    <2>3. Busy!Talk!Talking!Next => Talk!Talking!Next
        BY ZenonT(60)
        DEF Talk!Talking!Next, Busy!Talk!Talking!Next, Talk!Talking!Say,
            Busy!Talk!Talking!Say, Talk!Talking!Show, Busy!Talk!Talking!Show,
            Talk!Talking!Piece, Busy!Talk!Talking!Piece, Talk!Talking!IsStrictPrefix,
            Busy!Talk!Talking!IsStrictPrefix, Talk!Talking!IsPrefix, Busy!Talk!Talking!IsPrefix,
            Talk!Said, Busy!Talk!Said, Talk!Bye, Busy!Talk!Bye, Talk!People,
            Busy!Talk!People
    <2> QED BY <2>1, <2>2, <2>3
<1> QED BY <1>6, <1>7, <1>8, <1>9, <1>10, <1>11 DEF Busy!TalkInv

\* Msg.pm, with two messages each.
LEMMA BusyMsg ==
    /\ Msg!Init => Busy!MsgInv
    /\ Busy!MsgInv /\ (MsgBusy!Next \/ MsgStays) => Busy!MsgInv'
    /\ Busy!MsgInv => MsgBusy!TypeOK /\ Msg!Delivery /\ Msg!Farewell /\ Msg!Earned
<1>1. Busy!Msg!MsgAssumption
    BY DEF Busy!Msg!MsgAssumption
<1>2. Msg!Init => Busy!Msg!Init
    BY DEF Msg!Init, Busy!Msg!Init
<1>3. MsgBusy!Next => Busy!Msg!Next
    BY ZenonT(60)
        DEF MsgBusy!Next, Busy!Msg!Next, MsgBusy!Select, Busy!Msg!Select, MsgBusy!Accept,
            Busy!Msg!Accept, MsgBusy!Header, Busy!Msg!Header, MsgBusy!Body, Busy!Msg!Body,
            MsgBusy!Finish, Busy!Msg!Finish, MsgBusy!Write, Busy!Msg!Write, MsgBusy!WriteInVain,
            Busy!Msg!WriteInVain, MsgBusy!Killed, Busy!Msg!Killed, MsgBusy!Serve,
            Busy!Msg!Serve, MsgBusy!Connect, Busy!Msg!Connect, MsgBusy!SendNow,
            Busy!Msg!SendNow, MsgBusy!SendLater, Busy!Msg!SendLater, MsgBusy!Push,
            Busy!Msg!Push, MsgBusy!PushInVain, Busy!Msg!PushInVain, MsgBusy!ReadHeader,
            Busy!Msg!ReadHeader, MsgBusy!ReadBody, Busy!Msg!ReadBody, MsgBusy!Got, Busy!Msg!Got,
            MsgBusy!Leave, Busy!Msg!Leave, MsgBusy!Kill, Busy!Msg!Kill, MsgBusy!Reset,
            Busy!Msg!Reset, MsgBusy!Run, Busy!Msg!Run, MsgBusy!Message, Busy!Msg!Message,
            MsgBusy!Ok, Busy!Msg!Ok, MsgBusy!Takes, Busy!Msg!Takes, MsgBusy!From, Busy!Msg!From,
            MsgBusy!At, Busy!Msg!At, MsgBusy!Loop, Busy!Msg!Loop, MsgBusy!Backlog,
            Busy!Msg!Backlog, MsgBusy!Readable, Busy!Msg!Readable, MsgBusy!Client,
            Busy!Msg!Client, MsgBusy!Owed, Busy!Msg!Owed, MsgBusy!Ended, Busy!Msg!Ended,
            MsgBusy!Close, Busy!Msg!Close, MsgBusy!Min, Busy!Msg!Min, MsgBusy!server,
            Busy!Msg!server, MsgBusy!client, Busy!Msg!client, MsgBusy!vars, Busy!Msg!vars
<1>4. MsgStays => UNCHANGED Busy!Msg!vars
    BY DEF MsgStays, msgVars, Busy!Msg!vars
<1>5. MsgBusy!Next \/ MsgStays => [Busy!Msg!Next]_(Busy!Msg!vars)
    BY <1>3, <1>4
<1>6. Msg!Init => Busy!MsgInv
    BY <1>1, <1>2, Table, Busy!MsgStarts
<1>7. Busy!MsgInv /\ (MsgBusy!Next \/ MsgStays) => Busy!MsgInv'
    BY <1>1, <1>5, Table, Busy!MsgGoesOn
<1>8. Busy!MsgInv => Busy!Msg!TypeOK /\ Busy!Msg!Delivery /\ Busy!Msg!Farewell /\ Busy!Msg!Earned /\ Busy!Msg!OutlivesPolite
    BY <1>1, Table, Busy!MsgShows
<1>9. Busy!Msg!TypeOK => MsgBusy!TypeOK
    BY ZenonT(60) DEF Busy!Msg!TypeOK, Busy!Msg!Pieces, MsgBusy!TypeOK, MsgBusy!Pieces
<1>10. Busy!Msg!Delivery /\ Busy!Msg!Farewell /\ Busy!Msg!Earned => Msg!Delivery /\ Msg!Farewell /\ Msg!Earned
    BY ZenonT(60) DEF Busy!Msg!Delivery, Busy!Msg!Farewell, Busy!Msg!Earned, Busy!Msg!Heard, Busy!Msg!Last, Busy!Msg!Front,
                 Msg!Delivery, Msg!Farewell, Msg!Earned, Msg!Heard, Msg!Last, Msg!Front
<1> QED BY <1>6, <1>7, <1>8, <1>9, <1>10

-----------------------------------------------------------------------------
(* "msg rough"                                                             *)

Rough == INSTANCE HostProofs WITH
    Clients <- {Ann, Bob}, MaxAttendants <- 2, MaxLines <- 1, Hasty <- {Ann}, Ends <- TRUE,
    Nobody <- "nobody", network <- "busy",
    srv <- talk2Srv, log <- talk2Log, cl <- talk2Cl, typed <- talk2Typed,
    N <- 2, TalkLines <- 1, MaxEmpty <- 1, MaxCuts <- 1, Purges <- TRUE, Impatient <- {1},
    TalkEnds <- FALSE, talkLog <- log, talkTyped <- typed,
    MsgClients <- {Ann, Bob}, Comes <- {Ann}, Requests <- 2, Sizes <- {0, 1, 2},
    Cap <- 4, Splits <- TRUE, Stale <- TRUE, MsgDies <- {Ann},
    BoardClients <- {Ann, Bob}, BoardLines <- 2, Procs <- 1, Terminates <- TRUE,
    BoardDies <- {Ann}

\* Msg.pm, with all that the network may do to it.
LEMMA RoughMsg ==
    /\ MsgRough!Init => Rough!MsgInv
    /\ Rough!MsgInv /\ (MsgRough!Next \/ MsgStays) => Rough!MsgInv'
    /\ Rough!MsgInv => MsgRough!TypeOK /\ MsgRough!Delivery /\ MsgRough!Farewell /\ MsgRough!Earned
<1>1. Rough!Msg!MsgAssumption
    BY DEF Rough!Msg!MsgAssumption
<1>2. MsgRough!Init => Rough!Msg!Init
    BY DEF MsgRough!Init, Rough!Msg!Init
<1>3. MsgRough!Next => Rough!Msg!Next
    BY ZenonT(60)
        DEF MsgRough!Next, Rough!Msg!Next, MsgRough!Select, Rough!Msg!Select,
            MsgRough!Accept, Rough!Msg!Accept, MsgRough!Header, Rough!Msg!Header, MsgRough!Body,
            Rough!Msg!Body, MsgRough!Finish, Rough!Msg!Finish, MsgRough!Write, Rough!Msg!Write,
            MsgRough!WriteInVain, Rough!Msg!WriteInVain, MsgRough!Killed, Rough!Msg!Killed,
            MsgRough!Serve, Rough!Msg!Serve, MsgRough!Connect, Rough!Msg!Connect,
            MsgRough!SendNow, Rough!Msg!SendNow, MsgRough!SendLater, Rough!Msg!SendLater,
            MsgRough!Push, Rough!Msg!Push, MsgRough!PushInVain, Rough!Msg!PushInVain,
            MsgRough!ReadHeader, Rough!Msg!ReadHeader, MsgRough!ReadBody, Rough!Msg!ReadBody,
            MsgRough!Got, Rough!Msg!Got, MsgRough!Leave, Rough!Msg!Leave, MsgRough!Kill,
            Rough!Msg!Kill, MsgRough!Reset, Rough!Msg!Reset, MsgRough!Run, Rough!Msg!Run,
            MsgRough!Message, Rough!Msg!Message, MsgRough!Ok, Rough!Msg!Ok, MsgRough!Takes,
            Rough!Msg!Takes, MsgRough!From, Rough!Msg!From, MsgRough!At, Rough!Msg!At,
            MsgRough!Loop, Rough!Msg!Loop, MsgRough!Backlog, Rough!Msg!Backlog,
            MsgRough!Readable, Rough!Msg!Readable, MsgRough!Client, Rough!Msg!Client,
            MsgRough!Owed, Rough!Msg!Owed, MsgRough!Ended, Rough!Msg!Ended, MsgRough!Close,
            Rough!Msg!Close, MsgRough!Min, Rough!Msg!Min, MsgRough!server, Rough!Msg!server,
            MsgRough!client, Rough!Msg!client, MsgRough!vars, Rough!Msg!vars
<1>4. MsgStays => UNCHANGED Rough!Msg!vars
    BY DEF MsgStays, msgVars, Rough!Msg!vars
<1>5. MsgRough!Next \/ MsgStays => [Rough!Msg!Next]_(Rough!Msg!vars)
    BY <1>3, <1>4
<1>6. MsgRough!Init => Rough!MsgInv
    BY <1>1, <1>2, Table, Rough!MsgStarts
<1>7. Rough!MsgInv /\ (MsgRough!Next \/ MsgStays) => Rough!MsgInv'
    BY <1>1, <1>5, Table, Rough!MsgGoesOn
<1>8. Rough!MsgInv => Rough!Msg!TypeOK /\ Rough!Msg!Delivery /\ Rough!Msg!Farewell /\ Rough!Msg!Earned /\ Rough!Msg!OutlivesPolite
    BY <1>1, Table, Rough!MsgShows
<1>9. Rough!Msg!TypeOK => MsgRough!TypeOK
    BY ZenonT(60) DEF Rough!Msg!TypeOK, Rough!Msg!Pieces, MsgRough!TypeOK, MsgRough!Pieces
<1>10. Rough!Msg!Delivery /\ Rough!Msg!Farewell /\ Rough!Msg!Earned => MsgRough!Delivery /\ MsgRough!Farewell /\ MsgRough!Earned
    BY ZenonT(60) DEF Rough!Msg!Delivery, Rough!Msg!Farewell, Rough!Msg!Earned, Rough!Msg!Heard, Rough!Msg!Last, Rough!Msg!Front,
                 MsgRough!Delivery, MsgRough!Farewell, MsgRough!Earned, MsgRough!Heard, MsgRough!Last, MsgRough!Front
<1> QED BY <1>6, <1>7, <1>8, <1>9, <1>10

-----------------------------------------------------------------------------
(* The programs together                                                   *)

\* The invariants of the programs, whichever runs.
ServersInv ==
    /\ program # "talk cut" => Calm!TalkInv
    /\ program = "talk cut" => Busy!TalkInv
    /\ program = "msg" => Calm!MsgInv
    /\ program = "msg busy" => Busy!MsgInv
    /\ program = "msg rough" => Rough!MsgInv
    /\ program = "board" => Calm!BoardInv

\* A step is one of the program that runs, and what is not run stutters.
LEMMA Steps ==
    ASSUME [Next]_allVars
    PROVE  /\ program' = program
           /\ program # "talk cut" => Talk!Next \/ TalkStays
           /\ program = "talk cut" => TalkCut!Next \/ TalkStays
           /\ program = "msg" => Msg!Next \/ MsgStays
           /\ program = "msg busy" => MsgBusy!Next \/ MsgStays
           /\ program = "msg rough" => MsgRough!Next \/ MsgStays
           /\ program = "board" => Board!Next \/ BoardStays
BY DEF Next, allVars, TalkStays, MsgStays, BoardStays

\* The invariants hold before the program has begun ...
LEMMA Starts == Init => ServersInv
BY CalmTalk, BusyTalk, CalmMsg, BusyMsg, RoughMsg, CalmBoard DEF Init, ServersInv

\* ... and after each of its steps.
LEMMA GoesOn == ServersInv /\ [Next]_allVars => ServersInv'
<1> SUFFICES ASSUME ServersInv, [Next]_allVars PROVE ServersInv'
    OBVIOUS
<1>1. CASE program = "talk cut"
    BY <1>1, Steps, BusyTalk DEF ServersInv
<1>2. CASE program # "talk cut"
    <2>1. program' = program /\ Calm!TalkInv'
        BY <1>2, Steps, CalmTalk DEF ServersInv
    <2>2. /\ program = "msg" => Calm!MsgInv'
          /\ program = "msg busy" => Busy!MsgInv'
          /\ program = "msg rough" => Rough!MsgInv'
        BY Steps, CalmMsg, BusyMsg, RoughMsg DEF ServersInv
    <2>3. program = "board" => Calm!BoardInv'
        BY Steps, CalmBoard DEF ServersInv
    <2> QED BY <1>2, <2>1, <2>2, <2>3 DEF ServersInv
<1> QED BY <1>1, <1>2

\* The invariants hold in every run.
LEMMA Kept == Spec => []ServersInv
BY Starts, GoesOn, PTL DEF Spec, allVars

\* Whichever program runs: the variables have their types and what arrives is what was
\* sent.  In mtalk everything said is on its way to everybody, and nobody is muted or
\* sent away who did not leave; the messages of Msg.pm come in order and whole, and each
\* is answered once; the bulletin board serves nobody what he did not ask for, and no
\* more clients at a time than there is room for.
THEOREM AllInOrder == Spec => []InOrder
<1>1. ServersInv => InOrder
    BY CalmTalk, BusyTalk, CalmMsg, BusyMsg, RoughMsg, CalmBoard DEF ServersInv, InOrder
<1> QED BY <1>1, Kept, PTL

\* Whatever read cuts, and whoever leaves, the select loop of mtalk's server and the
\* recv_buf of its clients show everybody pieces of one and the same talk.
THEOREM OneTalkForAll == Spec => ImplementsBroadcast
<1>1. Init => Talk!Talking!Init
    BY TalkBegins DEF Init
<1>2. ServersInv /\ ServersInv' /\ [Next]_allVars => [Talk!Talking!Next]_<<log, Shown>>
    BY Steps, CalmTalk, BusyTalk DEF ServersInv
<1> QED BY <1>1, <1>2, Kept, PTL
    DEF Spec, allVars, Shown, ImplementsBroadcast, Talk!ImplementsBroadcast, Talk!Talking!Spec
=============================================================================
