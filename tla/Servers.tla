------------------------------ MODULE Servers ------------------------------
(***************************************************************************)
(* The programs in which one server has several clients at a time, for     *)
(* model checking: mtalk ("talk"), mtalk2 on a network that loses nothing   *)
(* ("talk2"), a program on Msg.pm ("msg") and the bulletin board daemons   *)
(* ("board").  The talk is run with reads that are cut ("talk cut") and    *)
(* Msg.pm with all that its network may do to it ("msg rough") and with    *)
(* one message more each ("msg busy"), too.                                *)
(***************************************************************************)
EXTENDS Naturals

CONSTANTS Ann, Bob

VARIABLES
    program,
    (* of Talk *)
    talkSrv, todo, log, talkConn, talkUp, talkDown, talkCl, typed, screen, recv_buf, cuts,
    (* of Talk2 *)
    talker, talk2Srv, talk2Log, talk2Cl, my_slot, talk2Typed, shown, net,
    (* of Msg *)
    msgSrv, ready, handles, sock, err, delivered, msgConn, msgUp, msgDown, msgCl,
    sent, flushed, msgAnswers,
    (* of Bulletin *)
    parent, backlog, held, child, item, lines, tie, client, asked, answers

talkVars == <<talkSrv, todo, log, talkConn, talkUp, talkDown, talkCl, typed, screen,
              recv_buf, cuts>>
talk2Vars == <<talker, talk2Srv, talk2Log, talk2Cl, my_slot, talk2Typed, shown, net>>
msgVars == <<msgSrv, ready, handles, sock, err, delivered, msgConn, msgUp, msgDown, msgCl,
             sent, flushed, msgAnswers>>
boardVars == <<parent, backlog, held, child, item, lines, tie, client, asked, answers>>

Talk == INSTANCE Talk WITH
    N <- 2, MaxLines <- 2, MaxEmpty <- 1, MaxCuts <- 0, Purges <- FALSE, Impatient <- {},
    Ends <- TRUE,
    srv <- talkSrv, conn <- talkConn, up <- talkUp, down <- talkDown, cl <- talkCl

TalkCut == INSTANCE Talk WITH
    N <- 2, MaxLines <- 1, MaxEmpty <- 1, MaxCuts <- 1, Purges <- TRUE, Impatient <- {1},
    Ends <- FALSE,
    srv <- talkSrv, conn <- talkConn, up <- talkUp, down <- talkDown, cl <- talkCl

Talk2 == INSTANCE Talk2 WITH
    Clients <- {Ann, Bob}, MaxAttendants <- 2, MaxLines <- 1, Hasty <- {Ann}, Ends <- TRUE,
    Nobody <- "nobody", network <- "busy",
    srv <- talk2Srv, log <- talk2Log, cl <- talk2Cl, typed <- talk2Typed

Msg == INSTANCE Msg WITH
    Clients <- {Ann, Bob}, Comes <- {Ann, Bob}, Requests <- 1, Sizes <- {1, 2},
    Cap <- 4, Splits <- FALSE, Stale <- FALSE, Dies <- {Ann},
    srv <- msgSrv, conn <- msgConn, up <- msgUp, down <- msgDown, cl <- msgCl,
    answers <- msgAnswers

MsgBusy == INSTANCE Msg WITH
    Clients <- {Ann, Bob}, Comes <- {Ann, Bob}, Requests <- 2, Sizes <- {1},
    Cap <- 6, Splits <- FALSE, Stale <- FALSE, Dies <- {},
    srv <- msgSrv, conn <- msgConn, up <- msgUp, down <- msgDown, cl <- msgCl,
    answers <- msgAnswers

MsgRough == INSTANCE Msg WITH
    Clients <- {Ann, Bob}, Comes <- {Ann}, Requests <- 2, Sizes <- {0, 1, 2},
    Cap <- 4, Splits <- TRUE, Stale <- TRUE, Dies <- {Ann},
    srv <- msgSrv, conn <- msgConn, up <- msgUp, down <- msgDown, cl <- msgCl,
    answers <- msgAnswers

Board == INSTANCE Bulletin WITH
    Clients <- {Ann, Bob}, Lines <- 2, Procs <- 1, Terminates <- TRUE, Dies <- {Ann}

ASSUME ServersBounds ==
    /\ "nobody" \notin {Ann, Bob}
    /\ Talk!TalkAssumption /\ TalkCut!TalkAssumption
    /\ Msg!MsgAssumption /\ MsgBusy!MsgAssumption /\ MsgRough!MsgAssumption
    /\ Board!BulletinAssumption

-----------------------------------------------------------------------------
BoardIdle == Board!Init /\ item = [c \in {Ann, Bob} |-> CHOOSE i \in Board!Items : TRUE]

Init ==
    /\ Talk!Init /\ Talk2!Init
    /\ \/ program \in {"talk", "talk cut", "talk2", "msg", "msg busy"} /\ Msg!Init /\ BoardIdle
       \/ program = "msg rough" /\ MsgRough!Init /\ BoardIdle
       \/ program = "board" /\ Msg!Init /\ Board!Init

Next ==
    /\ UNCHANGED program
    /\ \/ /\ UNCHANGED <<talk2Vars, msgVars, boardVars>>
          /\ \/ program = "talk" /\ Talk!Next
             \/ program = "talk cut" /\ TalkCut!Next
       \/ program = "talk2" /\ Talk2!Next /\ UNCHANGED <<talkVars, msgVars, boardVars>>
       \/ /\ UNCHANGED <<talkVars, talk2Vars, boardVars>>
          /\ \/ program = "msg" /\ Msg!Next
             \/ program = "msg busy" /\ MsgBusy!Next
             \/ program = "msg rough" /\ MsgRough!Next
       \/ program = "board" /\ Board!Next /\ UNCHANGED <<talkVars, talk2Vars, msgVars>>

\* The fairness of Talk, Talk2, Msg and Bulletin.
Fairness ==
    /\ WF_talkVars(program = "talk" /\ Talk!Server)
    /\ \A c \in {1, 2} :
          /\ WF_talkVars(program = "talk" /\ Talk!TypeName(c))
          /\ WF_talkVars(program = "talk" /\ Talk!Show(c))
          /\ WF_talkVars(program = "talk" /\ Talk!Reset(c))
    /\ WF_talk2Vars(program = "talk2" /\ Talk2!Server)
    /\ \A c \in {Ann, Bob} :
          /\ WF_talk2Vars(program = "talk2" /\ Talk2!Read(c))
          /\ WF_talk2Vars(program = "talk2" /\ Talk2!SessionInit(c))
    /\ WF_msgVars(program \in {"msg", "msg busy"}
                  /\ (Msg!Select \/ \E c \in {Ann, Bob} : Msg!Serve(c)))
    /\ \A c \in {Ann, Bob} :
          WF_msgVars(\/ program = "msg" /\ Msg!Run(c)
                     \/ program = "msg busy" /\ MsgBusy!Run(c))
    /\ WF_boardVars(program = "board"
                    /\ (Board!Accept \/ \E c \in {Ann, Bob} : Board!Fork(c) \/ Board!Close(c)))
    /\ \A c \in {Ann, Bob} : WF_boardVars(program = "board" /\ Board!Serve(c))

Spec == Init /\ [][Next]_<<program, talkVars, talk2Vars, msgVars, boardVars>> /\ Fairness

-----------------------------------------------------------------------------
(* Properties                                                              *)

\* Whatever read cuts, and whoever leaves, mtalk shows everybody one and the
\* same talk.
ImplementsBroadcast == Talk!ImplementsBroadcast

\* Every variable has its type, and what arrives is what was sent: in the talk
\* everything said is on its way to everybody, and nobody is muted or sent away
\* who did not leave; messages come in order, whole, and each is answered once; no
\* client of the board is served what it did not ask for, and no more clients at
\* a time than there is room for.
InOrder ==
    /\ Talk!CaughtUp /\ Talk!NobodyMuted
    /\ program = "talk" => Talk!TypeOK /\ Talk!LeftForQuit
    /\ program = "talk cut" => TalkCut!TypeOK /\ TalkCut!LeftForQuit
    /\ program \in {"msg", "msg busy"} => Msg!Delivery /\ Msg!Farewell /\ Msg!Earned
    /\ program = "msg" => Msg!TypeOK /\ Msg!OutlivesPolite
    /\ program = "msg busy" => MsgBusy!TypeOK
    /\ program = "msg rough" =>
          MsgRough!TypeOK /\ MsgRough!Delivery /\ MsgRough!Farewell /\ MsgRough!Earned
    /\ program = "board" => Board!TypeOK /\ Board!Asked /\ Board!Room


\* The end of one is noticed by the others, in the end: a quit that is read whole
\* ends the talk for all, the slot of one who left mtalk2 is free and its server
\* leaves nobody behind, the server of Msg.pm and the child of a board's client
\* learn that the client has gone, and the client that its child has ended.
EndNoticed ==
    <>[] /\ program = "talk" => Talk!QuitEnds /\ Talk!ServerFollows
         /\ program = "talk2" => Talk2!Returned /\ Talk2!Closed
         /\ program = "msg" => Msg!Parted
         /\ program = "msg busy" => MsgBusy!Parted
         /\ program = "board" => Board!NoOrphan /\ Board!EndSeen
=============================================================================
