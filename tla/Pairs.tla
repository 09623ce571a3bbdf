-------------------------------- MODULE Pairs --------------------------------
(***************************************************************************)
(* The programs of which two talk over one connection, for model checking: *)
(* sanmoku, simple_chat and tag.  `program' says which is run, and whether *)
(* roughly: then programs are killed, reads return parts of a line and a   *)
(* reset loses what it overtakes.  What they promise is stated for all.    *)
(***************************************************************************)
EXTENDS Sanmoku

VARIABLES
    program, rough,
    deadPc, deadPlane, deadLink, deadTie,               (* Sanmoku, rough  *)
    chatPc, chatBuf, said, quit, chatLink, chatTie,     (* SimpleChat      *)
    run, me, peer, buf, ready, typed, ahead, presses, tagLink, tagTie   (* Tag *)

deadVars == <<deadPc, deadPlane, deadLink, deadTie>>
chatVars == <<chatPc, chatBuf, said, quit, chatLink, chatTie>>
tagVars == <<run, me, peer, buf, ready, typed, ahead, presses, tagLink, tagTie>>
pairVars == <<program, rough, vars, deadVars, chatVars, tagVars>>

Dead == INSTANCE Sanmoku WITH
    Dies <- Players, pc <- deadPc, plane <- deadPlane, link <- deadLink, tie <- deadTie

Chat == INSTANCE SimpleChat WITH
    Rounds <- 6, Splits <- FALSE, Dies <- {"client"},
    pc <- chatPc, buf <- chatBuf, link <- chatLink, tie <- chatTie

ChatInParts == INSTANCE SimpleChat WITH
    Rounds <- 4, Splits <- TRUE, Dies <- {"client"},
    pc <- chatPc, buf <- chatBuf, link <- chatLink, tie <- chatTie

Tag == INSTANCE Tag WITH
    MaxX <- 3, MaxY <- 2, ClientX <- 2, ClientY <- 2, Keys <- {"h", "l", "j", "q"}, Presses <- 2,
    Interrupts <- {"client"}, Splits <- FALSE, Losses <- FALSE, link <- tagLink, tie <- tagTie

TagInParts == INSTANCE Tag WITH
    MaxX <- 3, MaxY <- 2, ClientX <- 2, ClientY <- 2, Keys <- {"l", "q"}, Presses <- 2,
    Interrupts <- {"client"}, Splits <- TRUE, Losses <- TRUE, link <- tagLink, tie <- tagTie

ASSUME PairsBounds ==
    /\ Dies = {}
    /\ Chat!SimpleChatAssumption /\ ChatInParts!SimpleChatAssumption
    /\ Tag!TagAssumption /\ TagInParts!TagAssumption

PairsInit ==
    /\ program \in {"sanmoku", "simple_chat", "tag"} /\ rough \in BOOLEAN
    /\ Init /\ Dead!Init /\ Chat!Init /\ Tag!Init

PairsNext ==
    /\ UNCHANGED <<program, rough>>
    /\ \/ program = "sanmoku" /\ ~rough /\ Next /\ UNCHANGED <<deadVars, chatVars, tagVars>>
       \/ program = "sanmoku" /\ rough /\ Dead!Next /\ UNCHANGED <<vars, chatVars, tagVars>>
       \/ /\ program = "simple_chat" /\ UNCHANGED <<vars, deadVars, tagVars>>
          /\ \/ ~rough /\ Chat!Next
             \/ rough /\ ChatInParts!Next
       \/ /\ program = "tag" /\ UNCHANGED <<vars, deadVars, chatVars>>
          /\ \/ ~rough /\ Tag!Next
             \/ rough /\ TagInParts!Next

\* The fairness of the three modules, where nothing is rough.
PairsFairness ==
    \A p \in Players :
        /\ WF_vars(program = "sanmoku" /\ ~rough /\ PeerTurn(p))
        /\ WF_chatVars(program = "simple_chat" /\ ~rough /\ Chat!Read(p))
        /\ WF_tagVars(program = "tag" /\ ~rough /\ (Tag!Select(p) \/ Tag!Key(p) \/ Tag!Wire(p)))

PairsSpec == PairsInit /\ [][PairsNext]_pairVars /\ PairsFairness

-----------------------------------------------------------------------------
(* Properties; ImplementsBoard is that of Sanmoku.                         *)

\* Every variable has its type, and the two see the same, up to what is under
\* way: one board, two lines in turn, and the other where he has been.
SameView ==
    /\ TypeOK /\ Dead!TypeOK /\ Chat!TypeOK /\ Tag!TypeOK
    /\ Agree
    /\ ~rough => Chat!Turns /\ Tag!Mirror

\* Neither waits for the other while he waits, whoever is killed and whatever a
\* read returns; in sanmoku the two never have both the move.
NeitherWaits ==
    /\ Waits /\ OneMove /\ Dead!Waits /\ Dead!OneMove
    /\ ChatInParts!Waits

\* Only one who quits sends the other away: in tag even when messages come in
\* pieces, the rest of a buffer holds an old "q", or the peer has gone; and the
\* server of simple_chat, which cannot quit, leaves last.
NobodySentAway == TagInParts!NotSentAway /\ Chat!LastOut

\* Where lines come whole a quit ends both programs, and once nobody types any
\* more each player of tag sees the other where he is.
QuitHeard == ~rough => Farewell /\ Chat!Farewell /\ Tag!Farewell /\ Tag!Settles
=============================================================================
