-------------------------------- MODULE Talk --------------------------------
(***************************************************************************)
(* mtalk: a talk over TCP (c/network/mtalk).  The server takes the people  *)
(* in, one after the other, asks each for his name, and then writes what   *)
(* it reads from one of them, with his name before it, to all of them.     *)
(* Neither side looks at what read or write returns: a client that left is *)
(* readable for ever, and speaks without words until a write to it kills   *)
(* the server.  A client leaves when "quit" is in its buffer, where what   *)
(* one read left is still there behind what the next one brought.          *)
(*                                                                         *)
(* Text is a sequence of pieces that a read may end between; "quit" is two *)
(* of them.                                                                *)
(***************************************************************************)
EXTENDS Naturals, FiniteSets, Functions, SequencesExt

CONSTANTS
    N,            (* the number of people                                  *)
    MaxLines,     (* bound: the lines typed by all together after the names*)
    MaxEmpty,     (* bound: reads of nothing before a reset has arrived    *)
    MaxCuts,      (* bound: reads that do not return all there is          *)
    Purges,       (* may the reset of a server that exits take what its    *)
                  (* clients have not read yet?                            *)
    Impatient,    (* those who may press ^C                                *)
    Ends          (* may a key be pressed at the server?                   *)

People == 1 .. N

TalkAssumption ==
    /\ N \in Nat \ {0} /\ MaxLines \in Nat /\ MaxEmpty \in Nat \ {0}
    /\ MaxCuts \in Nat /\ Purges \in BOOLEAN /\ Ends \in BOOLEAN
    /\ Impatient \subseteq People

VARIABLES
    srv,          (* the server: pc, and the i, j and buf of its loops     *)
    todo,         (* the attendants select has found, not yet read         *)
    log,          (* what send_all was given, names included               *)
    conn,         (* what the server's kernel knows of each client         *)
    up,           (* pieces each client has sent, not yet read             *)
    down,         (* pieces sent to each client, not yet read              *)
    cl,           (* what has become of each client                        *)
    typed,        (* lines each has typed, the name being the first        *)
    screen,       (* what each was shown                                   *)
    recv_buf,
    cuts          (* reads that ended before the last piece                *)

server == <<srv, todo, log>>
client == <<cl, typed, screen, recv_buf>>
vars == <<srv, todo, log, conn, up, down, cl, typed, screen, recv_buf,
          cuts>>

\* A piece is what it says and whose it is.
Name(i) == <<"name", i>>
Lines(i) == {<< <<"it", i>> >>, << <<"qu", i>>, <<"it", i>> >>}
Ready == <<"ready", 0>>
Bye == <<"q", 0>>
Words == {"name", "qu", "it"} \X People
Pieces == Words \cup {Ready, Bye}

Init ==
    /\ srv = [pc |-> "enter", i |-> 1, j |-> 1, buf |-> <<>>]
    /\ todo = {}
    /\ log = <<>>
    /\ conn = [c \in People |-> "open"]
    /\ up = [c \in People |-> <<>>]
    /\ down = [c \in People |-> <<>>]
    /\ cl = [c \in People |-> "in"]
    /\ typed = [c \in People |-> 0]
    /\ screen = [c \in People |-> <<>>]
    /\ recv_buf = [c \in People |-> <<>>]
    /\ cuts = 0

\* What read returns: some of what there is, at least one piece.
Reads(s, k) ==
    /\ k \in 1 .. Len(s)
    /\ cuts' = IF k < Len(s) THEN cuts + 1 ELSE cuts
    /\ cuts' <= MaxCuts
Taken(s, k) == SubSeq(s, 1, k)
Rest(s, k) == SubSeq(s, k + 1, Len(s))

-----------------------------------------------------------------------------
(* The server: sessionman.c                                                *)

At(pc, i, j, buf) == srv' = [pc |-> pc, i |-> i, j |-> j, buf |-> buf]

\* write to j.  A client that has gone answers the first piece with a reset;
\* when the reset has come, the next write is the server's last.
Write(j, s) ==
    /\ conn[j] # "reset"
    /\ down' = IF conn[j] = "open" THEN [down EXCEPT ![j] = @ \o s] ELSE down
    /\ conn' = IF conn[j] = "closed" /\ s # <<>> THEN [conn EXCEPT ![j] = "hit"] ELSE conn

\* What the server is about to write to srv.j.
Speech == CASE srv.pc = "ready" -> <<Ready>>
            [] srv.pc = "name"  -> <<Name(srv.i)>>
            [] srv.pc = "text"  -> srv.buf
            [] srv.pc = "bye"   -> <<Bye>>

Writing == srv.pc \in {"ready", "name", "text", "bye"}

\* enter: the name is read, and the next one is let in.
Enter ==
    /\ srv.pc = "enter" /\ up[srv.i] # <<>>
    /\ up' = [up EXCEPT ![srv.i] = Tail(@)]
    /\ IF srv.i < N THEN At("enter", srv.i + 1, 1, <<>>) ELSE At("ready", 1, 1, <<>>)
    /\ UNCHANGED <<todo, log, conn, down, client, cuts>>

\* sessionman_init, for one after the other.
SessionInit ==
    /\ srv.pc = "ready" /\ Write(srv.j, Speech)
    /\ IF srv.j < N THEN At("ready", 1, srv.j + 1, <<>>) ELSE At("select", 1, 1, <<>>)
    /\ UNCHANGED <<todo, log, up, client, cuts>>

\* sessionman_loop: select.
Readable == {i \in People : up[i] # <<>> \/ conn[i] # "open"}

Select ==
    /\ srv.pc = "select" /\ Readable # {}
    /\ todo' = Readable
    /\ At("read", 1, 1, <<>>)
    /\ UNCHANGED <<log, conn, up, down, client, cuts>>

First == {i \in todo : \A k \in todo : i <= k}

\* The reads that returned nothing have left a name without words.
IsName(t) == t[1] = "name"
Speechless == {k \in DOMAIN log : IsName(log[k]) /\ (k < Len(log) => IsName(log[k + 1]))}

\* read from i, who may have gone; send_all is called whatever it returned.
Read(i) ==
    /\ srv.pc = "read" /\ i \in First
    /\ IF up[i] # <<>>
       THEN \E k \in 1 .. Len(up[i]) :
               /\ Reads(up[i], k)
               /\ up' = [up EXCEPT ![i] = Rest(@, k)]
               /\ log' = log \o <<Name(i)>> \o Taken(up[i], k)
               /\ At("name", i, 1, Taken(up[i], k))
       ELSE /\ Cardinality(Speechless) < MaxEmpty \/ \E c \in People : conn[c] = "reset"
            /\ log' = Append(log, Name(i))
            /\ At("name", i, 1, <<>>)
            /\ UNCHANGED <<up, cuts>>
    /\ todo' = todo \ {i}
    /\ UNCHANGED <<conn, down, client>>

\* send_all: the name, and then what was read, to one after the other.
SendName ==
    /\ srv.pc = "name" /\ Write(srv.j, Speech)
    /\ At("text", srv.i, srv.j, srv.buf)
    /\ UNCHANGED <<todo, log, up, client, cuts>>

SendText ==
    /\ srv.pc = "text" /\ Write(srv.j, Speech)
    /\ IF srv.j < N THEN At("name", srv.i, srv.j + 1, srv.buf)
       ELSE IF todo # {} THEN At("read", 1, 1, <<>>) ELSE At("select", 1, 1, <<>>)
    /\ UNCHANGED <<todo, log, up, client, cuts>>

\* ending: a key was pressed.  "q" goes to everybody, and the server exits.
Ending ==
    /\ Ends /\ srv.pc = "select"
    /\ At("bye", 1, 1, <<>>)
    /\ UNCHANGED <<todo, log, conn, up, down, client, cuts>>

SayBye ==
    /\ srv.pc = "bye" /\ Write(srv.j, Speech)
    /\ IF srv.j < N THEN At("bye", 1, srv.j + 1, <<>>) ELSE At("down", 1, 1, <<>>)
    /\ UNCHANGED <<todo, log, up, client, cuts>>

\* SIGPIPE, which nothing catches.
Killed ==
    /\ Writing /\ conn[srv.j] = "reset"
    /\ At("down", 1, 1, <<>>)
    /\ UNCHANGED <<todo, log, conn, up, down, client, cuts>>

Server ==
    \/ Enter \/ SessionInit \/ Select \/ \E i \in People : Read(i)
    \/ SendName \/ SendText \/ SayBye \/ Killed

-----------------------------------------------------------------------------
(* The client: session.c                                                   *)

Prompted(c) == srv.pc = "enter" /\ srv.i = c /\ typed[c] = 0
Named(c) == typed[c] > 0 /\ ~(srv.pc = "enter" /\ srv.i <= c)

CanType == FoldFunction(+, 0, typed) < N + MaxLines

\* Everybody gives his name when he is asked for it, and then waits for "Wait."
TypeName(c) ==
    /\ Prompted(c)
    /\ up' = [up EXCEPT ![c] = <<Name(c)>>]
    /\ typed' = [typed EXCEPT ![c] = 1]
    /\ UNCHANGED <<server, conn, down, cl, screen, recv_buf, cuts>>

\* session_loop: a line goes out in one write ...
Type(c) ==
    /\ Named(c) /\ cl[c] = "in" /\ CanType
    /\ typed' = [typed EXCEPT ![c] = @ + 1]
    /\ srv.pc # "down"
    /\ \E s \in Lines(c) : up' = [up EXCEPT ![c] = @ \o s]
    /\ UNCHANGED <<server, conn, down, cl, screen, recv_buf, cuts>>

\* ... or into a connection that is gone: the second time it is a SIGPIPE,
\* which leaves the terminal as curses has it.
TypeInVain(c) ==
    /\ cl[c] = "in" /\ CanType
    /\ typed' = [typed EXCEPT ![c] = @ + 1]
    /\ srv.pc = "down"
    /\ cl' \in {cl, [cl EXCEPT ![c] = "killed"]}
    /\ UNCHANGED <<server, conn, up, down, screen, recv_buf, cuts>>

\* The socket is closed: with pieces unread it is reset, else it ends.
Close(c, unread) ==
    /\ conn' = [conn EXCEPT ![c] = IF unread # <<>> THEN "hit" ELSE "closed"]
    /\ down' = [down EXCEPT ![c] = <<>>]

\* strstr(recv_buf, "quit")
QuitIn(buf) ==
    \E k \in 1 .. Len(buf) - 1 : buf[k][1] = "qu" /\ buf[k + 1][1] = "it"

\* What is read lies over what was in the buffer before.
Over(s, buf) == s \o Rest(buf, Len(s))

\* Mistake: the whole buffer is shown, not what was read.
ShowAgain(c) ==
    /\ cl[c] = "in" /\ Named(c) /\ down[c] # <<>>
    /\ \E k \in 1 .. Len(down[c]) :
        /\ Reads(down[c], k)
        /\ screen' = [screen EXCEPT ![c] = @ \o Over(Taken(down[c], k), recv_buf[c])]
        /\ recv_buf' = [recv_buf EXCEPT ![c] = Over(Taken(down[c], k), @)]
        /\ down' = [down EXCEPT ![c] = Rest(@, k)]
    /\ UNCHANGED <<server, up, conn, cl, typed>>

\* session_loop: a read is shown, and searched for "quit".
Show(c) ==
    /\ cl[c] = "in" /\ Named(c) /\ down[c] # <<>>
    /\ \E k \in 1 .. Len(down[c]) :
        LET s == Taken(down[c], k)
            unread == Rest(down[c], k)
            buf == Over(s, recv_buf[c])
        IN /\ Reads(down[c], k)
           /\ screen' = [screen EXCEPT ![c] = @ \o s]
           /\ recv_buf' = [recv_buf EXCEPT ![c] = buf]
           /\ IF QuitIn(buf)
              THEN /\ cl' = [cl EXCEPT ![c] = "left"]
                   /\ Close(c, unread)
              ELSE /\ down' = [down EXCEPT ![c] = unread]
                   /\ UNCHANGED <<cl, conn>>
    /\ UNCHANGED <<server, up, typed>>

\* ^C: die.
Interrupt(c) ==
    /\ c \in Impatient /\ cl[c] = "in" /\ Named(c)
    /\ cl' = [cl EXCEPT ![c] = "left"]
    /\ Close(c, down[c])
    /\ UNCHANGED <<server, up, typed, screen, recv_buf, cuts>>

-----------------------------------------------------------------------------
(* The network                                                             *)

\* The reset of a client that has gone arrives at the server.
Reset(c) ==
    /\ conn[c] = "hit" /\ srv.pc # "down"
    /\ conn' = [conn EXCEPT ![c] = "reset"]
    /\ UNCHANGED <<server, up, down, client, cuts>>

\* The reset of a server that exits with pieces unread overtakes what was
\* under way to the client.
Purge(c) ==
    /\ Purges /\ srv.pc = "down" /\ up[c] # <<>> /\ down[c] # <<>>
    /\ down' = [down EXCEPT ![c] = Front(@)]
    /\ UNCHANGED <<server, conn, up, client, cuts>>

Next ==
    \/ Server \/ Ending
    \/ \E c \in People : TypeName(c) \/ Type(c) \/ TypeInVain(c) \/ Show(c)
                            \/ Interrupt(c) \/ Reset(c) \/ Purge(c)

Safety == Init /\ [][Next]_vars

\* The server goes on, everybody gives his name, a client shows what there is
\* and a reset arrives.  Nobody has to say anything, or to press a key.
Fairness ==
    /\ WF_vars(Server)
    /\ \A c \in People : WF_vars(TypeName(c)) /\ WF_vars(Show(c)) /\ WF_vars(Reset(c))

Spec == Safety /\ Fairness

-----------------------------------------------------------------------------
\* Every variable has its type.
TypeOK ==
    /\ srv \in [pc : {"enter", "ready", "select", "read", "name", "text", "bye", "down"},
                i : People, j : People, buf : Seq(Words)]
    /\ todo \subseteq People
    /\ log \in Seq(Words)
    /\ conn \in [People -> {"open", "closed", "hit", "reset"}]
    /\ up \in [People -> Seq(Words)]
    /\ down \in [People -> Seq(Pieces)]
    /\ cl \in [People -> {"in", "left", "killed"}]
    /\ typed \in [People -> Nat]
    /\ screen \in [People -> Seq(Pieces)]
    /\ recv_buf \in [People -> Seq(Pieces)]
    /\ cuts \in 0 .. MaxCuts

\* What somebody said: all but the announcements of the server, the one that
\* comes first and the one that comes last.
Said(s) == SubSeq(s, 2, IF s # <<>> /\ s[Len(s)] = Bye THEN Len(s) - 1 ELSE Len(s))

\* Whatever read cuts, and whoever leaves, everybody is shown one and the same
\* talk.
Talking == INSTANCE Broadcast
    WITH Readers <- People, shown <- [c \in People |-> Said(screen[c])]
ImplementsBroadcast == Talking!Spec

\* Between two turns everything said is on the screen of everybody in the
\* session, or on the way there.
CaughtUp ==
    srv.pc = "select" =>
        \A c \in People : cl[c] = "in" => Said(screen[c] \o down[c]) = log

\* An empty line appears only under the name of one who has left.
NobodyMuted == \A k \in Speechless : cl[log[k][2]] # "in"

\* Nobody leaves, who did not press ^C, unless somebody had begun to say quit.
LeftForQuit ==
    \A c \in People \ Impatient :
        cl[c] = "left" => \E k \in DOMAIN log : log[k][1] = "qu"

\* A quit that is read in one piece ends the talk for everybody, in the end.
QuitEnds ==
    MaxCuts = 0 /\ ~Purges /\ Impatient = {} /\ (\E k \in DOMAIN log : log[k][1] = "qu")
        => \A c \in People : cl[c] # "in"

\* When one has left, the server follows, in the end.
ServerFollows == \A c \in People : cl[c] = "left" => srv.pc = "down"
=============================================================================
