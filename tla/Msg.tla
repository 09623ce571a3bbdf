--------------------------------- MODULE Msg ---------------------------------
(***************************************************************************)
(* Messages over sockets (perl/practical_perl/Msg.pm), between the server  *)
(* of msg_server.plx, which answers every message with an OK, and clients  *)
(* that send and then receive, as msg_client.plx does.                     *)
(*                                                                         *)
(* $blocking_supported is set in a BEGIN block, and set back to 0 when the *)
(* program reaches its declaration: every read and write blocks, inside    *)
(* the event loop too.  wt_handles is never added to, so that a message of *)
(* send_later goes when the next send_now flushes the queue.               *)
(*                                                                         *)
(* A message is a header of two pieces, and a body of as many as its size. *)
(***************************************************************************)
EXTENDS Naturals, FiniteSetsExt, SequencesExt

CONSTANTS
    Clients,
    Comes,        (* bound: those of them who connect                      *)
    Requests,     (* bound: the messages a client sends                    *)
    Sizes,        (* sizes of their bodies                                 *)
    Cap,          (* pieces that a connection holds in either direction    *)
    Splits,       (* may a write be taken in parts when there is room?     *)
    Stale,        (* may $! hold an error that is none of the library's?   *)
    Dies          (* clients that may be killed                            *)

MsgAssumption ==
    /\ Requests \in Nat /\ Sizes \subseteq Nat /\ Cap \in Nat \ {0}
    /\ Splits \in BOOLEAN /\ Stale \in BOOLEAN /\ Dies \subseteq Clients

VARIABLES
    srv,          (* the server: pc, conn, left (bytes_to_read), msg, out  *)
    ready,        (* what select returned and is not served yet            *)
    handles,      (* rd_handles, without the main socket                   *)
    sock,         (* the server's end of each connection                   *)
    err,          (* $! of the server                                      *)
    delivered,    (* sizes of the messages its callback got                *)
    conn,         (* the client's end, as far as the server's kernel knows *)
    up, down,     (* pieces under way                                      *)
    cl,           (* each client: pc, queue, left                          *)
    sent,         (* sizes of the messages each has sent                   *)
    flushed,      (* how many of them a send_now has covered               *)
    answers       (* sizes of the answers rcv_now returned                 *)

server == <<srv, ready, handles, sock, err, delivered>>
client == <<cl, sent, flushed, answers>>
vars == <<srv, ready, handles, sock, err, delivered, conn, up, down,
          cl, sent, flushed, answers>>

\* A piece of a header tells the size of its message.
Pieces == [part : {"head", "body"}, size : Nat]

\* _enqueue
Message(z) ==
    [i \in 1 .. z + 2 |-> [part |-> IF i <= 2 THEN "head" ELSE "body", size |-> z]]

Ok == Message(1)

Init ==
    /\ srv = [pc |-> "select", conn |-> {}, left |-> 0, msg |-> 0, out |-> <<>>]
    /\ ready = {} /\ handles = {} /\ err \in {FALSE, Stale}
    /\ sock = [c \in Clients |-> "none"]
    /\ delivered = [c \in Clients |-> <<>>]
    /\ conn = [c \in Clients |-> "none"]
    /\ up = [c \in Clients |-> <<>>] /\ down = [c \in Clients |-> <<>>]
    /\ cl = [c \in Clients |-> [pc |-> "start", queue |-> <<>>, left |-> 0, msg |-> 0]]
    /\ sent = [c \in Clients |-> <<>>]
    /\ flushed = [c \in Clients |-> 0]
    /\ answers = [c \in Clients |-> <<>>]

\* syswrite takes k of the pieces of s into a buffer that holds b.
Takes(b, s, k) ==
    LET most == Min({Len(s), Cap - Len(b)}) IN
    IF Splits THEN k \in 1 .. most ELSE k = most /\ k > 0

From(s, k) == SubSeq(s, k + 1, Len(s))

-----------------------------------------------------------------------------
(* The server                                                              *)

\* Where it is within the callbacks: conn is the singleton of the client.
At(pc, c, left, msg, out) ==
    srv' = [pc |-> pc, conn |-> {c}, left |-> left, msg |-> msg, out |-> out]
Loop == srv' = [pc |-> IF ready = {} THEN "select" ELSE "serve",
                conn |-> {}, left |-> 0, msg |-> 0, out |-> <<>>]

\* The main socket is readable for each client in its backlog.
Backlog == {c \in Clients : conn[c] # "none" /\ sock[c] = "none"}

Readable == {c \in handles : up[c] # <<>> \/ conn[c] # "open"}

\* event_loop: select.  One client is accepted at a time.
Select ==
    /\ srv.pc = "select"
    /\ \E new \in {{c} : c \in Backlog} \cup {{}} :
          /\ new = {} => Backlog = {}
          /\ ready' = Readable \cup new
    /\ ready' # {}
    /\ srv' = [srv EXCEPT !.pc = "serve"]
    /\ UNCHANGED <<handles, sock, err, delivered, conn, up, down, client>>

\* _new_client
Accept(c) ==
    /\ srv.pc = "serve" /\ c \in ready /\ sock[c] = "none"
    /\ sock' = [sock EXCEPT ![c] = "open"]
    /\ handles' = handles \cup {c}
    /\ ready' = ready \ {c}
    /\ srv' = [srv EXCEPT !.pc = IF ready' = {} THEN "select" ELSE "serve"]
    /\ UNCHANGED <<err, delivered, conn, up, down, client>>

\* _rcv: four bytes are read.  If fewer came, or $! holds an error, whatever
\* it is from, this is the end.
Header(c) ==
    /\ srv.pc = "serve" /\ c \in ready /\ sock[c] = "open"
    /\ ready' = ready \ {c}
    /\ LET k == Min({2, Len(up[c])}) IN
       /\ up' = [up EXCEPT ![c] = From(@, k)]
       /\ IF k = 2 /\ ~err THEN At("body", c, Head(up[c]).size, 0, <<>>)
                           ELSE At("finish", c, 0, 0, <<>>)
    /\ UNCHANGED <<handles, sock, err, delivered, conn, down, client>>

\* _rcv: the body, until it is complete or the connection ends.
Body(c) ==
    /\ srv.pc = "body" /\ c \in srv.conn
    /\ IF srv.left = 0 THEN At("finish", c, 0, srv.msg, <<>>) /\ UNCHANGED up
       ELSE LET k == Min({srv.left, Len(up[c])}) IN
            /\ up[c] # <<>> \/ conn[c] # "open"
            /\ up' = [up EXCEPT ![c] = From(@, k)]
            /\ IF k = 0 THEN At("finish", c, 0, srv.msg, <<>>)
                        ELSE At("body", c, srv.left - k, srv.msg + k, <<>>)
    /\ UNCHANGED <<ready, handles, sock, err, delivered, conn, down, client>>

\* _rcv: with nothing read, the connection is closed and $! forgotten.  The
\* callback is called in any case: it prints, which may set $!, and answers,
\* which does nothing any more on a connection that is closed.
Finish(c) ==
    /\ srv.pc = "finish" /\ c \in srv.conn
    /\ IF srv.msg = 0
       THEN /\ sock' = [sock EXCEPT ![c] = "closed"]
            /\ handles' = handles \ {c}
            /\ err' \in {FALSE, Stale}
            /\ Loop
       ELSE /\ At("write", c, 0, 0, Ok)
            /\ err' \in {err, err \/ Stale}
            /\ UNCHANGED <<sock, handles>>
    /\ delivered' = [delivered EXCEPT ![c] = Append(@, srv.msg)]
    /\ UNCHANGED <<ready, conn, up, down, client>>

\* _send: one syswrite, of as much as there is room for.
Write(c) ==
    /\ srv.pc = "write" /\ c \in srv.conn /\ conn[c] = "open"
    /\ \E k \in 1 .. Len(srv.out) :
          /\ Takes(down[c], srv.out, k)
          /\ down' = [down EXCEPT ![c] = @ \o SubSeq(srv.out, 1, k)]
          /\ IF k < Len(srv.out) THEN At("write", c, 0, 0, From(srv.out, k)) ELSE Loop
    /\ UNCHANGED <<ready, handles, sock, err, delivered, conn, up, client>>

\* The same to a client that has gone, which answers with a reset.
WriteInVain(c) ==
    /\ srv.pc = "write" /\ c \in srv.conn /\ conn[c] \in {"closed", "hit"}
    /\ \E k \in 1 .. Len(srv.out) :
          /\ Takes(<<>>, srv.out, k)
          /\ IF k < Len(srv.out) THEN At("write", c, 0, 0, From(srv.out, k)) ELSE Loop
    /\ conn' = [conn EXCEPT ![c] = "hit"]
    /\ UNCHANGED <<ready, handles, sock, err, delivered, up, down, client>>

\* After the reset, SIGPIPE.
Killed(c) ==
    /\ srv.pc = "write" /\ c \in srv.conn /\ conn[c] = "reset"
    /\ At("killed", c, 0, 0, <<>>)
    /\ UNCHANGED <<ready, handles, sock, err, delivered, conn, up, down, client>>

Serve(c) ==
    \/ Accept(c) \/ Header(c) \/ Body(c) \/ Finish(c)
    \/ Write(c) \/ WriteInVain(c) \/ Killed(c)

-----------------------------------------------------------------------------
(* A client                                                                *)

Client(c, pc, queue, left, msg) ==
    cl' = [cl EXCEPT ![c] = [pc |-> pc, queue |-> queue, left |-> left, msg |-> msg]]

Connect(c) ==
    /\ c \in Comes /\ cl[c].pc = "start" /\ srv.pc # "killed"
    /\ conn' = [conn EXCEPT ![c] = "open"]
    /\ Client(c, "free", <<>>, 0, 0)
    /\ UNCHANGED <<server, up, down, sent, flushed, answers>>

\* Mistake: the message goes before those that wait.
SendNowFirst(c) ==
    /\ cl[c].pc = "free" /\ Len(sent[c]) < Requests
    /\ \E z \in Sizes :
          /\ Client(c, "write", Message(z) \o cl[c].queue, 0, 0)
          /\ sent' = [sent EXCEPT ![c] = Append(@, z)]
          /\ flushed' = [flushed EXCEPT ![c] = Len(sent[c]) + 1]
    /\ UNCHANGED <<server, conn, up, down, answers>>

\* send_now enqueues and flushes ...
SendNow(c) ==
    /\ cl[c].pc = "free" /\ Len(sent[c]) < Requests
    /\ \E z \in Sizes :
          /\ Client(c, "write", cl[c].queue \o Message(z), 0, 0)
          /\ sent' = [sent EXCEPT ![c] = Append(@, z)]
          /\ flushed' = [flushed EXCEPT ![c] = Len(sent[c]) + 1]
    /\ UNCHANGED <<server, conn, up, down, answers>>

\* ... and send_later enqueues.
SendLater(c) ==
    /\ cl[c].pc = "free" /\ Len(sent[c]) < Requests
    /\ \E z \in Sizes :
          /\ Client(c, "free", cl[c].queue \o Message(z), 0, 0)
          /\ sent' = [sent EXCEPT ![c] = Append(@, z)]
    /\ UNCHANGED <<server, conn, up, down, flushed, answers>>

\* _send: one syswrite.
Push(c) ==
    /\ cl[c].pc = "write" /\ sock[c] # "closed" /\ srv.pc # "killed"
    /\ \E k \in 1 .. Len(cl[c].queue) :
          /\ Takes(up[c], cl[c].queue, k)
          /\ up' = [up EXCEPT ![c] = @ \o SubSeq(cl[c].queue, 1, k)]
          /\ Client(c, IF k < Len(cl[c].queue) THEN "write" ELSE "free",
                    From(cl[c].queue, k), 0, 0)
    /\ UNCHANGED <<server, conn, down, sent, flushed, answers>>

\* The server is gone, or has closed the connection: what is written is lost,
\* and sooner or later so is the client.
PushInVain(c) ==
    /\ cl[c].pc = "write" /\ (sock[c] = "closed" \/ srv.pc = "killed")
    /\ \E pc \in {"free", "dead"} : Client(c, pc, <<>>, 0, 0)
    /\ UNCHANGED <<server, conn, up, down, sent, flushed, answers>>

\* The client takes as many answers as it has sent messages.
Owed(c) == Len(answers[c]) < flushed[c]
Ended(c) == sock[c] = "closed" \/ srv.pc = "killed"

\* rcv_now: its header, with this client's own $! ...
ReadHeader(c) ==
    /\ cl[c].pc = "free" /\ Owed(c) /\ (down[c] # <<>> \/ Ended(c))
    /\ LET k == Min({2, Len(down[c])}) IN
       /\ down' = [down EXCEPT ![c] = From(@, k)]
       /\ \E stale \in {FALSE, Stale} :
             IF k = 2 /\ ~stale
             THEN Client(c, "body", cl[c].queue, Head(down[c]).size, 0)
             ELSE Client(c, "got", cl[c].queue, 0, 0)
    /\ UNCHANGED <<server, conn, up, sent, flushed, answers>>

\* ... its body ...
ReadBody(c) ==
    /\ cl[c].pc = "body" /\ (down[c] # <<>> \/ Ended(c))
    /\ LET k == Min({cl[c].left, Len(down[c])}) IN
       /\ down' = [down EXCEPT ![c] = From(@, k)]
       /\ Client(c, IF k \in {0, cl[c].left} THEN "got" ELSE "body", cl[c].queue,
                 cl[c].left - k, cl[c].msg + k)
    /\ UNCHANGED <<server, conn, up, sent, flushed, answers>>

Close(c) ==
    /\ conn' = [conn EXCEPT ![c] = IF down[c] # <<>> THEN "hit" ELSE "closed"]
    /\ down' = [down EXCEPT ![c] = <<>>]

\* ... and what it returns.  Without a message the connection is closed.
Got(c) ==
    /\ cl[c].pc = "got"
    /\ IF cl[c].msg = 0
       THEN Close(c) /\ Client(c, "done", <<>>, 0, 0) /\ UNCHANGED answers
       ELSE /\ answers' = [answers EXCEPT ![c] = Append(@, cl[c].msg)]
            /\ Client(c, "free", cl[c].queue, 0, 0)
            /\ UNCHANGED <<conn, down>>
    /\ UNCHANGED <<server, up, sent, flushed>>

\* The client's program ends.
Leave(c) ==
    /\ cl[c].pc = "free" /\ ~Owed(c) /\ Len(sent[c]) = Requests
    /\ Close(c) /\ Client(c, "done", <<>>, 0, 0)
    /\ UNCHANGED <<server, up, sent, flushed, answers>>

Kill(c) ==
    /\ c \in Dies /\ cl[c].pc \in {"free", "write", "body", "got"}
    /\ Close(c) /\ Client(c, "dead", <<>>, 0, 0)
    /\ UNCHANGED <<server, up, sent, flushed, answers>>

\* The reset of a client that has gone arrives.
Reset(c) ==
    /\ conn[c] = "hit"
    /\ conn' = [conn EXCEPT ![c] = "reset"]
    /\ UNCHANGED <<server, up, down, client>>

Run(c) == \/ SendNow(c) \/ SendLater(c) \/ Push(c) \/ PushInVain(c)
          \/ ReadHeader(c) \/ ReadBody(c) \/ Got(c) \/ Leave(c)

Next ==
    \/ Select
    \/ \E c \in Clients : Serve(c) \/ Connect(c) \/ Run(c) \/ Kill(c) \/ Reset(c)

Safety == Init /\ [][Next]_vars

\* The server's loop goes on, and so does a client that has begun.
Fairness ==
    /\ WF_vars(Select \/ \E c \in Clients : Serve(c))
    /\ \A c \in Clients : WF_vars(Run(c))

Spec == Safety /\ Fairness

-----------------------------------------------------------------------------
\* Every variable has its type.
TypeOK ==
    /\ srv \in [pc : {"select", "serve", "body", "finish", "write", "killed"},
                conn : SUBSET Clients, left : Nat, msg : Nat, out : Seq(Pieces)]
    /\ ready \subseteq Clients /\ handles \subseteq Clients
    /\ err \in BOOLEAN
    /\ sock \in [Clients -> {"none", "open", "closed"}]
    /\ conn \in [Clients -> {"none", "open", "closed", "hit", "reset"}]
    /\ delivered \in [Clients -> Seq(Nat)] /\ sent \in [Clients -> Seq(Nat)]
    /\ up \in [Clients -> Seq(Pieces)] /\ down \in [Clients -> Seq(Pieces)]
    /\ cl \in [Clients -> [pc : {"start", "free", "write", "body", "got", "done", "dead"},
                           queue : Seq(Pieces), left : Nat, msg : Nat]]
    /\ flushed \in [Clients -> Nat] /\ answers \in [Clients -> Seq(Nat)]

\* The messages that the callback got from a client: an empty one stands for
\* the end.
Heard(c) ==
    IF delivered[c] # <<>> /\ Last(delivered[c]) = 0 THEN Front(delivered[c])
    ELSE delivered[c]

\* The messages that arrive are those that were sent, in their order, whether
\* now or later.  The last one may be cut, when the client died while it wrote.
Delivery ==
    \A c \in Clients :
        LET d == Heard(c) IN
        /\ Len(d) <= flushed[c]
        /\ \A i \in 1 .. Len(d) :
              \/ d[i] = sent[c][i]
              \/ i = Len(d) /\ d[i] < sent[c][i] /\ cl[c].pc = "dead"

\* After the empty message the callback hears no more of a connection, and a
\* connection is selected on as long as it is open.
Farewell ==
    /\ \A c \in Clients : \A i \in DOMAIN delivered[c] :
          delivered[c][i] = 0 => i = Len(delivered[c])
    /\ srv.pc = "select" => handles = {c \in Clients : sock[c] = "open"}

\* Nobody is given more answers than the server got messages of his.
Earned ==
    \A c \in Clients : Len(answers[c]) <= Len(Heard(c))

\* One that sends its next message after the answer to the last cannot kill the
\* server, wherever it dies.
OutlivesPolite ==
    Requests = 1 /\ ~Splits /\ Cap >= Len(Ok) => srv.pc # "killed"

\* Room for what one sends and for the answers, and none of the ways in which a
\* good header is taken for a bad one.
Kind ==
    /\ ~Splits /\ ~Stale /\ 0 \notin Sizes
    /\ \A z \in Sizes : Cap >= Requests * (z + 2)
    /\ Cap >= Requests * Len(Ok)

\* In the end, whoever began has flushed its messages, got an answer to each and
\* gone.
Served ==
    Kind /\ (Requests = 1 \/ Dies = {}) =>
        \A c \in Clients \ Dies :
            \/ cl[c].pc = "start"
            \/ cl[c].pc = "done" /\ Len(answers[c]) = flushed[c]

\* In the end the server has heard of everybody's end.
Parted ==
    Kind /\ (Requests = 1 \/ Dies = {}) =>
        \A c \in Clients : cl[c].pc \in {"done", "dead"} => sock[c] = "closed"
=============================================================================
