------------------------------- MODULE Talk2 --------------------------------
(***************************************************************************)
(* mtalk2: a talk over datagrams (c/network/mtalk2).  The server keeps a   *)
(* table of slots; a client asks for one (LOGIN), types lines that the     *)
(* server sends to every slot in use (DATA), and gives the slot back       *)
(* (LOGOUT).  Nothing is acknowledged but the login, nothing is sent       *)
(* twice, and do_logout believes the slot number it is told.               *)
(*                                                                         *)
(* A signal may come between any two statements: ^C at the server makes it *)
(* send END to the slots in use and exit, ^C is how a client leaves.       *)
(*                                                                         *)
(* There are three networks: "wide" loses and reorders datagrams, "busy"   *)
(* only reorders them, and "local" does neither.                           *)
(***************************************************************************)
EXTENDS Naturals, Sequences

CONSTANTS
    Clients,      (* runs of the client program, each from a fresh port    *)
    MaxAttendants,(* MAX_ATTENDANTS                                        *)
    MaxLines,     (* bound: the lines a client types                       *)
    Hasty,        (* clients that may get ^C before session_init           *)
    Ends,         (* may the server get ^C?                                *)
    Nobody

Slots == 0 .. MaxAttendants - 1

ASSUME TalkAssumption ==
    /\ MaxAttendants \in Nat \ {0} /\ MaxLines \in Nat
    /\ Hasty \subseteq Clients /\ Nobody \notin Clients
    /\ Ends \in BOOLEAN

VARIABLES
    network,      (* never changes                                         *)
    talker,       (* the table: flag and address of every slot             *)
    srv,          (* where the server is: pc, with from and slot           *)
    log,          (* the lines in the order distribute got them            *)
    cl,           (* where each client is                                  *)
    my_slot,
    typed,        (* lines each client has sent                            *)
    shown,        (* what each client shows, as indices of log             *)
    net           (* datagrams under way                                   *)

vars == <<talker, srv, log, cl, my_slot, typed, shown, net>>

\* May datagrams be lost, and do those of one sender to one receiver stay in order?
Networks == {"wide", "busy", "local"}
Lossy == network = "wide"
Ordered == network = "local"

\* Datagrams to the server name their sender, those from it their receiver.
\* n numbers the lines: those of a client, or all of them in DATA.
Datagram(type, c, k, n) == [type |-> type, who |-> c, slot |-> k, n |-> n]
Up == {"LOGIN", "LINE", "LOGOUT"}
Down == {"LOGIN_OK", "CANNOT_LOGIN", "DATA", "END"}

\* The order in which the datagrams of a link are sent.
Turn(m) == IF m.type \in {"LOGIN", "LOGIN_OK", "CANNOT_LOGIN"} THEN 1
           ELSE IF m.type \in {"LINE", "DATA"} THEN 2 ELSE 3
Before(m, o) ==
    Turn(m) < Turn(o) \/ (Turn(m) = Turn(o) /\ m.n < o.n)
SameLink(m, o) == m.who = o.who /\ ((m.type \in Up) <=> (o.type \in Up))

\* May m be the next datagram that its receiver reads?
Arrives(m) ==
    /\ m \in net
    /\ Ordered => ~\E o \in net : SameLink(o, m) /\ Before(o, m)

\* A client that is running has a socket; one that is in the session has put
\* its ^C under the care of die, and its slot number into my_slot.
Running(c) == cl[c] \in {"waiting", "named", "in"}
InSession(c) == cl[c] \in {"named", "in"}

\* Datagrams sent to nobody, or to a client that has gone, go nowhere.
Reach(S) == {m \in S : m.who # Nobody /\ (m.type \in Down => Running(m.who))}

Init ==
    /\ network \in Networks
    /\ talker = [k \in Slots |-> [flag |-> FALSE, address |-> Nobody]]
    /\ srv = [pc |-> "recv", from |-> Nobody, slot |-> 0]
    /\ log = <<>>
    /\ cl = [c \in Clients |-> "out"]
    /\ my_slot = [c \in Clients |-> 0]
    /\ typed = [c \in Clients |-> 0]
    /\ shown = [c \in Clients |-> <<>>]
    /\ net = {}

-----------------------------------------------------------------------------
(* The server: sessionman.c                                                *)

At(pc, c, k) == srv' = [pc |-> pc, from |-> c, slot |-> k]

FreeSlots == {k \in Slots : ~talker[k].flag}

\* find_free_slot: the first, if any.
FirstFree == {k \in FreeSlots : \A l \in FreeSlots : k <= l}

\* do_login without a free slot.
Refuse(m) ==
    /\ srv.pc = "recv" /\ Arrives(m) /\ m.type = "LOGIN"
    /\ FreeSlots = {}
    /\ net' = (net \ {m}) \cup Reach({Datagram("CANNOT_LOGIN", m.who, 0, 0)})
    /\ UNCHANGED <<talker, srv, log, cl, my_slot, typed, shown>>

\* do_login in three steps: a slot is marked in use, it is given the address,
\* and the client is told.  Until the second, the address is that of the one
\* who had the slot before.
Login(m) ==
    /\ srv.pc = "recv" /\ Arrives(m) /\ m.type = "LOGIN"
    /\ \E k \in FirstFree :
          /\ talker' = [talker EXCEPT ![k] =
                            [flag |-> TRUE, address |-> talker[k].address]]
          /\ At("flagged", m.who, k)
    /\ net' = net \ {m}
    /\ UNCHANGED <<log, cl, my_slot, typed, shown>>

Seat ==
    /\ srv.pc = "flagged"
    /\ talker' = [talker EXCEPT ![srv.slot] = [flag |-> TRUE, address |-> srv.from]]
    /\ At("seated", srv.from, srv.slot)
    /\ UNCHANGED <<log, cl, my_slot, typed, shown, net>>

Welcome ==
    /\ srv.pc = "seated"
    /\ net' = net \cup Reach({Datagram("LOGIN_OK", srv.from, srv.slot, 0)})
    /\ At("recv", Nobody, 0)
    /\ UNCHANGED <<talker, log, cl, my_slot, typed, shown>>

\* do_logout: the slot is believed.
Logout(m) ==
    /\ srv.pc = "recv" /\ Arrives(m) /\ m.type = "LOGOUT"
    /\ talker' = [talker EXCEPT ![m.slot] =
                      [flag |-> FALSE, address |-> talker[m.slot].address]]
    /\ net' = net \ {m}
    /\ UNCHANGED <<srv, log, cl, my_slot, typed, shown>>

\* Mistake: the loop over the slots ends at the first free one.
DistributeBreaks ==
    /\ srv.pc = "sending"
    /\ IF talker[srv.slot].flag
       THEN /\ net' = net \cup Reach({Datagram("DATA", talker[srv.slot].address,
                                               srv.slot, Len(log))})
            /\ IF srv.slot + 1 \in Slots THEN At("sending", Nobody, srv.slot + 1)
                                         ELSE At("recv", Nobody, 0)
       ELSE UNCHANGED net /\ At("recv", Nobody, 0)
    /\ UNCHANGED <<talker, log, cl, my_slot, typed, shown>>

\* distribute: the line is read, and sent to one slot after the other.
Line(m) ==
    /\ srv.pc = "recv" /\ Arrives(m) /\ m.type = "LINE"
    /\ log' = Append(log, <<m.who, m.n>>)
    /\ At("sending", Nobody, 0)
    /\ net' = net \ {m}
    /\ UNCHANGED <<talker, cl, my_slot, typed, shown>>

Distribute ==
    /\ srv.pc = "sending"
    /\ LET k == srv.slot IN
       /\ net' = IF talker[k].flag
                 THEN net \cup Reach({Datagram("DATA", talker[k].address, k, Len(log))})
                 ELSE net
       /\ IF k + 1 \in Slots THEN At("sending", Nobody, k + 1) ELSE At("recv", Nobody, 0)
    /\ UNCHANGED <<talker, log, cl, my_slot, typed, shown>>

\* Mistake: END goes to the slots before the first free one.
EndingBreaks ==
    /\ Ends /\ srv.pc # "down"
    /\ net' = {m \in net : m.type \in Down}
                \cup Reach({Datagram("END", talker[k].address, k, 0) :
                                k \in {l \in Slots : \A h \in 0 .. l : talker[h].flag}})
    /\ At("down", Nobody, 0)
    /\ UNCHANGED <<talker, log, cl, my_slot, typed, shown>>

\* ending, wherever the signal finds the server.
Ending ==
    /\ Ends /\ srv.pc # "down"
    /\ net' = {m \in net : m.type \in Down}
                \cup Reach({Datagram("END", talker[k].address, k, 0) :
                                k \in {l \in Slots : talker[l].flag}})
    /\ At("down", Nobody, 0)
    /\ UNCHANGED <<talker, log, cl, my_slot, typed, shown>>

-----------------------------------------------------------------------------
(* The client: session.c                                                   *)

\* The datagrams of c are sent to the server, if there is one, and those to it
\* are no longer read when it goes.
Sent(S) == IF srv.pc = "down" THEN {} ELSE S
NotTo(c) == {m \in net : ~(m.type \in Down /\ m.who = c)}

\* Mistake: LOGIN is repeated while no answer has come.
EnterAgain(c) ==
    /\ cl[c] \in {"out", "waiting"}
    /\ cl' = [cl EXCEPT ![c] = "waiting"]
    /\ net' = net \cup Sent({Datagram("LOGIN", c, 0, 0)})
    /\ UNCHANGED <<talker, srv, log, my_slot, typed, shown>>

Enter(c) ==
    /\ cl[c] = "out"
    /\ cl' = [cl EXCEPT ![c] = "waiting"]
    /\ net' = net \cup Sent({Datagram("LOGIN", c, 0, 0)})
    /\ UNCHANGED <<talker, srv, log, my_slot, typed, shown>>

\* login, when the answer is LOGIN_OK.
Welcomed(c, m) ==
    /\ cl[c] = "waiting" /\ Arrives(m) /\ m.who = c /\ m.type = "LOGIN_OK"
    /\ cl' = [cl EXCEPT ![c] = "named"]
    /\ my_slot' = [my_slot EXCEPT ![c] = m.slot]
    /\ net' = net \ {m}
    /\ UNCHANGED <<talker, srv, log, typed, shown>>

\* login, when it is CANNOT_LOGIN or anything else.  The client exits, and
\* gives nothing back: it does not know its slot.
Fails(c, m) ==
    /\ cl[c] = "waiting" /\ Arrives(m) /\ m.who = c /\ m.type \in Down \ {"LOGIN_OK"}
    /\ cl' = [cl EXCEPT ![c] = IF m.type = "CANNOT_LOGIN" THEN "refused" ELSE "confused"]
    /\ net' = NotTo(c)
    /\ UNCHANGED <<talker, srv, log, my_slot, typed, shown>>

\* ^C before session_init has called signal.
Kill(c) ==
    /\ c \in Hasty /\ cl[c] \in {"waiting", "named"}
    /\ cl' = [cl EXCEPT ![c] = "killed"]
    /\ net' = NotTo(c)
    /\ UNCHANGED <<talker, srv, log, my_slot, typed, shown>>

SessionInit(c) ==
    /\ cl[c] = "named"
    /\ cl' = [cl EXCEPT ![c] = "in"]
    /\ UNCHANGED <<talker, srv, log, my_slot, typed, shown, net>>

\* session_loop: a line is typed, or shown.
Type(c) ==
    /\ cl[c] = "in" /\ typed[c] < MaxLines
    /\ typed' = [typed EXCEPT ![c] = @ + 1]
    /\ net' = net \cup Sent({Datagram("LINE", c, 0, typed[c] + 1)})
    /\ UNCHANGED <<talker, srv, log, cl, my_slot, shown>>

Show(c, m) ==
    /\ cl[c] = "in" /\ Arrives(m) /\ m.who = c /\ m.type = "DATA"
    /\ shown' = [shown EXCEPT ![c] = Append(@, m.n)]
    /\ net' = net \ {m}
    /\ UNCHANGED <<talker, srv, log, cl, my_slot, typed>>

\* Mistakes: the client goes without telling, or names the first slot.
DieSilent(c) == {}
DieSlotZero(c) == {Datagram("LOGOUT", c, 0, 0)}

\* logout
Farewell(c) == {Datagram("LOGOUT", c, my_slot[c], 0)}

\* die
Die(c) ==
    /\ cl' = [cl EXCEPT ![c] = "left"]
    /\ net' = NotTo(c) \cup Sent(Farewell(c))
    /\ UNCHANGED <<talker, srv, log, my_slot, typed, shown>>

Leave(c) == cl[c] = "in" /\ Die(c)

End(c, m) == cl[c] = "in" /\ Arrives(m) /\ m.who = c /\ m.type = "END" /\ Die(c)

-----------------------------------------------------------------------------
Lose(m) ==
    /\ Lossy /\ m \in net
    /\ net' = net \ {m}
    /\ UNCHANGED <<talker, srv, log, cl, my_slot, typed, shown>>

Server ==
    \/ \E m \in net : Refuse(m) \/ Login(m) \/ Logout(m) \/ Line(m)
    \/ Seat \/ Welcome \/ Distribute

Read(c) == \E m \in net : Welcomed(c, m) \/ Fails(c, m) \/ Show(c, m) \/ End(c, m)

Next ==
    /\ UNCHANGED network
    /\ \/ Server \/ Ending
       \/ \E c \in Clients : Enter(c) \/ Read(c) \/ SessionInit(c) \/ Type(c)
                               \/ Kill(c) \/ Leave(c)
       \/ \E m \in net : Lose(m)

Safety == Init /\ [][Next]_<<network, vars>>

\* The server reads what there is, a client goes on from login to the session
\* and reads what there is.  Nobody has to come, type, leave or press ^C.
Fairness ==
    /\ WF_vars(Server)
    /\ \A c \in Clients : WF_vars(Read(c)) /\ WF_vars(SessionInit(c))

Spec == Safety /\ Fairness

-----------------------------------------------------------------------------
\* Every variable has its type: the loops of distribute and do_login stay in the
\* table.
TypeOK ==
    /\ network \in Networks
    /\ talker \in [Slots -> [flag : BOOLEAN, address : Clients \cup {Nobody}]]
    /\ srv \in [pc : {"recv", "flagged", "seated", "sending", "down"},
                from : Clients \cup {Nobody}, slot : Slots]
    /\ log \in Seq(Clients \X Nat)
    /\ cl \in [Clients -> {"out", "waiting", "named", "in", "left",
                           "refused", "confused", "killed"}]
    /\ my_slot \in [Clients -> Slots]
    /\ typed \in [Clients -> Nat]
    /\ shown \in [Clients -> Seq(Nat)]
    /\ net \subseteq [type : Up \cup Down, who : Clients, slot : Slots, n : Nat]

\* Whoever is in the session owns the slot he will give back: no LOGOUT of
\* another can have freed it, although the server checks none, and nobody else
\* can have been put there.
Tenancy ==
    srv.pc # "down" =>
        \A c \in Clients : InSession(c) =>
            talker[my_slot[c]].flag /\ talker[my_slot[c]].address = c

\* No two slots hold the same address, so that no line is sent to one client
\* twice.
OneSeat ==
    \A k, l \in Slots :
        k # l /\ talker[k].address = talker[l].address => talker[k].address = Nobody

\* A slot in use has a client who is in the session, or about to hear of it, or
\* whose LOGOUT is under way.  It is lost for good only to a client killed
\* before session_init, to a lost datagram, and, where datagrams may overtake
\* each other, to one who got a line before his LOGIN_OK.
Accounted(c, k) ==
    \/ InSession(c) /\ my_slot[c] = k
    \/ Datagram("LOGIN_OK", c, k, 0) \in net
    \/ Datagram("LOGOUT", c, k, 0) \in net
    \/ c \in Hasty /\ cl[c] = "killed"
    \/ Lossy /\ cl[c] \in {"waiting", "left"}
    \/ (Lossy \/ ~Ordered) /\ cl[c] = "confused"

NoSlotForgotten ==
    srv.pc # "down" =>
        \A k \in Slots :
            talker[k].flag /\ ~(srv.pc \in {"flagged", "seated"} /\ srv.slot = k)
                => Accounted(talker[k].address, k)

\* When nothing is lost, the server's exit leaves nobody behind: each client in
\* the session, whatever the server was doing when the signal came, is going
\* to read an END.
EndReaches ==
    ~Lossy /\ srv.pc = "down" =>
        \A c \in Clients : InSession(c) =>
            \E m \in net : m.who = c /\ m.type = "END"

\* On links that keep the order and lose nothing distribute shows everybody one
\* and the same talk, as with mtalk: a piece of it without gap, repetition or
\* exchange.
Talking == INSTANCE Broadcast WITH
    Readers <- Clients,
    log <- IF network = "local" THEN log ELSE <<>>,
    shown <- [c \in Clients |->
                 IF network = "local" THEN [i \in DOMAIN shown[c] |-> log[shown[c][i]]]
                 ELSE <<>>]
ImplementsBroadcast == Talking!Spec

\* What holds in the end, when nothing is lost: whoever is in the session has
\* been shown every line since the first one, his own among them,
Heard ==
    srv.pc # "down" =>
        \A c \in Clients : cl[c] = "in" =>
            LET seen == {shown[c][j] : j \in DOMAIN shown[c]} IN
            /\ \A i \in seen : i .. Len(log) \subseteq seen
            /\ \A n \in 1 .. typed[c] : \E i \in seen : log[i] = <<c, n>>

\* who waits in login has been answered, unless the server has gone,
Answered == srv.pc # "down" => \A c \in Clients : cl[c] # "waiting"

\* the slot of one who left is free, unless the server has gone,
Returned ==
    srv.pc # "down" =>
        \A k \in Slots : talker[k].flag => ~\E c \in Clients :
            talker[k].address = c /\ cl[c] = "left"

\* and when the server has gone the session has ended for everybody.
Closed == srv.pc = "down" => \A c \in Clients : ~InSession(c)
=============================================================================
