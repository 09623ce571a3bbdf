----------------------------- MODULE HostProofs -----------------------------
(***************************************************************************)
(* The programs in which one server has several clients, proved for any    *)
(* number of them:                                                         *)
(*   - mtalk2: who owns a slot (Seats), what is under way and what came of *)
(*     it (Posts), and what each screen is going to show (Streams);        *)
(*   - mtalk: what the server has written to each client, and where it is  *)
(*     (TalkInv), whence everybody is shown one and the same talk;         *)
(*   - Msg.pm: what is queued, on the wire and half read is what was sent  *)
(*     and is not yet delivered (MsgInv);                                  *)
(*   - the bulletin board: who holds a connection, and who a place in the  *)
(*     table of processes (BoardInv).                                      *)
(* Talk2's own theorems are here; ServersProofs draws those of the others. *)
(***************************************************************************)
EXTENDS Talk2, Integers, FiniteSets, SequenceTheorems, FiniteSetTheorems, TLAPS

-----------------------------------------------------------------------------
(* mtalk2                                                                  *)

\* do_login is at work on slot k.
Busy(k) == srv.pc \in {"flagged", "seated"} /\ srv.slot = k

\* Client c owns slot k.
Owns(c, k) == talker[k].flag /\ talker[k].address = c /\ ~Busy(k)

\* What has become of a client that the server has not told its slot.
Entering == {"waiting", "refused", "confused", "killed"}

Unseated(c) == cl[c] \in Entering /\ \A k \in Slots : talker[k].address # c

\* A datagram that could change an owner is the only one of its client, and
\* tells the truth.
Truthful(m) ==
    /\ m.type = "LOGIN" => m = Datagram("LOGIN", m.who, 0, 0) /\ Unseated(m.who)
    /\ m.type = "LOGIN_OK" =>
          /\ m = Datagram("LOGIN_OK", m.who, m.slot, 0)
          /\ cl[m.who] = "waiting" /\ Owns(m.who, m.slot)
    /\ m.type = "LOGOUT" =>
          /\ m = Datagram("LOGOUT", m.who, m.slot, 0)
          /\ cl[m.who] = "left" /\ Owns(m.who, m.slot)

Wire == \A m \in net : Truthful(m)
Members == \A c \in Clients : InSession(c) => Owns(c, my_slot[c])
Outside == \A c \in Clients : cl[c] = "out" =>
               srv.from # c /\ \A k \in Slots : talker[k].address # c
LoginAtWork ==
    /\ srv.pc = "flagged" =>
          /\ srv.from \in Clients /\ Unseated(srv.from)
          /\ Datagram("LOGIN", srv.from, 0, 0) \notin net
    /\ srv.pc = "seated" =>
          /\ srv.from \in Clients /\ cl[srv.from] \in Entering
          /\ talker[srv.slot].flag /\ talker[srv.slot].address = srv.from

Seats == Wire /\ Members /\ Outside /\ LoginAtWork /\ OneSeat
IInv == TypeOK /\ Seats


\* What the datagrams under way to a client say of him.  They go to clients that
\* run; END comes after everything else; and whoever asks for a slot gets one
\* answer, which is not CANNOT_LOGIN for one who is given a slot.
To(c, type) == {m \in net : m.who = c /\ m.type = type}

Reached == \A m \in net : m.type \in Down => Running(m.who)
LastWords == srv.pc # "down" => \A m \in net : m.type # "END"
KilledHasty == \A c \in Clients : cl[c] = "killed" => c \in Hasty
Refused == \A c \in Clients :
    cl[c] = "refused" \/ To(c, "CANNOT_LOGIN") # {} =>
        /\ \A k \in Slots : talker[k].address # c
        /\ To(c, "LOGIN") = {}
        /\ ~(srv.pc = "flagged" /\ srv.from = c)

\* Where nothing is lost, a line for one who waits comes behind his LOGIN_OK,
\* so that nobody takes one for an answer where the order is kept; and END goes to
\* everybody who has been told a slot.
Told(c) == InSession(c) \/ To(c, "LOGIN_OK") # {}
AnswerSent == ~Lossy /\ srv.pc # "down" =>
    \A m \in net : m.type = "DATA" /\ cl[m.who] = "waiting" => To(m.who, "LOGIN_OK") # {}
NobodyConfused == Ordered /\ srv.pc # "down" => \A c \in Clients : cl[c] # "confused"
EndSent == ~Lossy /\ srv.pc = "down" => \A c \in Clients : Told(c) => To(c, "END") # {}

\* A slot in use is somebody's.
Lodged == srv.pc # "down" =>
    \A k \in Slots : talker[k].flag /\ ~Busy(k) => talker[k].address \in Clients

Posts ==
    /\ Lodged /\ Reached /\ LastWords /\ KilledHasty /\ Refused
    /\ AnswerSent /\ NobodyConfused /\ EndSent /\ NoSlotForgotten

\* On the local network: a client who runs has been shown the lines from one
\* on, those behind them are under way, and the server is about to send him
\* what comes next in the log.
Seated(c, k) ==
    talker[k].flag /\ talker[k].address = c /\ ~(srv.pc = "flagged" /\ srv.slot = k)
LastSent(k) == IF srv.pc = "sending" /\ srv.slot <= k THEN Len(log) - 1 ELSE Len(log)
Coming(c) == {m.n : m \in To(c, "DATA")}

Flow(c, first, last) ==
    /\ first + Len(shown[c]) <= last + 1
    /\ \A i \in DOMAIN shown[c] : shown[c][i] = first + i - 1
    /\ Coming(c) = first + Len(shown[c]) .. last
    /\ srv.pc # "down" => \A k \in Slots : Seated(c, k) => last = LastSent(k)

Flows ==
    network = "local" =>
        \A c \in Clients : Running(c) =>
            \E first \in 1 .. Len(log) + 1, last \in 0 .. Len(log) : Flow(c, first, last)

Untouched ==
    \A c \in Clients :
        (cl[c] = "out" \/ (Running(c) /\ \A k \in Slots : talker[k].address # c)) =>
            shown[c] = <<>> /\ To(c, "DATA") = {}
OneCopy ==
    \A m, o \in net :
        m.type = "DATA" /\ o.type = "DATA" /\ m.who = o.who /\ m.n = o.n /\ network = "local"
            => m = o
InLog ==
    /\ \A c \in Clients : \A i \in DOMAIN shown[c] : shown[c][i] \in 1 .. Len(log)
    /\ \A m \in net : m.type = "DATA" => m.n \in 1 .. Len(log)
    /\ srv.pc = "sending" => log # <<>>

\* The address in a slot that is free, or has just been taken, is that of one who left.
Vacated ==
    \A k \in Slots :
        /\ ~talker[k].flag \/ (srv.pc = "flagged" /\ srv.slot = k)
        /\ talker[k].address \in Clients
        => cl[talker[k].address] = "left"

Streams == Flows /\ Untouched /\ OneCopy /\ InLog /\ Vacated

-----------------------------------------------------------------------------
LEMMA InitInv == Init => IInv
  <1> SUFFICES ASSUME Init PROVE IInv
    OBVIOUS
  <1> USE TalkAssumption DEF Init, Slots
  <1>1. TypeOK
    BY DEF TypeOK
  <1>2. Wire /\ Members /\ LoginAtWork
    BY DEF Wire, Members, LoginAtWork, InSession
  <1>3. Outside /\ OneSeat
    BY DEF Outside, OneSeat
  <1>4. QED
    BY <1>1, <1>2, <1>3 DEF IInv, Seats

\* Records of the types that TypeOK names.
LEMMA DatagramTyped ==
    ASSUME NEW t \in Up \cup Down, NEW c \in Clients, NEW k \in Slots, NEW n \in Nat
    PROVE  Datagram(t, c, k, n) \in [type : Up \cup Down, who : Clients, slot : Slots, n : Nat]
  BY DEF Datagram

LEMMA AtTyped ==
    ASSUME NEW pc \in {"recv", "flagged", "seated", "sending", "down"},
           NEW c \in Clients \cup {Nobody}, NEW k \in Slots, At(pc, c, k)
    PROVE  srv' \in [pc : {"recv", "flagged", "seated", "sending", "down"},
                     from : Clients \cup {Nobody}, slot : Slots]
  BY DEF At

LEMMA ZeroSlot == 0 \in Slots
  BY TalkAssumption DEF Slots


-----------------------------------------------------------------------------
(* The types *)

LEMMA ServerTyped ==
    ASSUME TypeOK, UNCHANGED network, Server
    PROVE  TypeOK'
  <1> USE DEF TypeOK
  <1>1. ASSUME NEW m \in net, Refuse(m) PROVE TypeOK'
    <2>1. Datagram("CANNOT_LOGIN", m.who, 0, 0) \in
             [type : Up \cup Down, who : Clients, slot : Slots, n : Nat]
      BY DatagramTyped, ZeroSlot DEF Up, Down
    <2>2. QED
      BY <1>1, <2>1 DEF Refuse, Reach
  <1>2. ASSUME NEW m \in net, Login(m) PROVE TypeOK'
    <2>1. PICK k \in FirstFree :
             /\ talker' = [talker EXCEPT ![k] = [flag |-> TRUE, address |-> talker[k].address]]
             /\ At("flagged", m.who, k)
      BY <1>2 DEF Login
    <2>2. k \in Slots /\ m.who \in Clients
      BY DEF FirstFree, FreeSlots
    <2>3. srv' \in [pc : {"recv", "flagged", "seated", "sending", "down"},
                     from : Clients \cup {Nobody}, slot : Slots]
      BY <2>1, <2>2, AtTyped
    <2>4. talker' \in [Slots -> [flag : BOOLEAN, address : Clients \cup {Nobody}]]
      BY <2>1, <2>2
    <2>5. QED
      BY <1>2, <2>3, <2>4 DEF Login
  <1>3. ASSUME NEW m \in net, Logout(m) PROVE TypeOK'
    BY <1>3 DEF Logout
  <1>4. ASSUME NEW m \in net, Line(m) PROVE TypeOK'
    <2>1. srv' \in [pc : {"recv", "flagged", "seated", "sending", "down"},
                     from : Clients \cup {Nobody}, slot : Slots]
      BY <1>4, AtTyped, ZeroSlot DEF Line
    <2>2. <<m.who, m.n>> \in Clients \X Nat
      OBVIOUS
    <2>3. log' \in Seq(Clients \X Nat)
      BY <1>4, <2>2 DEF Line
    <2>4. QED
      BY <1>4, <2>1, <2>3 DEF Line
  <1>5. CASE Seat
    <2>1. srv.slot \in Slots /\ srv.from \in Clients \cup {Nobody}
      OBVIOUS
    <2>2. srv' \in [pc : {"recv", "flagged", "seated", "sending", "down"},
                     from : Clients \cup {Nobody}, slot : Slots]
      BY <1>5, <2>1, AtTyped DEF Seat
    <2>3. QED
      BY <1>5, <2>1, <2>2 DEF Seat
  <1>6. CASE Welcome
    <2>1. srv' \in [pc : {"recv", "flagged", "seated", "sending", "down"},
                     from : Clients \cup {Nobody}, slot : Slots]
      BY <1>6, ZeroSlot, AtTyped DEF Welcome
    <2>2. srv.from # Nobody => Datagram("LOGIN_OK", srv.from, srv.slot, 0) \in
             [type : Up \cup Down, who : Clients, slot : Slots, n : Nat]
      BY DatagramTyped DEF Up, Down
    <2>3. Datagram("LOGIN_OK", srv.from, srv.slot, 0).who = srv.from
      BY DEF Datagram
    <2>4. QED
      BY <1>6, <2>1, <2>2, <2>3 DEF Welcome, Reach
  <1>7. CASE Distribute
    <2> DEFINE k == srv.slot
               d == Datagram("DATA", talker[k].address, k, Len(log))
    <2>1. k \in Slots /\ Len(log) \in Nat /\ talker[k].address \in Clients \cup {Nobody}
      OBVIOUS
    <2>2. srv' \in [pc : {"recv", "flagged", "seated", "sending", "down"},
                     from : Clients \cup {Nobody}, slot : Slots]
      BY <1>7, ZeroSlot, AtTyped DEF Distribute
    <2>3. d.who = talker[k].address
      BY DEF Datagram
    <2>4. d.who # Nobody =>
             d \in [type : Up \cup Down, who : Clients, slot : Slots, n : Nat]
      BY <2>1, <2>3, DatagramTyped DEF Up, Down
    <2>5. net' \subseteq [type : Up \cup Down, who : Clients, slot : Slots, n : Nat]
      BY <1>7, <2>4 DEF Distribute, Reach
    <2>6. QED
      BY <1>7, <2>2, <2>5 DEF Distribute
  <1>8. QED
    BY <1>1, <1>2, <1>3, <1>4, <1>5, <1>6, <1>7 DEF Server

LEMMA EndingTyped ==
    ASSUME TypeOK, UNCHANGED network, Ending
    PROVE  TypeOK'
  <1> USE DEF TypeOK
  <1>1. srv' \in [pc : {"recv", "flagged", "seated", "sending", "down"},
                   from : Clients \cup {Nobody}, slot : Slots]
    BY ZeroSlot, AtTyped DEF Ending
  <1>2. \A k \in Slots : Datagram("END", talker[k].address, k, 0).who = talker[k].address
    BY DEF Datagram
  <1>3. \A k \in Slots : talker[k].address # Nobody =>
           Datagram("END", talker[k].address, k, 0) \in
             [type : Up \cup Down, who : Clients, slot : Slots, n : Nat]
    BY DatagramTyped DEF Up, Down
  <1>4. net' \subseteq [type : Up \cup Down, who : Clients, slot : Slots, n : Nat]
    BY <1>2, <1>3 DEF Ending, Reach
  <1>5. QED
    BY <1>1, <1>4 DEF Ending

LEMMA ClientTyped ==
    ASSUME TypeOK, UNCHANGED network, NEW c \in Clients,
           Enter(c) \/ Read(c) \/ SessionInit(c) \/ Type(c) \/ Kill(c) \/ Leave(c)
    PROVE  TypeOK'
  <1> USE DEF TypeOK
  <1>1. CASE Enter(c)
    <2>1. Datagram("LOGIN", c, 0, 0) \in [type : Up \cup Down, who : Clients, slot : Slots, n : Nat]
      BY DatagramTyped, ZeroSlot DEF Up
    <2>2. QED
      BY <1>1, <2>1 DEF Enter, Sent
  <1>2. CASE Die(c)
    <2>1. Datagram("LOGOUT", c, my_slot[c], 0) \in
             [type : Up \cup Down, who : Clients, slot : Slots, n : Nat]
      BY DatagramTyped DEF Up
    <2>2. QED
      BY <1>2, <2>1 DEF Die, Sent, NotTo, Farewell
  <1>3. ASSUME NEW m \in net, Welcomed(c, m) \/ Fails(c, m) \/ Show(c, m) \/ End(c, m)
        PROVE  TypeOK'
    <2>1. CASE Welcomed(c, m)
      BY <2>1 DEF Welcomed
    <2>2. CASE Fails(c, m)
      BY <2>2 DEF Fails, NotTo
    <2>3. CASE Show(c, m)
      <3>1. m.n \in Nat
        OBVIOUS
      <3>2. shown' \in [Clients -> Seq(Nat)]
        BY <2>3, <3>1 DEF Show
      <3>3. QED
        BY <2>3, <3>2 DEF Show
    <2>4. QED
      BY <1>2, <1>3, <2>1, <2>2, <2>3 DEF End
  <1>4. CASE SessionInit(c)
    BY <1>4 DEF SessionInit
  <1>5. CASE Type(c)
    <2>0. typed[c] + 1 \in Nat
      OBVIOUS
    <2>1. Datagram("LINE", c, 0, typed[c] + 1) \in
             [type : Up \cup Down, who : Clients, slot : Slots, n : Nat]
      BY <2>0, DatagramTyped, ZeroSlot DEF Up
    <2>2. QED
      BY <1>5, <2>1 DEF Type, Sent
  <1>6. CASE Kill(c)
    BY <1>6 DEF Kill, NotTo
  <1>7. QED
    BY <1>1, <1>2, <1>3, <1>4, <1>5, <1>6 DEF Read, Leave

LEMMA NextTyped == TypeOK /\ [Next]_<<network, vars>> => TypeOK'
  <1> SUFFICES ASSUME TypeOK, [Next]_<<network, vars>> PROVE TypeOK'
    OBVIOUS
  <1>1. ASSUME NEW m \in net, Lose(m), UNCHANGED network PROVE TypeOK'
    BY <1>1 DEF TypeOK, Lose
  <1>2. CASE UNCHANGED <<network, vars>>
    BY <1>2 DEF TypeOK, vars
  <1>3. QED
    BY <1>1, <1>2, ServerTyped, EndingTyped, ClientTyped DEF Next

-----------------------------------------------------------------------------
(* The owners *)

\* A slot keeps its owner while neither the table nor the login in progress
\* changes; and the ^C of the server ends the login in progress.
LEMMA KeepsOwner ==
    ASSUME UNCHANGED talker, UNCHANGED srv \/ srv'.pc \notin {"flagged", "seated"},
           NEW c, NEW k, Owns(c, k)
    PROVE  Owns(c, k)'
  BY DEF Owns, Busy

\* Most steps touch neither the table nor the clients' places, and send only
\* what cannot change an owner.
LEMMA Quiet ==
    ASSUME Seats, UNCHANGED <<talker, cl, my_slot>>,
           UNCHANGED srv \/ (srv'.pc \notin {"flagged", "seated"} /\ srv'.from = Nobody),
           \A m \in net' : m \in net \/ m.type \in {"LINE", "DATA", "CANNOT_LOGIN", "END"}
    PROVE  Seats'
  <1> USE DEF Seats
  <1>1. ASSUME NEW c, Unseated(c) PROVE Unseated(c)'
    BY <1>1 DEF Unseated
  <1>2. ASSUME NEW m \in net' PROVE Truthful(m)'
    <2>1. CASE m \in net
      <3>1. Truthful(m)
        BY <2>1 DEF Wire
      <3>2. QED
        BY <3>1, <1>1, KeepsOwner DEF Truthful
    <2>2. CASE m.type \in {"LINE", "DATA", "CANNOT_LOGIN", "END"}
      BY <2>2 DEF Truthful
    <2>3. QED
      BY <1>2, <2>1, <2>2
  <1>3. Wire'
    BY <1>2 DEF Wire
  <1>4. Members'
    BY KeepsOwner DEF Members, InSession
  <1>5. Outside'
    BY TalkAssumption DEF Outside
  <1>6. LoginAtWork'
    <2>1. Datagram("LOGIN", srv.from, 0, 0).type = "LOGIN"
      BY DEF Datagram
    <2>2. CASE UNCHANGED srv
      BY <1>1, <2>1, <2>2 DEF LoginAtWork
    <2>3. CASE srv'.pc \notin {"flagged", "seated"}
      BY <2>3 DEF LoginAtWork
    <2>4. QED
      BY <2>2, <2>3
  <1>7. OneSeat'
    BY DEF OneSeat
  <1>8. QED
    BY <1>3, <1>4, <1>5, <1>6, <1>7

\* A LOGIN is taken: its slot has no owner, and nothing more comes from its
\* client.
LEMMA LoginSeats ==
    ASSUME IInv, NEW m \in net, Login(m)
    PROVE  Seats'
  <1> USE DEF IInv, Seats
  <1>1. PICK k \in FirstFree :
           /\ talker' = [talker EXCEPT ![k] = [flag |-> TRUE, address |-> talker[k].address]]
           /\ At("flagged", m.who, k)
    BY DEF Login
  <1>2. /\ k \in Slots /\ ~talker[k].flag
        /\ UNCHANGED <<cl, my_slot>> /\ net' = net \ {m} /\ m \in net
        /\ srv.pc = "recv" /\ m.type = "LOGIN" /\ m.who \in Clients
    BY DEF FirstFree, FreeSlots, Login, TypeOK
  <1>3. /\ m = Datagram("LOGIN", m.who, 0, 0) /\ Unseated(m.who)
    BY <1>2 DEF Wire, Truthful
  <1>4. \A l \in Slots : talker'[l].address = talker[l].address /\ (l # k => talker'[l] = talker[l])
    BY <1>1, <1>2 DEF TypeOK
  <1>5. srv'.pc = "flagged" /\ srv'.from = m.who /\ srv'.slot = k
    BY <1>1 DEF At
  <1>6. ASSUME NEW c, NEW l \in Slots, Owns(c, l) PROVE Owns(c, l)'
    <2>1. l # k
      BY <1>2, <1>6 DEF Owns
    <2>2. QED
      BY <1>4, <1>5, <1>6, <2>1 DEF Owns, Busy
  <1>7. ASSUME NEW c, Unseated(c) PROVE Unseated(c)'
    BY <1>2, <1>4, <1>7 DEF Unseated
  <1>8. Wire'
    <2> SUFFICES ASSUME NEW o \in net' PROVE Truthful(o)'
      BY DEF Wire
    <2>1. Truthful(o) /\ o.slot \in Slots
      BY <1>2 DEF Wire, TypeOK
    <2>2. QED
      BY <2>1, <1>2, <1>6, <1>7 DEF Truthful
  <1>9. Members'
    BY <1>2, <1>6 DEF Members, InSession, TypeOK
  <1>10. Outside'
    BY <1>2, <1>3, <1>4, <1>5 DEF Outside, Unseated, Entering
  <1>11. LoginAtWork'
    BY <1>2, <1>3, <1>5, <1>7 DEF LoginAtWork
  <1>12. OneSeat'
    BY <1>4 DEF OneSeat
  <1>13. QED
    BY <1>8, <1>9, <1>10, <1>11, <1>12

\* The slot gets its address: no other has it.
LEMMA SeatSeats ==
    ASSUME IInv, Seat
    PROVE  Seats'
  <1> USE DEF IInv, Seats
  <1> DEFINE k == srv.slot
             f == srv.from
  <1>1. /\ k \in Slots /\ f \in Clients /\ srv.pc = "flagged"
        /\ Unseated(f) /\ Datagram("LOGIN", f, 0, 0) \notin net
        /\ UNCHANGED <<cl, my_slot, net>>
    BY DEF Seat, LoginAtWork, TypeOK
  <1>2. /\ talker'[k].flag /\ talker'[k].address = f
        /\ \A l \in Slots \ {k} : talker'[l] = talker[l]
    BY <1>1 DEF Seat, TypeOK
  <1>3. srv'.pc = "seated" /\ srv'.from = f /\ srv'.slot = k
    BY DEF Seat, At
  <1>4. ASSUME NEW c, NEW l \in Slots, Owns(c, l) PROVE Owns(c, l)'
    <2>1. l # k
      BY <1>1, <1>4 DEF Owns, Busy
    <2>2. QED
      BY <1>2, <1>3, <1>4, <2>1 DEF Owns, Busy
  <1>5. ASSUME NEW c, Unseated(c), c # f PROVE Unseated(c)'
    BY <1>1, <1>2, <1>5 DEF Unseated
  <1>6. Wire'
    <2> SUFFICES ASSUME NEW m \in net' PROVE Truthful(m)'
      BY DEF Wire
    <2>1. Truthful(m) /\ m.slot \in Slots
      BY <1>1 DEF Wire, TypeOK
    <2>2. CASE m.type = "LOGIN"
      <3>1. m.who # f
        BY <1>1, <2>1, <2>2 DEF Truthful
      <3>2. QED
        BY <1>5, <2>1, <2>2, <3>1 DEF Truthful
    <2>3. CASE m.type # "LOGIN"
      BY <1>1, <1>4, <2>1, <2>3 DEF Truthful
    <2>4. QED
      BY <2>2, <2>3
  <1>7. Members'
    BY <1>1, <1>4 DEF Members, InSession, TypeOK
  <1>8. Outside'
    <2>1. cl[f] # "out"
      BY <1>1 DEF Unseated, Entering
    <2>2. QED
      BY <1>1, <1>2, <1>3, <2>1 DEF Outside
  <1>9. LoginAtWork'
    BY <1>1, <1>2, <1>3 DEF LoginAtWork, Unseated
  <1>10. OneSeat'
    BY <1>1, <1>2 DEF OneSeat, Unseated
  <1>11. QED
    BY <1>6, <1>7, <1>8, <1>9, <1>10

\* The client is told of the slot that he, and he alone, has been given.
LEMMA WelcomeSeats ==
    ASSUME IInv, Welcome
    PROVE  Seats'
  <1> USE DEF IInv, Seats
  <1>0. PICK k, f : k = srv.slot /\ f = srv.from
    OBVIOUS
  <1> DEFINE d == Datagram("LOGIN_OK", f, k, 0)
  <1>1. /\ srv.pc = "seated" /\ k \in Slots /\ f \in Clients /\ cl[f] \in Entering
        /\ talker[k].flag /\ talker[k].address = f /\ UNCHANGED <<talker, cl, my_slot>>
    BY <1>0 DEF Welcome, LoginAtWork, TypeOK
  <1>2. srv'.pc = "recv" /\ srv'.from = Nobody
    BY DEF Welcome, At
  <1>3. d.type = "LOGIN_OK" /\ d.who = f /\ d.slot = k
    BY DEF Datagram
  <1>4. \A m \in net' : m \in net \/ (m = d /\ Running(f))
    BY <1>0, <1>3 DEF Welcome, Reach, Down
  <1>5. ASSUME NEW c, NEW l, Owns(c, l) PROVE Owns(c, l)'
    BY <1>1, <1>2, <1>5 DEF Owns, Busy
  <1>6. ASSUME NEW c, Unseated(c) PROVE Unseated(c)'
    BY <1>1, <1>6 DEF Unseated
  <1>7. ASSUME NEW m \in net' PROVE Truthful(m)'
    <2>1. CASE m \in net
      <3>1. Truthful(m)
        BY <2>1 DEF Wire
      <3>2. QED
        BY <3>1, <1>1, <1>5, <1>6 DEF Truthful
    <2>2. CASE m = d /\ Running(f)
      <3>1. cl[f] = "waiting"
        BY <1>1, <2>2 DEF Running, Entering
      <3>2. Owns(f, k)'
        BY <1>1, <1>2 DEF Owns, Busy
      <3>3. QED
        BY <1>1, <1>3, <2>2, <3>1, <3>2 DEF Truthful
    <2>3. QED
      BY <1>4, <1>7, <2>1, <2>2
  <1>8. Wire' /\ Members'
    BY <1>1, <1>5, <1>7 DEF Wire, Members, InSession
  <1>9. Outside'
    BY <1>1, <1>2, TalkAssumption DEF Outside
  <1>10. LoginAtWork' /\ OneSeat'
    BY <1>1, <1>2 DEF LoginAtWork, OneSeat
  <1>11. QED
    BY <1>8, <1>9, <1>10

\* The slot that is given back is the sender's own, and no other datagram
\* names it.
LEMMA LogoutSeats ==
    ASSUME IInv, NEW m \in net, Logout(m)
    PROVE  Seats'
  <1> USE DEF IInv, Seats
  <1>1. /\ m.slot \in Slots /\ m.who \in Clients /\ UNCHANGED <<srv, cl, my_slot>>
        /\ net' = net \ {m} /\ m.type = "LOGOUT" /\ srv.pc = "recv"
    BY DEF Logout, TypeOK
  <1>2. /\ m = Datagram("LOGOUT", m.who, m.slot, 0)
        /\ cl[m.who] = "left" /\ Owns(m.who, m.slot)
    BY <1>1 DEF Wire, Truthful
  <1>3. /\ \A l \in Slots : talker'[l].address = talker[l].address
        /\ \A l \in Slots \ {m.slot} : talker'[l] = talker[l]
    BY <1>1 DEF Logout, TypeOK
  <1>4. ASSUME NEW c, NEW l \in Slots, Owns(c, l), c # m.who PROVE Owns(c, l)'
    <2>1. l # m.slot
      BY <1>2, <1>4 DEF Owns
    <2>2. QED
      BY <1>1, <1>3, <1>4, <2>1 DEF Owns, Busy
  <1>5. ASSUME NEW c, Unseated(c) PROVE Unseated(c)'
    BY <1>1, <1>3, <1>5 DEF Unseated
  <1>6. ASSUME NEW o \in net' PROVE Truthful(o)'
    <2>1. Truthful(o) /\ o.slot \in Slots /\ o # m /\ o.who \in Clients
      BY <1>1, <1>6 DEF Wire, TypeOK
    <2>2. CASE o.type = "LOGIN_OK"
      <3>1. o.who # m.who
        BY <1>2, <2>1, <2>2 DEF Truthful
      <3>2. QED
        BY <1>1, <1>4, <2>1, <2>2, <3>1 DEF Truthful
    <2>3. CASE o.type = "LOGOUT"
      <3>1. o.who # m.who
        <4>1. SUFFICES ASSUME o.who = m.who PROVE FALSE
          OBVIOUS
        <4>2. Owns(m.who, o.slot) /\ o = Datagram("LOGOUT", m.who, o.slot, 0)
          BY <2>1, <2>3, <4>1 DEF Truthful
        <4>3. talker[o.slot].address = m.who /\ talker[m.slot].address = m.who
          BY <1>2, <4>2 DEF Owns
        <4>4. o.slot = m.slot
          BY <1>1, <2>1, <4>3, TalkAssumption DEF OneSeat
        <4>5. QED
          BY <1>2, <2>1, <4>2, <4>4
      <3>2. QED
        BY <1>1, <1>4, <2>1, <2>3, <3>1 DEF Truthful
    <2>4. CASE o.type \notin {"LOGIN_OK", "LOGOUT"}
      BY <1>1, <1>5, <2>1, <2>4 DEF Truthful
    <2>5. QED
      BY <2>2, <2>3, <2>4
  <1>7. Members'
    BY <1>1, <1>2, <1>4 DEF Members, InSession, TypeOK
  <1>8. Outside' /\ OneSeat'
    BY <1>1, <1>3 DEF Outside, OneSeat
  <1>9. LoginAtWork'
    BY <1>1 DEF LoginAtWork
  <1>10. QED
    BY <1>6, <1>7, <1>8, <1>9 DEF Wire

\* What a client's own step must not disturb: the others, and the table.
LEMMA OthersKeep ==
    ASSUME UNCHANGED <<talker, srv>>, NEW c, NEW k
    PROVE  Owns(c, k)' <=> Owns(c, k)
  BY DEF Owns, Busy

\* A step of client c after which he is not in the session, and has not just
\* come: nothing he sends or leaves behind speaks of a slot, but a LOGOUT.
LEMMA GoesSeats ==
    ASSUME IInv, NEW c \in Clients, NEW s \in {"refused", "confused", "killed", "left"},
           cl[c] # "out", s # "left" => cl[c] \in {"waiting", "named"},
           s = "left" => cl[c] = "in",
           cl' = [cl EXCEPT ![c] = s], UNCHANGED <<talker, srv, my_slot>>,
           \/ s # "left" /\ net' = NotTo(c)
           \/ s = "left" /\ net' = NotTo(c) \cup Sent(Farewell(c))
    PROVE  Seats'
  <1> USE DEF IInv, Seats
  <1>1. cl'[c] = s /\ \A o \in Clients \ {c} : cl'[o] = cl[o]
    BY DEF TypeOK
  <1>2. ASSUME NEW o \in Clients, Unseated(o) PROVE Unseated(o)'
    <2>1. o = c => s # "left"
      BY <1>2 DEF Unseated, Entering
    <2>2. QED
      BY <1>1, <1>2, <2>1 DEF Unseated, Entering
  <1>3. ASSUME NEW m \in net' PROVE Truthful(m)'
    <2>1. CASE m \in NotTo(c)
      <3>1. m \in net /\ Truthful(m) /\ m.who \in Clients /\ m.slot \in Slots
        BY <2>1 DEF NotTo, Wire, TypeOK
      <3>2. m.type = "LOGIN_OK" => m.who # c
        BY <2>1 DEF NotTo, Down
      <3>3. m.type = "LOGOUT" => m.who # c
        BY <3>1 DEF Truthful
      <3>4. QED
        BY <1>1, <1>2, <3>1, <3>2, <3>3, OthersKeep DEF Truthful
    <2>2. CASE s = "left" /\ m \in Farewell(c)
      <3>1. m = Datagram("LOGOUT", c, my_slot[c], 0) /\ Owns(c, my_slot[c])
        BY <2>2 DEF Farewell, Members, InSession
      <3>2. m.type = "LOGOUT" /\ m.who = c /\ m.slot = my_slot[c]
        BY <3>1 DEF Datagram
      <3>3. QED
        BY <1>1, <2>2, <3>1, <3>2, OthersKeep DEF Truthful
    <2>3. QED
      BY <1>3, <2>1, <2>2 DEF Sent
  <1>4. Wire' /\ Members'
    BY <1>1, <1>3, OthersKeep DEF Wire, Members, InSession
  <1>5. Outside' /\ OneSeat'
    BY <1>1 DEF Outside, OneSeat
  <1>6. LoginAtWork'
    <2>1. Datagram("LOGIN", srv.from, 0, 0) \in net' => Datagram("LOGIN", srv.from, 0, 0) \in net
      BY DEF NotTo, Sent, Farewell, Datagram
    <2>2. srv.from = c /\ srv.pc = "seated" => s # "left"
      BY DEF LoginAtWork, Entering
    <2>3. QED
      BY <1>1, <1>2, <2>1, <2>2 DEF LoginAtWork, Entering
  <1>7. QED
    BY <1>4, <1>5, <1>6

LEMMA EnterSeats ==
    ASSUME IInv, NEW c \in Clients, Enter(c)
    PROVE  Seats'
  <1> USE DEF IInv, Seats
  <1> DEFINE d == Datagram("LOGIN", c, 0, 0)
  <1>1. /\ cl[c] = "out" /\ cl'[c] = "waiting" /\ \A o \in Clients \ {c} : cl'[o] = cl[o]
        /\ UNCHANGED <<talker, srv, my_slot>> /\ \A m \in net' : m \in net \/ m = d
        /\ srv.from # c /\ \A k \in Slots : talker[k].address # c
    BY DEF Enter, TypeOK, Sent, Outside
  <1>2. d.type = "LOGIN" /\ d.who = c
    BY DEF Datagram
  <1>3. ASSUME NEW o \in Clients, Unseated(o) PROVE Unseated(o)'
    BY <1>1, <1>3 DEF Unseated, Entering
  <1>4. ASSUME NEW m \in net' PROVE Truthful(m)'
    <2>1. CASE m \in net
      <3>1. Truthful(m) /\ m.who \in Clients
        BY <2>1 DEF Wire, TypeOK
      <3>2. m.type \in {"LOGIN_OK", "LOGOUT"} => m.who # c
        BY <1>1, <3>1 DEF Truthful
      <3>3. QED
        BY <1>1, <1>3, <3>1, <3>2, OthersKeep DEF Truthful
    <2>2. CASE m = d
      BY <1>1, <1>2, <2>2 DEF Truthful, Unseated, Entering
    <2>3. QED
      BY <1>1, <1>4, <2>1, <2>2
  <1>5. Wire' /\ Members'
    BY <1>1, <1>4, OthersKeep DEF Wire, Members, InSession
  <1>6. Outside' /\ OneSeat'
    BY <1>1 DEF Outside, OneSeat
  <1>7. LoginAtWork'
    <2>1. Datagram("LOGIN", srv.from, 0, 0).who = srv.from
      BY DEF Datagram
    <2>2. QED
      BY <1>1, <1>2, <1>3, <2>1 DEF LoginAtWork
  <1>8. QED
    BY <1>5, <1>6, <1>7

LEMMA WelcomedSeats ==
    ASSUME IInv, NEW c \in Clients, NEW m \in net, Welcomed(c, m)
    PROVE  Seats'
  <1> USE DEF IInv, Seats
  <1>1. /\ cl[c] = "waiting" /\ cl'[c] = "named" /\ my_slot'[c] = m.slot
        /\ \A o \in Clients \ {c} : cl'[o] = cl[o] /\ my_slot'[o] = my_slot[o]
        /\ UNCHANGED <<talker, srv>> /\ net' = net \ {m}
        /\ m.who = c /\ m.type = "LOGIN_OK" /\ m.slot \in Slots
    BY DEF Welcomed, TypeOK
  <1>2. m = Datagram("LOGIN_OK", c, m.slot, 0) /\ Owns(c, m.slot)
    BY <1>1 DEF Wire, Truthful
  <1>3. ASSUME NEW o \in Clients, Unseated(o) PROVE Unseated(o)'
    <2>1. o # c
      BY <1>1, <1>2, <1>3 DEF Unseated, Owns
    <2>2. QED
      BY <1>1, <1>3, <2>1 DEF Unseated
  <1>4. ASSUME NEW o \in net' PROVE Truthful(o)'
    <2>1. Truthful(o) /\ o # m /\ o.who \in Clients /\ o.slot \in Slots
      BY <1>1, <1>4 DEF Wire, TypeOK
    <2>2. CASE o.type = "LOGIN_OK"
      <3>1. o.who # c
        <4>1. SUFFICES ASSUME o.who = c PROVE FALSE
          OBVIOUS
        <4>2. Owns(c, o.slot) /\ o = Datagram("LOGIN_OK", c, o.slot, 0)
          BY <2>1, <2>2, <4>1 DEF Truthful
        <4>3. talker[o.slot].address = c /\ talker[m.slot].address = c
          BY <1>2, <4>2 DEF Owns
        <4>4. o.slot = m.slot
          BY <1>1, <2>1, <4>3, TalkAssumption DEF OneSeat
        <4>5. QED
          BY <1>2, <2>1, <4>2, <4>4
      <3>2. QED
        BY <1>1, <2>1, <2>2, <3>1, OthersKeep DEF Truthful
    <2>3. CASE o.type = "LOGOUT"
      BY <1>1, <2>1, <2>3, OthersKeep DEF Truthful
    <2>4. CASE o.type \notin {"LOGIN_OK", "LOGOUT"}
      BY <1>3, <2>1, <2>4 DEF Truthful
    <2>5. QED
      BY <2>2, <2>3, <2>4
  <1>5. Wire'
    BY <1>4 DEF Wire
  <1>6. Members'
    BY <1>1, <1>2, OthersKeep DEF Members, InSession
  <1>7. Outside' /\ OneSeat'
    BY <1>1 DEF Outside, OneSeat
  <1>8. LoginAtWork'
    <2>1. CASE srv.pc = "flagged"
      BY <1>1, <1>3, <2>1 DEF LoginAtWork
    <2>2. CASE srv.pc = "seated"
      <3>1. srv.from # c
        <4>1. SUFFICES ASSUME srv.from = c PROVE FALSE
          OBVIOUS
        <4>2. srv.slot \in Slots /\ talker[srv.slot].address = c /\ Busy(srv.slot)
          BY <2>2, <4>1 DEF LoginAtWork, TypeOK, Busy
        <4>3. srv.slot = m.slot
          BY <1>1, <1>2, <4>2, TalkAssumption DEF OneSeat, Owns
        <4>4. QED
          BY <1>2, <4>2, <4>3 DEF Owns
      <3>2. QED
        BY <1>1, <2>2, <3>1 DEF LoginAtWork
    <2>3. CASE srv.pc \notin {"flagged", "seated"}
      BY <1>1, <2>3 DEF LoginAtWork
    <2>4. QED
      BY <2>1, <2>2, <2>3
  <1>9. QED
    BY <1>5, <1>6, <1>7, <1>8

LEMMA SessionInitSeats ==
    ASSUME IInv, NEW c \in Clients, SessionInit(c)
    PROVE  Seats'
  <1> USE DEF IInv, Seats
  <1>1. /\ cl[c] = "named" /\ cl'[c] = "in" /\ \A o \in Clients \ {c} : cl'[o] = cl[o]
        /\ UNCHANGED <<talker, srv, my_slot, net>>
    BY DEF SessionInit, TypeOK
  <1>2. ASSUME NEW o \in Clients, Unseated(o) PROVE Unseated(o)'
    BY <1>1, <1>2 DEF Unseated, Entering
  <1>3. ASSUME NEW m \in net PROVE Truthful(m)'
    <2>1. Truthful(m) /\ m.who \in Clients
      BY DEF Wire, TypeOK
    <2>2. m.type \in {"LOGIN_OK", "LOGOUT"} => m.who # c
      BY <1>1, <2>1 DEF Truthful
    <2>3. QED
      BY <1>1, <1>2, <2>1, <2>2, OthersKeep DEF Truthful
  <1>4. Wire' /\ Members'
    BY <1>1, <1>3, OthersKeep DEF Wire, Members, InSession
  <1>5. Outside' /\ OneSeat'
    BY <1>1 DEF Outside, OneSeat
  <1>6. LoginAtWork'
    BY <1>1, <1>2 DEF LoginAtWork, Entering
  <1>7. QED
    BY <1>4, <1>5, <1>6

-----------------------------------------------------------------------------
\* One step, action by action.
LEMMA NextSeats ==
    ASSUME IInv, [Next]_<<network, vars>>
    PROVE  Seats'
  <1>1. ASSUME NEW m \in net, Refuse(m) PROVE Seats'
    <2>1. Datagram("CANNOT_LOGIN", m.who, 0, 0).type = "CANNOT_LOGIN"
      BY DEF Datagram
    <2>2. /\ UNCHANGED <<talker, cl, my_slot>> /\ UNCHANGED srv
          /\ \A o \in net' : o \in net \/ o.type = "CANNOT_LOGIN"
      BY <1>1, <2>1 DEF Refuse, Reach
    <2>3. QED
      BY <2>2, Quiet DEF IInv
  <1>2. ASSUME NEW m \in net, Line(m) PROVE Seats'
    BY <1>2, Quiet DEF IInv, Line, At
  <1>3. CASE Distribute
    <2>1. \A k : Datagram("DATA", talker[k].address, k, Len(log)).type = "DATA"
      BY DEF Datagram
    <2>2. srv'.pc \notin {"flagged", "seated"} /\ srv'.from = Nobody
      BY <1>3 DEF Distribute, At
    <2>3. UNCHANGED <<talker, cl, my_slot>>
      BY <1>3 DEF Distribute
    <2>4. \A m \in net' : m \in net \/ m.type = "DATA"
      BY <1>3, <2>1 DEF Distribute, Reach
    <2>5. QED
      BY <2>2, <2>3, <2>4, Quiet DEF IInv
  <1>4. CASE Ending
    <2>1. \A k : Datagram("END", talker[k].address, k, 0).type = "END"
      BY DEF Datagram
    <2>2. srv'.pc \notin {"flagged", "seated"} /\ srv'.from = Nobody
      BY <1>4 DEF Ending, At
    <2>3. \A m \in net' : m \in net \/ m.type = "END"
      BY <1>4, <2>1 DEF Ending, Reach
    <2>4. QED
      BY <1>4, <2>2, <2>3, Quiet DEF IInv, Ending
  <1>5. ASSUME NEW c \in Clients, Type(c) PROVE Seats'
    <2>1. Datagram("LINE", c, 0, typed[c] + 1).type = "LINE"
      BY DEF Datagram
    <2>2. /\ UNCHANGED <<talker, cl, my_slot>> /\ UNCHANGED srv
          /\ \A o \in net' : o \in net \/ o.type = "LINE"
      BY <1>5, <2>1 DEF Type, Sent
    <2>3. QED
      BY <2>2, Quiet DEF IInv
  <1>6. ASSUME NEW c \in Clients, NEW m \in net, Show(c, m) PROVE Seats'
    <2>1. /\ UNCHANGED <<talker, cl, my_slot>> /\ UNCHANGED srv
          /\ \A o \in net' : o \in net
      BY <1>6 DEF Show
    <2>2. QED
      BY <2>1, Quiet DEF IInv
  <1>7. ASSUME NEW m \in net, Lose(m) PROVE Seats'
    <2>1. /\ UNCHANGED <<talker, cl, my_slot>> /\ UNCHANGED srv
          /\ \A o \in net' : o \in net
      BY <1>7 DEF Lose
    <2>2. QED
      BY <2>1, Quiet DEF IInv
  <1>8. CASE UNCHANGED <<network, vars>>
    <2>1. /\ UNCHANGED <<talker, cl, my_slot>> /\ UNCHANGED srv
          /\ \A o \in net' : o \in net
      BY <1>8 DEF vars
    <2>2. QED
      BY <2>1, Quiet DEF IInv
  <1>9. ASSUME NEW c \in Clients, NEW m \in net, Fails(c, m) PROVE Seats'
    BY <1>9, GoesSeats DEF Fails
  <1>10. ASSUME NEW c \in Clients, Kill(c) PROVE Seats'
    BY <1>10, GoesSeats DEF Kill
  <1>11. ASSUME NEW c \in Clients, cl[c] = "in", Die(c) PROVE Seats'
    BY <1>11, GoesSeats DEF Die
  <1>12. ASSUME Server PROVE Seats'
    BY <1>1, <1>2, <1>3, <1>12, LoginSeats, LogoutSeats, SeatSeats, WelcomeSeats DEF Server
  <1>13. ASSUME NEW c \in Clients, Read(c) PROVE Seats'
    BY <1>6, <1>9, <1>11, <1>13, WelcomedSeats DEF Read, End
  <1>14. QED
    BY <1>4, <1>5, <1>7, <1>8, <1>10, <1>11, <1>12, <1>13, EnterSeats, SessionInitSeats
    DEF Next, Leave

LEMMA StepInv == IInv /\ [Next]_<<network, vars>> => IInv'
  BY NextTyped, NextSeats DEF IInv

-----------------------------------------------------------------------------
(* The datagrams under way, and the slots that they speak of               *)

LEMMA InitPosts == Init => Posts
  <1> SUFFICES ASSUME Init PROVE Posts
    OBVIOUS
  <1> USE DEF Init
  <1>1. Reached /\ LastWords /\ KilledHasty /\ AnswerSent /\ NobodyConfused /\ EndSent
    BY DEF Reached, LastWords, KilledHasty, AnswerSent, NobodyConfused, EndSent
  <1>2. Refused
    BY TalkAssumption DEF Refused, To
  <1>3. NoSlotForgotten /\ Lodged
    BY DEF NoSlotForgotten, Lodged
  <1>4. QED
    BY <1>1, <1>2, <1>3 DEF Posts

\* Membership in To, spelt out.
LEMMA ToMember ==
    ASSUME NEW c, NEW type
    PROVE  /\ To(c, type) # {} <=> \E m \in net : m.who = c /\ m.type = type
           /\ To(c, type)' # {} <=> \E m \in net' : m.who = c /\ m.type = type
  BY DEF To

\* Lines come and go, and nothing else.
LEMMA QuietPosts ==
    ASSUME Posts, UNCHANGED <<network, talker, cl, my_slot>>,
           \/ UNCHANGED srv
           \/ srv.pc \in {"recv", "sending"} /\ srv'.pc \in {"recv", "sending"},
           \A o \in net' :
              \/ o \in net
              \/ o.type = "LINE"
              \/ /\ o.type = "DATA" /\ Running(o.who)
                 /\ ~Lossy /\ cl[o.who] = "waiting" => To(o.who, "LOGIN_OK") # {},
           \A o \in net : o \in net' \/ o.type \in {"LINE", "DATA"}
    PROVE  Posts'
  <1> USE DEF Posts
  <1>1. Reached'
    BY DEF Reached, Running, Down
  <1>2. LastWords' /\ KilledHasty' /\ NobodyConfused'
    BY DEF LastWords, KilledHasty, NobodyConfused, Ordered
  <1>3. Refused'
    BY ToMember DEF Refused
  <1>4. AnswerSent'
    BY ToMember DEF AnswerSent, Lossy
  <1>5. EndSent'
    BY ToMember DEF EndSent, Lossy, Told, InSession
  <1>6. NoSlotForgotten'
    <2>1. \A c, k : Datagram("LOGIN_OK", c, k, 0).type = "LOGIN_OK"
                    /\ Datagram("LOGOUT", c, k, 0).type = "LOGOUT"
      BY DEF Datagram
    <2>2. \A c, k : Accounted(c, k) => Accounted(c, k)'
      BY <2>1 DEF Accounted, InSession, Lossy, Ordered
    <2>3. QED
      BY <2>2 DEF NoSlotForgotten
  <1>7. Lodged'
    BY DEF Lodged, Busy
  <1>8. QED
    BY <1>1, <1>2, <1>3, <1>4, <1>5, <1>6, <1>7

\* A client is turned away, who has no slot and asks only once.
LEMMA RefusePosts ==
    ASSUME IInv, Posts, UNCHANGED network, NEW m \in net, Refuse(m)
    PROVE  Posts'
  <1> USE DEF Posts
  <1>1. /\ UNCHANGED <<talker, srv, cl, my_slot>> /\ srv.pc = "recv"
        /\ m.type = "LOGIN" /\ m.who \in Clients
    BY DEF Refuse, IInv, TypeOK
  <1>2. m = Datagram("LOGIN", m.who, 0, 0) /\ Unseated(m.who)
    BY <1>1 DEF IInv, Seats, Wire, Truthful
  <1>3. \A o \in net' :
           \/ o \in net /\ o # m
           \/ o.type = "CANNOT_LOGIN" /\ o.who = m.who /\ Running(m.who)
    BY DEF Refuse, Reach, Datagram, Down
  <1>4. \A o \in net : o # m => o \in net'
    BY DEF Refuse
  <1>5. Reached'
    BY <1>1, <1>3 DEF Reached, Running, Down
  <1>6. LastWords' /\ KilledHasty' /\ NobodyConfused'
    BY <1>1, <1>3 DEF LastWords, KilledHasty, NobodyConfused, Ordered
  <1>7. Refused'
    <2>1. ASSUME NEW o \in net', o.type = "LOGIN", o.who = m.who PROVE FALSE
      <3>1. o \in net /\ o # m
        BY <1>3, <2>1
      <3>2. o = Datagram("LOGIN", m.who, 0, 0)
        BY <2>1, <3>1 DEF IInv, Seats, Wire, Truthful
      <3>3. QED
        BY <1>2, <3>1, <3>2
    <2>2. QED
      BY <1>1, <1>2, <1>3, <2>1, ToMember DEF Refused, Unseated
  <1>8. AnswerSent' /\ EndSent'
    BY <1>1, <1>3, <1>4, ToMember DEF AnswerSent, EndSent, Lossy, Told, InSession
  <1>9. NoSlotForgotten'
    <2>1. \A c, k : Datagram("LOGIN_OK", c, k, 0).type = "LOGIN_OK"
                    /\ Datagram("LOGOUT", c, k, 0).type = "LOGOUT"
      BY DEF Datagram
    <2>2. \A c, k : Accounted(c, k) => Accounted(c, k)'
      BY <1>1, <1>4, <2>1 DEF Accounted, InSession, Lossy, Ordered
    <2>3. QED
      BY <1>1, <2>2 DEF NoSlotForgotten
  <1>10. Lodged'
    BY <1>1 DEF Lodged, Busy
  <1>11. QED
    BY <1>5, <1>6, <1>7, <1>8, <1>9, <1>10

\* A LOGIN is taken by a server that has refused its client nothing.
LEMMA LoginPosts ==
    ASSUME IInv, Posts, UNCHANGED network, NEW m \in net, Login(m)
    PROVE  Posts'
  <1> USE DEF Posts
  <1>1. PICK k \in FirstFree :
           /\ talker' = [talker EXCEPT ![k] = [flag |-> TRUE, address |-> talker[k].address]]
           /\ At("flagged", m.who, k)
    BY DEF Login
  <1>2. /\ k \in Slots /\ srv.pc = "recv" /\ m.type = "LOGIN" /\ m.who \in Clients
        /\ UNCHANGED <<cl, my_slot>> /\ net' = net \ {m}
    BY DEF FirstFree, FreeSlots, Login, IInv, TypeOK
  <1>3. m = Datagram("LOGIN", m.who, 0, 0) /\ Unseated(m.who)
    BY <1>2 DEF IInv, Seats, Wire, Truthful
  <1>4. srv'.pc = "flagged" /\ srv'.from = m.who /\ srv'.slot = k
    BY <1>1 DEF At
  <1>5. \A l \in Slots : talker'[l].address = talker[l].address /\ (l # k => talker'[l] = talker[l])
    BY <1>1, <1>2 DEF IInv, TypeOK
  <1>6. Reached' /\ LastWords' /\ KilledHasty' /\ NobodyConfused'
    BY <1>2, <1>4 DEF Reached, Running, LastWords, KilledHasty, NobodyConfused, Ordered
  <1>7. Refused'
    BY <1>2, <1>3, <1>4, <1>5, ToMember DEF Refused, Unseated, Entering
  <1>8. AnswerSent' /\ EndSent'
    BY <1>2, <1>4, ToMember DEF AnswerSent, EndSent, Lossy
  <1>9. NoSlotForgotten'
    <2>1. \A c, l : Datagram("LOGIN_OK", c, l, 0).type = "LOGIN_OK"
                    /\ Datagram("LOGOUT", c, l, 0).type = "LOGOUT"
      BY DEF Datagram
    <2>2. \A c, l : Accounted(c, l) => Accounted(c, l)'
      BY <1>2, <2>1 DEF Accounted, InSession, Lossy, Ordered
    <2>3. QED
      BY <1>2, <1>4, <1>5, <2>2 DEF NoSlotForgotten
  <1>10. Lodged'
    BY <1>2, <1>4, <1>5 DEF Lodged, Busy
  <1>11. QED
    BY <1>6, <1>7, <1>8, <1>9, <1>10

\* The slot gets the address of a client who has not been refused.
LEMMA SeatPosts ==
    ASSUME IInv, Posts, UNCHANGED network, Seat
    PROVE  Posts'
  <1> USE DEF Posts
  <1>1. /\ srv.slot \in Slots /\ srv.from \in Clients /\ srv.pc = "flagged"
        /\ Unseated(srv.from) /\ Datagram("LOGIN", srv.from, 0, 0) \notin net
        /\ UNCHANGED <<cl, my_slot, net>>
    BY DEF Seat, IInv, Seats, LoginAtWork, TypeOK
  <1>2. /\ talker'[srv.slot].address = srv.from
        /\ \A l \in Slots \ {srv.slot} : talker'[l] = talker[l]
    BY <1>1 DEF Seat, IInv, TypeOK
  <1>3. srv'.pc = "seated" /\ srv'.from = srv.from /\ srv'.slot = srv.slot
    BY DEF Seat, At
  <1>4. Reached' /\ LastWords' /\ KilledHasty' /\ NobodyConfused'
    BY <1>1, <1>3 DEF Reached, Running, LastWords, KilledHasty, NobodyConfused, Ordered
  <1>5. Refused'
    BY <1>1, <1>2, <1>3, ToMember DEF Refused
  <1>6. AnswerSent' /\ EndSent'
    BY <1>1, <1>3, ToMember DEF AnswerSent, EndSent, Lossy
  <1>7. NoSlotForgotten'
    <2>1. \A c, l : Accounted(c, l) => Accounted(c, l)'
      BY <1>1 DEF Accounted, InSession, Lossy, Ordered
    <2>2. QED
      BY <1>1, <1>2, <1>3, <2>1 DEF NoSlotForgotten
  <1>8. Lodged'
    BY <1>1, <1>2, <1>3 DEF Lodged, Busy
  <1>9. QED
    BY <1>4, <1>5, <1>6, <1>7, <1>8

\* The slot has an owner who is waiting to hear of it, or has been killed, or,
\* where lines may be lost or overtake LOGIN_OK, was confused.
LEMMA WelcomePosts ==
    ASSUME IInv, Posts, UNCHANGED network, Welcome
    PROVE  Posts'
  <1> USE DEF Posts
  <1>0. PICK k, f : k = srv.slot /\ f = srv.from
    OBVIOUS
  <1> DEFINE d == Datagram("LOGIN_OK", f, k, 0)
  <1>1. /\ srv.pc = "seated" /\ k \in Slots /\ f \in Clients /\ cl[f] \in Entering
        /\ talker[k].flag /\ talker[k].address = f /\ UNCHANGED <<talker, cl, my_slot>>
    BY <1>0 DEF Welcome, IInv, Seats, LoginAtWork, TypeOK
  <1>2. srv'.pc = "recv"
    BY DEF Welcome, At
  <1>3. d.type = "LOGIN_OK" /\ d.who = f
    BY DEF Datagram
  <1>4. /\ \A o \in net' : o \in net \/ (o = d /\ Running(f))
        /\ \A o \in net : o \in net'
        /\ Running(f) /\ f # Nobody => d \in net'
    BY <1>0, <1>3 DEF Welcome, Reach, Down
  <1>5. Reached' /\ LastWords' /\ KilledHasty' /\ NobodyConfused'
    BY <1>1, <1>2, <1>3, <1>4 DEF Reached, Running, LastWords, KilledHasty, NobodyConfused, Ordered
  <1>6. Refused'
    BY <1>1, <1>2, <1>3, <1>4, ToMember DEF Refused
  <1>7. AnswerSent' /\ EndSent'
    BY <1>1, <1>2, <1>3, <1>4, ToMember DEF AnswerSent, EndSent, Lossy
  <1>8. NoSlotForgotten'
    <2>1. \A c, l : Accounted(c, l) => Accounted(c, l)'
      BY <1>1, <1>4 DEF Accounted, InSession, Lossy, Ordered
    <2>2. Accounted(f, k)'
      <3>1. cl[f] # "refused"
        BY <1>1 DEF Refused
      <3>2. cl[f] = "waiting" => d \in net'
        BY <1>1, <1>4, TalkAssumption DEF Running
      <3>3. cl[f] = "killed" => f \in Hasty
        BY <1>1 DEF KilledHasty
      <3>4. cl[f] = "confused" => Lossy \/ ~Ordered
        BY <1>1 DEF NobodyConfused
      <3>5. QED
        BY <1>1, <3>1, <3>2, <3>3, <3>4 DEF Accounted, Entering, Lossy, Ordered
    <2>3. QED
      BY <1>0, <1>1, <1>2, <2>1, <2>2 DEF NoSlotForgotten
  <1>9. Lodged'
    BY <1>0, <1>1, <1>2 DEF Lodged, Busy
  <1>10. QED
    BY <1>5, <1>6, <1>7, <1>8, <1>9

\* A slot is given back, and only the one of which the LOGOUT spoke.
LEMMA LogoutPosts ==
    ASSUME IInv, Posts, UNCHANGED network, NEW m \in net, Logout(m)
    PROVE  Posts'
  <1> USE DEF Posts
  <1>1. /\ m.slot \in Slots /\ UNCHANGED <<srv, cl, my_slot>> /\ srv.pc = "recv"
        /\ net' = net \ {m} /\ m.type = "LOGOUT"
    BY DEF Logout, IInv, TypeOK
  <1>2. /\ \A l \in Slots : talker'[l].address = talker[l].address
        /\ \A l \in Slots \ {m.slot} : talker'[l] = talker[l]
        /\ ~talker'[m.slot].flag
    BY <1>1 DEF Logout, IInv, TypeOK
  <1>3. Reached' /\ LastWords' /\ KilledHasty' /\ NobodyConfused'
    BY <1>1 DEF Reached, Running, LastWords, KilledHasty, NobodyConfused, Ordered
  <1>4. Refused'
    BY <1>1, <1>2, ToMember DEF Refused
  <1>5. AnswerSent' /\ EndSent'
    BY <1>1, ToMember DEF AnswerSent, EndSent, Lossy
  <1>6. NoSlotForgotten'
    <2>1. \A c, l : /\ Datagram("LOGIN_OK", c, l, 0).type = "LOGIN_OK"
                    /\ Datagram("LOGOUT", c, l, 0).slot = l
      BY DEF Datagram
    <2>2. \A c, l : l # m.slot /\ Accounted(c, l) => Accounted(c, l)'
      BY <1>1, <2>1 DEF Accounted, InSession, Lossy, Ordered
    <2>3. QED
      BY <1>1, <1>2, <2>2 DEF NoSlotForgotten
  <1>7. Lodged'
    BY <1>1, <1>2 DEF Lodged, Busy
  <1>8. QED
    BY <1>3, <1>4, <1>5, <1>6, <1>7

\* ^C at the server: END goes to everybody who owns a slot.
LEMMA EndingPosts ==
    ASSUME IInv, Posts, UNCHANGED network, Ending
    PROVE  Posts'
  <1> USE DEF Posts
  <1>1. srv'.pc = "down" /\ UNCHANGED <<talker, cl, my_slot>>
    BY DEF Ending, At
  <1>2. \A k : /\ Datagram("END", talker[k].address, k, 0).type = "END"
               /\ Datagram("END", talker[k].address, k, 0).who = talker[k].address
    BY DEF Datagram
  <1>3. /\ \A o \in net' : \/ o \in net /\ o.type \in Down
                           \/ o.type = "END" /\ Running(o.who)
        /\ \A o \in net : o.type \in Down => o \in net'
    BY <1>2 DEF Ending, Reach, Down
  <1>4. ASSUME NEW c \in Clients, NEW k \in Slots, Owns(c, k), Running(c)
        PROVE  \E o \in net' : o.who = c /\ o.type = "END"
    <2>1. Datagram("END", talker[k].address, k, 0) \in net'
      BY <1>2, <1>4, TalkAssumption DEF Ending, Reach, Owns
    <2>2. QED
      BY <1>2, <1>4, <2>1 DEF Owns
  <1>5. Reached' /\ LastWords' /\ KilledHasty' /\ NobodyConfused'
    BY <1>1, <1>3 DEF Reached, Running, LastWords, KilledHasty, NobodyConfused, Ordered
  <1>6. Refused'
    BY <1>1, <1>3, ToMember DEF Refused, Down
  <1>7. EndSent'
    <2> SUFFICES ASSUME NEW c \in Clients, Told(c)' PROVE To(c, "END")' # {}
      BY DEF EndSent
    <2>1. CASE InSession(c)'
      <3>1. Owns(c, my_slot[c]) /\ my_slot[c] \in Slots /\ Running(c)
        BY <1>1, <2>1 DEF IInv, TypeOK, Seats, Members, InSession, Running
      <3>2. QED
        BY <1>4, <3>1, ToMember
    <2>2. CASE To(c, "LOGIN_OK")' # {}
      <3>1. PICK o \in net' : o.who = c /\ o.type = "LOGIN_OK"
        BY <2>2, ToMember
      <3>2. o \in net /\ o.slot \in Slots
        BY <1>3, <3>1 DEF IInv, TypeOK
      <3>3. Owns(c, o.slot) /\ Running(c)
        BY <3>1, <3>2 DEF IInv, Seats, Wire, Truthful, Running
      <3>4. QED
        BY <1>4, <3>2, <3>3, ToMember
    <2>3. QED
      BY <2>1, <2>2 DEF Told
  <1>8. AnswerSent' /\ NoSlotForgotten'
    BY <1>1 DEF AnswerSent, NoSlotForgotten
  <1>9. Lodged'
    BY <1>1 DEF Lodged, Busy
  <1>10. QED
    BY <1>5, <1>6, <1>7, <1>8, <1>9

\* A client comes, whom nobody knows.
LEMMA EnterPosts ==
    ASSUME IInv, Posts, UNCHANGED network, NEW c \in Clients, Enter(c)
    PROVE  Posts'
  <1> USE DEF Posts
  <1>1. /\ cl[c] = "out" /\ cl'[c] = "waiting" /\ \A o \in Clients \ {c} : cl'[o] = cl[o]
        /\ UNCHANGED <<talker, srv, my_slot>> /\ srv.from # c
        /\ \A k \in Slots : talker[k].address # c
    BY DEF Enter, IInv, TypeOK, Seats, Outside
  <1>2. /\ \A m \in net' : m \in net \/ (m.type = "LOGIN" /\ m.who = c)
        /\ \A m \in net : m \in net'
    BY DEF Enter, Sent, Datagram
  <1>3. \A m \in net : m.who \in Clients /\ (m.type \in Down => m.who # c)
    BY <1>1 DEF Reached, Running, IInv, TypeOK
  <1>4. Reached' /\ LastWords' /\ KilledHasty' /\ NobodyConfused'
    BY <1>1, <1>2, <1>3
    DEF Reached, Running, LastWords, KilledHasty, NobodyConfused, Ordered, Down
  <1>5. Refused'
    BY <1>1, <1>2, <1>3, ToMember DEF Refused, Down
  <1>6. AnswerSent' /\ EndSent'
    BY <1>1, <1>2, <1>3, ToMember
    DEF AnswerSent, EndSent, Lossy, Told, InSession, Down
  <1>7. NoSlotForgotten'
    <2>1. \A l : \A o \in Clients : o # c /\ Accounted(o, l) => Accounted(o, l)'
      BY <1>1, <1>2 DEF Accounted, InSession, Lossy, Ordered
    <2>2. QED
      BY <1>1, <2>1 DEF NoSlotForgotten, Lodged, Busy
  <1>8. Lodged'
    BY <1>1 DEF Lodged, Busy
  <1>9. QED
    BY <1>4, <1>5, <1>6, <1>7, <1>8

LEMMA WelcomedPosts ==
    ASSUME IInv, Posts, UNCHANGED network, NEW c \in Clients, NEW m \in net, Welcomed(c, m)
    PROVE  Posts'
  <1> USE DEF Posts
  <1>1. /\ cl[c] = "waiting" /\ cl'[c] = "named" /\ my_slot'[c] = m.slot
        /\ \A o \in Clients \ {c} : cl'[o] = cl[o] /\ my_slot'[o] = my_slot[o]
        /\ UNCHANGED <<talker, srv>> /\ net' = net \ {m}
        /\ m.who = c /\ m.type = "LOGIN_OK" /\ m.slot \in Slots
    BY DEF Welcomed, IInv, TypeOK
  <1>2. m = Datagram("LOGIN_OK", c, m.slot, 0) /\ Owns(c, m.slot)
    BY <1>1 DEF IInv, Seats, Wire, Truthful
  <1>3. \A o \in net : o.who \in Clients
    BY DEF IInv, TypeOK
  <1>4. Reached' /\ LastWords' /\ KilledHasty' /\ NobodyConfused' /\ Lodged'
    BY <1>1, <1>3
    DEF Reached, Running, LastWords, KilledHasty, NobodyConfused, Ordered, Lodged, Busy
  <1>5. Refused'
    BY <1>1, ToMember DEF Refused
  <1>6. AnswerSent'
    BY <1>1, <1>3, ToMember DEF AnswerSent, Lossy
  <1>7. EndSent'
    BY <1>1, <1>3, ToMember DEF EndSent, Lossy, Told, InSession
  <1>8. NoSlotForgotten'
    <2>1. \A o, l : /\ Datagram("LOGOUT", o, l, 0).type = "LOGOUT"
                    /\ Datagram("LOGIN_OK", o, l, 0).who = o
      BY DEF Datagram
    <2>2. \A l : \A o \in Clients : o # c /\ Accounted(o, l) => Accounted(o, l)'
      BY <1>1, <2>1 DEF Accounted, InSession, Lossy, Ordered
    <2>3. Accounted(c, m.slot)'
      BY <1>1 DEF Accounted, InSession
    <2>4. \A l \in Slots : talker[l].address = c => l = m.slot
      BY <1>1, <1>2, TalkAssumption DEF IInv, Seats, OneSeat, Owns
    <2>5. QED
      BY <1>1, <2>2, <2>3, <2>4 DEF NoSlotForgotten, Lodged, Busy
  <1>9. QED
    BY <1>4, <1>5, <1>6, <1>7, <1>8

LEMMA SessionInitPosts ==
    ASSUME IInv, Posts, UNCHANGED network, NEW c \in Clients, SessionInit(c)
    PROVE  Posts'
  <1> USE DEF Posts
  <1>1. /\ cl[c] = "named" /\ cl'[c] = "in" /\ \A o \in Clients \ {c} : cl'[o] = cl[o]
        /\ UNCHANGED <<talker, srv, my_slot, net>>
    BY DEF SessionInit, IInv, TypeOK
  <1>2. \A o \in net : o.who \in Clients
    BY DEF IInv, TypeOK
  <1>3. Reached' /\ LastWords' /\ KilledHasty' /\ NobodyConfused' /\ Lodged'
    BY <1>1, <1>2
    DEF Reached, Running, LastWords, KilledHasty, NobodyConfused, Ordered, Lodged, Busy
  <1>4. Refused'
    BY <1>1, ToMember DEF Refused
  <1>5. AnswerSent' /\ EndSent'
    BY <1>1, <1>2, ToMember DEF AnswerSent, EndSent, Lossy, Told, InSession
  <1>6. NoSlotForgotten'
    <2>1. \A l : \A o \in Clients : Accounted(o, l) => Accounted(o, l)'
      BY <1>1 DEF Accounted, InSession, Lossy, Ordered
    <2>2. QED
      BY <1>1, <2>1 DEF NoSlotForgotten, Lodged, Busy
  <1>7. QED
    BY <1>3, <1>4, <1>5, <1>6

\* A client goes: turned away, confused, killed, or with a LOGOUT.  What was on
\* its way to him goes nowhere.
LEMMA GoesPosts ==
    ASSUME IInv, Posts, UNCHANGED network,
           NEW c \in Clients, NEW s \in {"refused", "confused", "killed", "left"},
           Running(c), s # "left" => cl[c] \in {"waiting", "named"},
           s = "left" => cl[c] = "in",
           s = "refused" => To(c, "CANNOT_LOGIN") # {},
           s = "confused" => srv.pc = "down" \/ ~Ordered,
           s = "killed" => c \in Hasty,
           cl' = [cl EXCEPT ![c] = s], UNCHANGED <<talker, srv, my_slot>>,
           \/ s # "left" /\ net' = NotTo(c)
           \/ s = "left" /\ net' = NotTo(c) \cup Sent(Farewell(c))
    PROVE  Posts'
  <1> USE DEF Posts
  <1>1. cl'[c] = s /\ \A o \in Clients \ {c} : cl'[o] = cl[o]
    BY DEF IInv, TypeOK
  <1>2. \A o \in net : o.who \in Clients
    BY DEF IInv, TypeOK
  <1>3. /\ \A o \in net' : \/ o \in net /\ (o.type \in Down => o.who # c)
                           \/ o.type = "LOGOUT" /\ o.who = c
        /\ \A o \in net : (o.type \in Down /\ o.who = c) \/ o \in net'
    BY DEF NotTo, Sent, Farewell, Datagram
  <1>4. Reached' /\ LastWords' /\ KilledHasty' /\ NobodyConfused' /\ Lodged'
    BY <1>1, <1>2, <1>3
    DEF Reached, Running, LastWords, KilledHasty, NobodyConfused, Ordered, Lodged, Busy, Down
  <1>5. Refused'
    BY <1>1, <1>3, ToMember DEF Refused
  <1>6. AnswerSent' /\ EndSent'
    BY <1>1, <1>2, <1>3, ToMember DEF AnswerSent, EndSent, Lossy, Told, InSession, Down
  <1>7. NoSlotForgotten'
    <2> SUFFICES ASSUME srv.pc # "down", NEW k \in Slots, talker[k].flag, ~Busy(k)
                 PROVE  Accounted(talker[k].address, k)'
      BY DEF NoSlotForgotten, Busy
    <2>1. talker[k].address \in Clients /\ Accounted(talker[k].address, k)
      BY DEF NoSlotForgotten, Lodged, Busy
    <2>2. CASE talker[k].address # c
      <3>1. \A o, l : /\ Datagram("LOGOUT", o, l, 0).type = "LOGOUT"
                      /\ Datagram("LOGIN_OK", o, l, 0).who = o
        BY DEF Datagram
      <3>2. QED
        BY <1>1, <1>3, <2>1, <2>2, <3>1 DEF Accounted, InSession, Lossy, Ordered, Down
    <2>3. CASE talker[k].address = c
      <3>1. s # "refused"
        BY <2>3 DEF Refused
      <3>2. CASE s = "left"
        <4>1. Owns(c, my_slot[c]) /\ my_slot[c] \in Slots
          BY <3>2 DEF IInv, TypeOK, Seats, Members, InSession
        <4>2. my_slot[c] = k
          BY <2>3, <4>1, TalkAssumption DEF IInv, Seats, OneSeat, Owns
        <4>3. Datagram("LOGOUT", c, k, 0) \in net'
          BY <3>2, <4>2 DEF Sent, Farewell
        <4>4. QED
          BY <2>3, <4>3 DEF Accounted
      <3>3. CASE s \in {"confused", "killed"}
        BY <1>1, <2>3, <3>3 DEF Accounted, Ordered, Lossy
      <3>4. QED
        BY <3>1, <3>2, <3>3
    <2>4. QED
      BY <2>2, <2>3
  <1>8. QED
    BY <1>4, <1>5, <1>6, <1>7

LEMMA LosePosts ==
    ASSUME IInv, Posts, UNCHANGED network, NEW m \in net, Lose(m)
    PROVE  Posts'
  <1> USE DEF Posts
  <1>1. /\ Lossy /\ net' = net \ {m} /\ UNCHANGED <<talker, srv, cl, my_slot>>
    BY DEF Lose
  <1>2. Reached' /\ LastWords' /\ KilledHasty' /\ NobodyConfused' /\ Lodged'
    BY <1>1 DEF Reached, Running, LastWords, KilledHasty, NobodyConfused, Ordered, Lodged, Busy
  <1>3. Refused'
    BY <1>1, ToMember DEF Refused
  <1>4. AnswerSent' /\ EndSent'
    BY <1>1 DEF AnswerSent, EndSent, Lossy
  <1>5. NoSlotForgotten'
    <2> SUFFICES ASSUME NEW c, NEW k, Accounted(c, k) PROVE Accounted(c, k)'
      BY <1>1 DEF NoSlotForgotten
    <2>1. /\ Datagram("LOGIN_OK", c, k, 0).type = "LOGIN_OK"
          /\ Datagram("LOGIN_OK", c, k, 0).who = c
          /\ Datagram("LOGOUT", c, k, 0).type = "LOGOUT"
          /\ Datagram("LOGOUT", c, k, 0).who = c
      BY DEF Datagram
    <2>2. /\ Datagram("LOGIN_OK", c, k, 0) = m => cl[c] = "waiting"
          /\ Datagram("LOGOUT", c, k, 0) = m => cl[c] = "left"
      BY <2>1 DEF IInv, Seats, Wire, Truthful
    <2>3. QED
      BY <1>1, <2>2 DEF Accounted, InSession, Lossy, Ordered
  <1>6. QED
    BY <1>2, <1>3, <1>4, <1>5

\* A line goes only to those who have been told their slot, or are about to be.
LEMMA DistributePosts ==
    ASSUME IInv, Posts, UNCHANGED network, Distribute
    PROVE  Posts'
  <1>0. PICK k, c : k = srv.slot /\ c = talker[k].address
    OBVIOUS
  <1> DEFINE d == Datagram("DATA", c, k, Len(log))
  <1>1. /\ srv.pc = "sending" /\ k \in Slots /\ UNCHANGED <<network, talker, cl, my_slot>>
        /\ srv'.pc \in {"recv", "sending"}
    BY <1>0 DEF Distribute, At, IInv, TypeOK
  <1>2. d.type = "DATA" /\ d.who = c
    BY DEF Datagram
  <1>3. /\ \A o \in net : o \in net'
        /\ \A o \in net' : o \in net \/ (o = d /\ talker[k].flag /\ Running(c))
    BY <1>0, <1>2 DEF Distribute, Reach, Down
  <1>4. ASSUME talker[k].flag, ~Lossy, cl[c] = "waiting"
        PROVE  To(c, "LOGIN_OK") # {}
    <2>1. Accounted(c, k)
      BY <1>0, <1>1, <1>4 DEF Posts, NoSlotForgotten
    <2>2. /\ Datagram("LOGIN_OK", c, k, 0).type = "LOGIN_OK"
          /\ Datagram("LOGIN_OK", c, k, 0).who = c
          /\ Datagram("LOGOUT", c, k, 0).type = "LOGOUT"
          /\ Datagram("LOGOUT", c, k, 0).who = c
      BY DEF Datagram
    <2>3. Datagram("LOGOUT", c, k, 0) \notin net
      BY <1>4, <2>2 DEF IInv, Seats, Wire, Truthful
    <2>4. Datagram("LOGIN_OK", c, k, 0) \in net
      BY <1>4, <2>1, <2>3 DEF Accounted, InSession
    <2>5. QED
      BY <2>2, <2>4 DEF To
  <1>5. QED
    BY <1>1, <1>2, <1>3, <1>4, QuietPosts

\* Where nothing is lost and the order is kept, what a client reads in login is
\* an answer, while there is a server.
LEMMA FailsPosts ==
    ASSUME IInv, Posts, UNCHANGED network, NEW c \in Clients, NEW m \in net, Fails(c, m)
    PROVE  Posts'
  <1>1. /\ cl[c] = "waiting" /\ Arrives(m) /\ m.who = c
        /\ m.type \in {"CANNOT_LOGIN", "DATA", "END"}
        /\ net' = NotTo(c) /\ UNCHANGED <<talker, srv, my_slot>>
    BY DEF Fails, Down
  <1>2. CASE m.type = "CANNOT_LOGIN"
    <2>1. cl' = [cl EXCEPT ![c] = "refused"] /\ To(c, "CANNOT_LOGIN") # {}
      BY <1>1, <1>2 DEF Fails, To
    <2>2. QED
      BY <1>1, <2>1, GoesPosts DEF Running
  <1>3. CASE m.type # "CANNOT_LOGIN"
    <2>1. cl' = [cl EXCEPT ![c] = "confused"]
      BY <1>3 DEF Fails
    <2>2. ASSUME srv.pc # "down", Ordered PROVE FALSE
      <3>1. m.type = "DATA"
        BY <1>1, <1>3, <2>2 DEF Posts, LastWords
      <3>2. PICK o \in net : o.who = c /\ o.type = "LOGIN_OK"
        BY <1>1, <2>2, <3>1, ToMember DEF Posts, AnswerSent, Lossy, Ordered
      <3>3. SameLink(o, m) /\ Before(o, m)
        BY <1>1, <3>1, <3>2 DEF SameLink, Before, Turn, Up
      <3>4. QED
        BY <1>1, <2>2, <3>2, <3>3 DEF Arrives
    <2>3. QED
      BY <1>1, <2>1, <2>2, GoesPosts DEF Running
  <1>4. QED
    BY <1>2, <1>3

\* One step, action by action.
LEMMA NextPosts ==
    ASSUME IInv, Posts, [Next]_<<network, vars>>
    PROVE  Posts'
  <1>0. UNCHANGED network
    BY DEF Next
  <1>1. ASSUME NEW m \in net, Line(m) PROVE Posts'
    <2>1. /\ UNCHANGED <<network, talker, cl, my_slot>>
          /\ srv.pc = "recv" /\ srv'.pc = "sending" /\ m.type = "LINE"
          /\ \A o \in net' : o \in net
          /\ \A o \in net : o \in net' \/ o.type = "LINE"
      BY <1>0, <1>1 DEF Line, At
    <2>2. QED
      BY <2>1, QuietPosts
  <1>2. ASSUME NEW c \in Clients, Type(c) PROVE Posts'
    <2>1. Datagram("LINE", c, 0, typed[c] + 1).type = "LINE"
      BY DEF Datagram
    <2>2. /\ UNCHANGED <<network, talker, cl, my_slot>> /\ UNCHANGED srv
          /\ \A o \in net' : o \in net \/ o.type = "LINE"
          /\ \A o \in net : o \in net'
      BY <1>0, <1>2, <2>1 DEF Type, Sent
    <2>3. QED
      BY <2>2, QuietPosts
  <1>3. ASSUME NEW c \in Clients, NEW m \in net, Show(c, m) PROVE Posts'
    <2>1. /\ UNCHANGED <<network, talker, cl, my_slot>> /\ UNCHANGED srv
          /\ \A o \in net' : o \in net
          /\ \A o \in net : o \in net' \/ o.type = "DATA"
      BY <1>0, <1>3 DEF Show
    <2>2. QED
      BY <2>1, QuietPosts
  <1>4. CASE UNCHANGED <<network, vars>>
    <2>1. /\ UNCHANGED <<network, talker, cl, my_slot>> /\ UNCHANGED srv
          /\ \A o \in net' : o \in net
          /\ \A o \in net : o \in net'
      BY <1>4 DEF vars
    <2>2. QED
      BY <2>1, QuietPosts
  <1>5. ASSUME NEW c \in Clients, Kill(c) PROVE Posts'
    <2>1. /\ c \in Hasty /\ cl[c] \in {"waiting", "named"}
          /\ cl' = [cl EXCEPT ![c] = "killed"]
          /\ net' = NotTo(c) /\ UNCHANGED <<talker, srv, my_slot>>
      BY <1>5 DEF Kill
    <2>2. QED
      BY <1>0, <2>1, GoesPosts DEF Running
  <1>6. ASSUME NEW c \in Clients, cl[c] = "in", Die(c) PROVE Posts'
    <2>1. /\ cl' = [cl EXCEPT ![c] = "left"]
          /\ net' = NotTo(c) \cup Sent(Farewell(c)) /\ UNCHANGED <<talker, srv, my_slot>>
      BY <1>6 DEF Die
    <2>2. QED
      BY <1>0, <1>6, <2>1, GoesPosts DEF Running
  <1>7. ASSUME Server PROVE Posts'
    BY <1>0, <1>1, <1>7, RefusePosts, LoginPosts, LogoutPosts, SeatPosts, WelcomePosts,
       DistributePosts DEF Server
  <1>8. ASSUME NEW c \in Clients, Read(c) PROVE Posts'
    BY <1>0, <1>3, <1>6, <1>8, WelcomedPosts, FailsPosts DEF Read, End
  <1>9. QED
    BY <1>0, <1>2, <1>4, <1>5, <1>6, <1>7, <1>8, EndingPosts, EnterPosts, SessionInitPosts,
       LosePosts DEF Next, Leave

-----------------------------------------------------------------------------
(* The lines: what each client has been shown, what is under way to him,   *)
(* and what the server is about to send                                    *)

LEMMA InitStreams == Init => Streams
  <1> SUFFICES ASSUME Init PROVE Streams
    OBVIOUS
  <1> USE DEF Init
  <1>1. Flows /\ OneCopy /\ InLog
    BY DEF Flows, Running, OneCopy, InLog
  <1>2. Untouched /\ Vacated
    BY TalkAssumption DEF Untouched, To, Vacated
  <1>3. QED
    BY <1>1, <1>2 DEF Streams

\* Nothing is under way to a client whom the server does not know.
LEMMA NewFlow ==
    ASSUME IInv, NEW c \in Clients, shown'[c] = <<>>, To(c, "DATA")' = {}, UNCHANGED log,
           \A k \in Slots : srv'.pc # "down" /\ Seated(c, k)' => LastSent(k)' = Len(log)
    PROVE  \E first \in 1 .. Len(log') + 1, last \in 0 .. Len(log') : Flow(c, first, last)'
  <1>1. Len(log) \in Nat
    BY DEF IInv, TypeOK
  <1>2. Coming(c)' = {}
    BY DEF Coming
  <1>3. PICK first, last : first = Len(log) + 1 /\ last = Len(log)
    OBVIOUS
  <1>4. Coming(c)' = first .. last
    BY <1>1, <1>2, <1>3
  <1>5. Flow(c, first, last)'
    BY <1>1, <1>3, <1>4 DEF Flow
  <1>6. first \in 1 .. Len(log') + 1 /\ last \in 0 .. Len(log')
    BY <1>1, <1>3
  <1>7. QED
    BY <1>5, <1>6

\* A step that says nothing, and shows nothing.
LEMMA QuietStreams ==
    ASSUME IInv, Streams, UNCHANGED <<network, shown, log>>,
           \A o \in net' : o.type = "DATA" => o \in net,
           network = "local" =>
              \A o \in net : o.type = "DATA" /\ Running(o.who)' => o \in net',
           \A c \in Clients : /\ Running(c)' => Running(c) \/ cl[c] = "out"
                              /\ cl'[c] = "out" => cl[c] = "out"
                              /\ cl[c] = "left" => cl'[c] = "left",
           \A k \in Slots : /\ talker'[k].address = talker[k].address
                            /\ LastSent(k)' = LastSent(k) \/ srv'.pc = "down",
           \A c \in Clients, k \in Slots :
              Running(c)' /\ srv'.pc # "down" /\ Seated(c, k)' =>
                 srv.pc # "down" /\ Seated(c, k),
           srv'.pc = "sending" => srv.pc = "sending",
           Vacated'
    PROVE  Streams'
  <1> USE DEF Streams
  <1>1. Untouched'
    BY DEF Untouched, To, IInv, Seats, Outside
  <1>2. OneCopy' /\ InLog'
    BY DEF OneCopy, InLog
  <1>3. ASSUME network = "local", NEW c \in Clients, Running(c)'
        PROVE  \E first \in 1 .. Len(log') + 1, last \in 0 .. Len(log') : Flow(c, first, last)'
    <2>1. CASE Running(c)
      <3>1. PICK first \in 1 .. Len(log) + 1, last \in 0 .. Len(log) : Flow(c, first, last)
        BY <1>3, <2>1 DEF Flows
      <3>2. To(c, "DATA")' = To(c, "DATA")
        BY <1>3 DEF To
      <3>3. Coming(c)' = Coming(c)
        BY <3>2 DEF Coming
      <3>4. Flow(c, first, last)'
        BY <1>3, <3>1, <3>3 DEF Flow
      <3>5. QED
        BY <3>1, <3>4
    <2>2. CASE cl[c] = "out"
      <3>1. shown[c] = <<>> /\ To(c, "DATA") = {}
        BY <2>2 DEF Untouched
      <3>2. To(c, "DATA")' = {}
        BY <3>1 DEF To
      <3>3. \A k \in Slots : talker[k].address # c
        BY <2>2 DEF IInv, Seats, Outside
      <3>4. \A k \in Slots : ~(srv'.pc # "down" /\ Seated(c, k)')
        BY <1>3, <3>3 DEF Seated
      <3>5. QED
        BY <3>1, <3>2, <3>4, NewFlow
    <2>3. QED
      BY <1>3, <2>1, <2>2
  <1>4. Flows'
    BY <1>3 DEF Flows
  <1>5. QED
    BY <1>1, <1>2, <1>4

\* The server, when it says nothing: a login, a refusal, a slot given back.
LEMMA ServerStreams ==
    ASSUME IInv, Posts, Streams, UNCHANGED network,
           \/ \E m \in net : Refuse(m) \/ Login(m) \/ Logout(m)
           \/ Welcome \/ Ending
    PROVE  Streams'
  <1> USE DEF Streams, LastSent
  <1>1. ASSUME NEW m \in net, Refuse(m) PROVE Streams'
    <2>1. /\ UNCHANGED <<shown, log, cl, talker, srv>> /\ m.type = "LOGIN"
          /\ \A o \in net : o # m => o \in net'
      BY <1>1 DEF Refuse
    <2>2. \A o \in net' : o.type = "DATA" => o \in net
      BY <1>1 DEF Refuse, Reach, Datagram
    <2>3. QED
      BY <2>1, <2>2, QuietStreams DEF Vacated, Running, Seated
  <1>2. ASSUME NEW m \in net, Login(m) PROVE Streams'
    <2>1. PICK k \in FirstFree :
             /\ talker' = [talker EXCEPT ![k] = [flag |-> TRUE, address |-> talker[k].address]]
             /\ At("flagged", m.who, k)
      BY <1>2 DEF Login
    <2>2. /\ k \in Slots /\ ~talker[k].flag /\ srv.pc = "recv" /\ m.type = "LOGIN"
          /\ UNCHANGED <<shown, log, cl>> /\ net' = net \ {m}
      BY <1>2 DEF FirstFree, FreeSlots, Login
    <2>3. srv'.pc = "flagged" /\ srv'.slot = k
      BY <2>1 DEF At
    <2>4. \A l \in Slots : talker'[l].address = talker[l].address /\ (l # k => talker'[l] = talker[l])
      BY <2>1, <2>2 DEF IInv, TypeOK
    <2>5. Vacated'
      BY <2>2, <2>3, <2>4 DEF Vacated
    <2>6. QED
      BY <2>2, <2>3, <2>4, <2>5, QuietStreams DEF Running, Seated
  <1>3. ASSUME NEW m \in net, Logout(m) PROVE Streams'
    <2>1. /\ m.slot \in Slots /\ m.type = "LOGOUT" /\ srv.pc = "recv"
          /\ UNCHANGED <<shown, log, cl, srv>> /\ net' = net \ {m}
      BY <1>3 DEF Logout, IInv, TypeOK
    <2>2. /\ \A l \in Slots : talker'[l].address = talker[l].address
          /\ \A l \in Slots \ {m.slot} : talker'[l] = talker[l]
          /\ ~talker'[m.slot].flag
      BY <1>3, <2>1 DEF Logout, IInv, TypeOK
    <2>3. talker[m.slot].address = m.who /\ cl[m.who] = "left"
      BY <2>1 DEF IInv, Seats, Wire, Truthful, Owns
    <2>4. Vacated'
      BY <2>1, <2>2, <2>3 DEF Vacated
    <2>5. QED
      BY <2>1, <2>2, <2>4, QuietStreams DEF Running, Seated
  <1>4. CASE Welcome
    <2>1. /\ srv.pc = "seated" /\ UNCHANGED <<shown, log, cl, talker>>
          /\ \A o \in net : o \in net'
      BY <1>4 DEF Welcome
    <2>2. srv'.pc = "recv"
      BY <1>4 DEF Welcome, At
    <2>3. \A o \in net' : o.type = "DATA" => o \in net
      BY <1>4 DEF Welcome, Reach, Datagram
    <2>4. QED
      BY <2>1, <2>2, <2>3, QuietStreams DEF Vacated, Running, Seated
  <1>5. CASE Ending
    <2>1. srv'.pc = "down" /\ UNCHANGED <<shown, log, cl, talker>>
      BY <1>5 DEF Ending, At
    <2>2. \A o \in net : o.type \in Down => o \in net'
      BY <1>5 DEF Ending
    <2>3. \A o \in net' : o.type = "DATA" => o \in net
      BY <1>5 DEF Ending, Reach, Datagram
    <2>4. QED
      BY <2>1, <2>2, <2>3, QuietStreams DEF Vacated, Running, Down
  <1>6. QED
    BY <1>1, <1>2, <1>3, <1>4, <1>5

\* A client, when nothing is shown to him.
LEMMA ClientStreams ==
    ASSUME IInv, Streams, UNCHANGED <<network, talker, srv, shown, log>>,
           NEW c \in Clients, NEW t \in {cl[c], "waiting", "named", "in", "left", "refused",
                                         "confused", "killed"},
           cl' = [cl EXCEPT ![c] = t],
           t = cl[c] \/ cl[c] # "left", t = "waiting" => cl[c] = "out",
           t \in {"named", "in"} => Running(c),
           \A o \in net' : o \in net \/ o.type \in Up,
           network = "local" =>
              \A o \in net : o.type = "DATA" => o \in net' \/ (o.who = c /\ ~Running(c)')
    PROVE  Streams'
  <1>1. cl'[c] = t /\ \A o \in Clients \ {c} : cl'[o] = cl[o]
    BY DEF IInv, TypeOK
  <1>2. \A o \in net' : o.type = "DATA" => o \in net
    BY DEF Up
  <1>3. \A o \in Clients : /\ Running(o)' => Running(o) \/ cl[o] = "out"
                           /\ cl'[o] = "out" => cl[o] = "out"
                           /\ cl[o] = "left" => cl'[o] = "left"
    BY <1>1 DEF Running
  <1>4. Vacated'
    BY <1>3 DEF Streams, Vacated
  <1>5. QED
    BY <1>2, <1>3, <1>4, QuietStreams DEF LastSent, Seated

\* A client has a seat: he is going to be sent the lines from the next one on.
LEMMA SeatStreams ==
    ASSUME IInv, Streams, UNCHANGED network, Seat
    PROVE  Streams'
  <1> USE DEF Streams
  <1>0. PICK k, f : k = srv.slot /\ f = srv.from
    OBVIOUS
  <1>1. /\ k \in Slots /\ f \in Clients /\ srv.pc = "flagged" /\ Unseated(f)
        /\ UNCHANGED <<cl, net, log, shown>>
    BY <1>0 DEF Seat, IInv, Seats, LoginAtWork, TypeOK
  <1>2. /\ talker'[k].flag /\ talker'[k].address = f
        /\ \A l \in Slots \ {k} : talker'[l] = talker[l]
    BY <1>0, <1>1 DEF Seat, IInv, TypeOK
  <1>3. srv'.pc = "seated" /\ srv'.from = f /\ srv'.slot = k
    BY <1>0 DEF Seat, At
  <1>4. talker[k].address \in Clients => cl[talker[k].address] = "left"
    BY <1>0, <1>1 DEF Vacated
  <1>5. OneCopy' /\ InLog' /\ Vacated'
    BY <1>0, <1>1, <1>2, <1>3 DEF OneCopy, InLog, Vacated
  <1>6. Untouched'
    BY <1>1, <1>2, <1>4 DEF Untouched, Running, To
  <1>7. ASSUME network = "local", NEW c \in Clients, Running(c)'
        PROVE  \E first \in 1 .. Len(log') + 1, last \in 0 .. Len(log') : Flow(c, first, last)'
    <2>1. CASE c = f
      <3>1. shown'[c] = <<>> /\ To(c, "DATA")' = {}
        BY <1>1, <1>7, <2>1 DEF Untouched, Unseated, Running, To
      <3>2. QED
        BY <1>1, <1>3, <3>1, NewFlow DEF LastSent
    <2>2. CASE c # f
      <3>1. PICK first \in 1 .. Len(log) + 1, last \in 0 .. Len(log) : Flow(c, first, last)
        BY <1>1, <1>7 DEF Flows, Running
      <3>2. \A l \in Slots : Seated(c, l)' => Seated(c, l) /\ LastSent(l)' = LastSent(l)
        BY <1>0, <1>1, <1>2, <1>3, <2>2 DEF Seated, LastSent
      <3>3. Coming(c)' = Coming(c)
        BY <1>1 DEF Coming, To
      <3>4. Flow(c, first, last)'
        BY <1>1, <1>3, <3>1, <3>2, <3>3 DEF Flow
      <3>5. QED
        BY <1>1, <3>4
    <2>3. QED
      BY <2>1, <2>2
  <1>8. QED
    BY <1>5, <1>6, <1>7 DEF Flows

\* A line is read from a client: the log grows, and nothing has been sent of it.
LEMMA LineStreams ==
    ASSUME IInv, Streams, UNCHANGED network, NEW m \in net, Line(m)
    PROVE  Streams'
  <1> USE DEF Streams
  <1>1. /\ srv.pc = "recv" /\ m.type = "LINE" /\ net' = net \ {m}
        /\ UNCHANGED <<talker, cl, shown>> /\ m.who \in Clients /\ m.n \in Nat
    BY DEF Line, IInv, TypeOK
  <1>2. srv'.pc = "sending" /\ srv'.slot = 0
    BY DEF Line, At
  <1>3. /\ Len(log) \in Nat /\ Len(log') = Len(log) + 1
    BY <1>1 DEF Line, IInv, TypeOK
  <1>4. \A c : To(c, "DATA")' = To(c, "DATA")
    BY <1>1 DEF To
  <1>5. OneCopy' /\ Vacated'
    BY <1>1, <1>2 DEF OneCopy, Vacated
  <1>6. InLog'
    <2>1. log' # <<>>
      BY <1>3
    <2>2. QED
      BY <1>1, <1>3, <2>1 DEF InLog, IInv, TypeOK
  <1>7. Untouched'
    BY <1>1, <1>4 DEF Untouched, Running
  <1>8. ASSUME network = "local", NEW c \in Clients, Running(c)'
        PROVE  \E first \in 1 .. Len(log') + 1, last \in 0 .. Len(log') : Flow(c, first, last)'
    <2>1. PICK first \in 1 .. Len(log) + 1, last \in 0 .. Len(log) : Flow(c, first, last)
      BY <1>1, <1>8 DEF Flows, Running
    <2>2. \A l \in Slots : Seated(c, l)' => Seated(c, l) /\ LastSent(l)' = LastSent(l)
      BY <1>1, <1>2, <1>3 DEF Seated, LastSent, Slots
    <2>3. Coming(c)' = Coming(c)
      BY <1>4 DEF Coming
    <2>4. Flow(c, first, last)'
      BY <1>1, <1>2, <2>1, <2>2, <2>3 DEF Flow
    <2>5. first \in 1 .. Len(log') + 1 /\ last \in 0 .. Len(log')
      BY <1>3
    <2>6. QED
      BY <2>4, <2>5
  <1>9. QED
    BY <1>5, <1>6, <1>7, <1>8 DEF Flows

\* A slot is sent the line that is last in the log, for the first time.
LEMMA DistributeStreams ==
    ASSUME IInv, Streams, UNCHANGED network, Distribute
    PROVE  Streams'
  <1> USE DEF Streams
  <1>0. PICK k, a, n : k = srv.slot /\ a = talker[k].address /\ n = Len(log)
    OBVIOUS
  <1> DEFINE d == Datagram("DATA", a, k, n)
  <1>1. /\ srv.pc = "sending" /\ k \in Slots /\ UNCHANGED <<talker, cl, log, shown>>
        /\ n \in Nat \ {0} /\ log # <<>>
    BY <1>0 DEF Distribute, IInv, TypeOK, InLog
  <1>2. \/ srv'.pc = "sending" /\ srv'.slot = k + 1
        \/ srv'.pc = "recv" /\ k + 1 \notin Slots
    BY <1>0 DEF Distribute, At
  <1>3. d.type = "DATA" /\ d.who = a /\ d.n = n
    BY DEF Datagram
  <1>4. /\ \A o \in net : o \in net'
        /\ \A o \in net' : o \in net \/ (o = d /\ talker[k].flag /\ Running(a))
        /\ talker[k].flag /\ Running(a) /\ a \in Clients => d \in net'
    BY <1>0, <1>3, TalkAssumption DEF Distribute, Reach, Down
  <1>5. Vacated'
    BY <1>1, <1>2 DEF Vacated
  <1>6. Untouched'
    <2>1. \A c \in Clients : c # a => To(c, "DATA")' = To(c, "DATA")
      BY <1>3, <1>4 DEF To
    <2>2. cl[a] = "out" => To(a, "DATA")' = To(a, "DATA")
      BY <1>4 DEF To, Running
    <2>3. QED
      BY <1>0, <1>1, <2>1, <2>2 DEF Untouched, Running
  <1>7. InLog'
    BY <1>0, <1>1, <1>3, <1>4 DEF InLog
  <1>8. \A l \in Slots \ {k} : LastSent(l)' = LastSent(l)
    BY <1>0, <1>1, <1>2, TalkAssumption DEF LastSent, Slots
  <1>9. LastSent(k) = n - 1 /\ LastSent(k)' = n
    BY <1>0, <1>1, <1>2 DEF LastSent, Slots
  <1>10. ASSUME network = "local", talker[k].flag, Running(a), a \in Clients
         PROVE  \A o \in net : o.type = "DATA" /\ o.who = a => o.n < n
    <2>1. PICK first \in 1 .. n + 1, last \in 0 .. n : Flow(a, first, last)
      BY <1>0, <1>10 DEF Flows
    <2>2. Seated(a, k)
      BY <1>0, <1>1, <1>10 DEF Seated
    <2>3. last = n - 1
      BY <1>1, <1>9, <2>1, <2>2 DEF Flow
    <2>4. \A o \in net : o.type = "DATA" /\ o.who = a => o.n \in Coming(a)
      BY DEF Coming, To
    <2>5. Len(shown[a]) \in Nat
      BY <1>10 DEF IInv, TypeOK
    <2>6. QED
      BY <1>1, <2>1, <2>3, <2>4, <2>5 DEF Flow
  <1>11. OneCopy'
    <2>1. \A o \in net : o.who \in Clients
      BY DEF IInv, TypeOK
    <2>2. QED
      BY <1>1, <1>3, <1>4, <1>10, <2>1 DEF OneCopy
  <1>12. ASSUME network = "local", NEW c \in Clients, Running(c)'
         PROVE  \E first \in 1 .. Len(log') + 1, last \in 0 .. Len(log') : Flow(c, first, last)'
    <2>1. PICK first \in 1 .. n + 1, last \in 0 .. n : Flow(c, first, last)
      BY <1>0, <1>1, <1>12 DEF Flows, Running
    <2>2. Len(shown[c]) \in Nat
      BY DEF IInv, TypeOK
    <2>3. \A l \in Slots : Seated(c, l)' <=> Seated(c, l)
      BY <1>1, <1>2 DEF Seated
    <2>4. CASE c = a /\ talker[k].flag
      <3>1. Seated(c, k)
        BY <1>0, <1>1, <2>4 DEF Seated
      <3>2. last = n - 1
        BY <1>1, <1>9, <2>1, <3>1 DEF Flow
      <3>3. To(c, "DATA")' = To(c, "DATA") \cup {d}
        BY <1>1, <1>3, <1>4, <1>12, <2>4 DEF To, Running
      <3>4. Coming(c)' = Coming(c) \cup {n}
        BY <1>3, <3>3 DEF Coming
      <3>5. Coming(c)' = first + Len(shown[c]) .. n
        BY <1>1, <2>1, <2>2, <3>2, <3>4 DEF Flow
      <3>6. \A l \in Slots : Seated(c, l)' => l = k
        BY <1>0, <1>1, <2>3, <2>4, TalkAssumption DEF Seated, IInv, Seats, OneSeat
      <3>7. Flow(c, first, n)'
        BY <1>1, <1>9, <2>1, <2>2, <3>2, <3>5, <3>6 DEF Flow
      <3>8. QED
        BY <1>0, <1>1, <3>7
    <2>5. CASE ~(c = a /\ talker[k].flag)
      <3>1. To(c, "DATA")' = To(c, "DATA")
        BY <1>3, <1>4, <2>5 DEF To
      <3>2. Coming(c)' = Coming(c)
        BY <3>1 DEF Coming
      <3>3. ~Seated(c, k)
        BY <1>0, <2>5 DEF Seated
      <3>4. Flow(c, first, last)'
        BY <1>1, <1>8, <2>1, <2>3, <3>2, <3>3 DEF Flow
      <3>5. QED
        BY <1>0, <1>1, <3>4
    <2>6. QED
      BY <2>4, <2>5
  <1>13. QED
    BY <1>5, <1>6, <1>7, <1>11, <1>12 DEF Flows

\* A client shows what was sent to him first, of what he has not shown.
LEMMA NextLine ==
    ASSUME IInv, Streams, network = "local", NEW c \in Clients, NEW m \in net, Show(c, m),
           NEW first \in 1 .. Len(log) + 1, NEW last \in 0 .. Len(log), Flow(c, first, last)
    PROVE  m.n = first + Len(shown[c])
  <1>1. /\ m.type = "DATA" /\ m.who = c /\ Arrives(m) /\ m.n \in Nat
        /\ Len(shown[c]) \in Nat /\ Len(log) \in Nat
    BY DEF Show, IInv, TypeOK
  <1>2. m.n \in Coming(c)
    BY <1>1 DEF Coming, To
  <1>3. m.n >= first + Len(shown[c]) /\ first + Len(shown[c]) \in Coming(c)
    BY <1>1, <1>2 DEF Flow
  <1>4. PICK o \in net : o.type = "DATA" /\ o.who = c /\ o.n = first + Len(shown[c])
    BY <1>3 DEF Coming, To
  <1>5. ~Before(o, m) /\ SameLink(o, m)
    BY <1>1, <1>4 DEF Arrives, Ordered, SameLink
  <1>6. QED
    BY <1>1, <1>3, <1>4, <1>5 DEF Before, Turn

LEMMA ShowStreams ==
    ASSUME IInv, Streams, UNCHANGED network, NEW c \in Clients, NEW m \in net, Show(c, m)
    PROVE  Streams'
  <1> USE DEF Streams
  <1>1. /\ cl[c] = "in" /\ m.who = c /\ m.type = "DATA" /\ net' = net \ {m}
        /\ UNCHANGED <<talker, srv, log, cl>> /\ shown' = [shown EXCEPT ![c] = Append(@, m.n)]
        /\ m.n \in Nat /\ shown[c] \in Seq(Nat)
    BY DEF Show, IInv, TypeOK
  <1>2. /\ shown'[c] = Append(shown[c], m.n)
        /\ \A o \in Clients \ {c} : shown'[o] = shown[o] /\ To(o, "DATA")' = To(o, "DATA")
    BY <1>1 DEF IInv, TypeOK, To
  <1>3. OneCopy' /\ Vacated'
    BY <1>1 DEF OneCopy, Vacated
  <1>4. InLog'
    <2>1. m.n \in 1 .. Len(log)
      BY <1>1 DEF InLog
    <2>2. \A i \in DOMAIN shown'[c] : shown'[c][i] \in 1 .. Len(log)
      BY <1>1, <1>2, <2>1 DEF InLog
    <2>3. QED
      BY <1>1, <1>2, <2>2 DEF InLog
  <1>5. Untouched'
    <2>1. \E k \in Slots : talker[k].address = c
      BY <1>1 DEF IInv, TypeOK, Seats, Members, InSession, Owns
    <2>2. QED
      BY <1>1, <1>2, <2>1 DEF Untouched, Running
  <1>6. ASSUME network = "local", NEW o \in Clients, Running(o)'
        PROVE  \E first \in 1 .. Len(log') + 1, last \in 0 .. Len(log') : Flow(o, first, last)'
    <2>1. PICK first \in 1 .. Len(log) + 1, last \in 0 .. Len(log) : Flow(o, first, last)
      BY <1>1, <1>6 DEF Flows, Running
    <2>2. \A k \in Slots : (Seated(o, k)' <=> Seated(o, k)) /\ LastSent(k)' = LastSent(k)
      BY <1>1 DEF Seated, LastSent
    <2>3. CASE o # c
      <3>1. Coming(o)' = Coming(o)
        BY <1>2, <2>3 DEF Coming
      <3>2. Flow(o, first, last)'
        BY <1>1, <1>2, <2>1, <2>2, <2>3, <3>1 DEF Flow
      <3>3. QED
        BY <1>1, <3>2
    <2>4. CASE o = c
      <3>1. m.n = first + Len(shown[c])
        BY <1>6, <2>1, <2>4, NextLine
      <3>2. Coming(c)' = Coming(c) \ {m.n}
        <4>1. \A q \in net : q.type = "DATA" /\ q.who = c /\ q.n = m.n => q = m
          BY <1>1, <1>6 DEF OneCopy
        <4>2. QED
          BY <1>1, <4>1 DEF Coming, To
      <3>3. /\ Len(shown'[c]) = Len(shown[c]) + 1 /\ Len(shown[c]) \in Nat
            /\ DOMAIN shown'[c] = 1 .. Len(shown[c]) + 1 /\ DOMAIN shown[c] = 1 .. Len(shown[c])
            /\ \A i \in DOMAIN shown'[c] :
                  shown'[c][i] = IF i = Len(shown[c]) + 1 THEN m.n ELSE shown[c][i]
        BY <1>1, <1>2
      <3>4. m.n \in Coming(c) /\ m.n \in first + Len(shown[c]) .. last
        BY <1>1, <2>1, <2>4 DEF Coming, To, Flow
      <3>5. Coming(c)' = first + Len(shown'[c]) .. last
        BY <1>1, <2>1, <2>4, <3>1, <3>2, <3>3, <3>4 DEF Flow
      <3>6. \A i \in DOMAIN shown'[c] : shown'[c][i] = first + i - 1
        <4> SUFFICES ASSUME NEW i \in DOMAIN shown'[c] PROVE shown'[c][i] = first + i - 1
          OBVIOUS
        <4>1. CASE i = Len(shown[c]) + 1
          <5>1. shown'[c][i] = m.n
            BY <3>3, <4>1
          <5>2. m.n = first + i - 1
            BY <3>1, <3>3, <4>1
          <5>3. QED
            BY <5>1, <5>2
        <4>2. CASE i # Len(shown[c]) + 1
          <5>1. i \in DOMAIN shown[c] /\ shown'[c][i] = shown[c][i]
            BY <3>3, <4>2
          <5>2. QED
            BY <2>1, <2>4, <5>1 DEF Flow
        <4>3. QED
          BY <4>1, <4>2
      <3>7. first + Len(shown'[c]) <= last + 1
        BY <2>1, <2>4, <3>1, <3>3, <3>4
      <3>8. Flow(c, first, last)'
        BY <1>1, <2>1, <2>2, <2>4, <3>5, <3>6, <3>7 DEF Flow
      <3>9. QED
        BY <1>1, <2>4, <3>8
    <2>5. QED
      BY <2>3, <2>4
  <1>7. QED
    BY <1>3, <1>4, <1>5, <1>6 DEF Flows

\* One step, action by action.
LEMMA NextStreams ==
    ASSUME IInv, Posts, Streams, [Next]_<<network, vars>>
    PROVE  Streams'
  <1>0. UNCHANGED network
    BY DEF Next
  <1>1. ASSUME NEW c \in Clients, Enter(c) PROVE Streams'
    <2>1. /\ cl' = [cl EXCEPT ![c] = "waiting"] /\ cl[c] = "out"
          /\ UNCHANGED <<talker, srv, shown, log>>
          /\ \A o \in net : o \in net'
          /\ \A o \in net' : o \in net \/ o.type \in Up
      BY <1>1 DEF Enter, Sent, Datagram, Up
    <2>2. QED
      BY <1>0, <2>1, ClientStreams
  <1>2. ASSUME NEW c \in Clients, NEW m \in net, Welcomed(c, m) PROVE Streams'
    <2>1. /\ cl' = [cl EXCEPT ![c] = "named"] /\ cl[c] = "waiting" /\ m.type = "LOGIN_OK"
          /\ UNCHANGED <<talker, srv, shown, log>> /\ net' = net \ {m}
      BY <1>2 DEF Welcomed
    <2>2. QED
      BY <1>0, <2>1, ClientStreams DEF Running
  <1>3. ASSUME NEW c \in Clients, SessionInit(c) PROVE Streams'
    <2>1. /\ cl' = [cl EXCEPT ![c] = "in"] /\ cl[c] = "named"
          /\ UNCHANGED <<talker, srv, shown, log, net>>
      BY <1>3 DEF SessionInit
    <2>2. QED
      BY <1>0, <2>1, ClientStreams DEF Running
  <1>4. ASSUME NEW c \in Clients, NEW t \in {"left", "refused", "confused", "killed"},
               Running(c), cl' = [cl EXCEPT ![c] = t], UNCHANGED <<talker, srv, shown, log>>,
               net' = NotTo(c) \/ net' = NotTo(c) \cup Sent(Farewell(c))
        PROVE  Streams'
    <2>1. /\ \A o \in net' : o \in net \/ o.type \in Up
          /\ \A o \in net : o \in net' \/ o.who = c
      BY <1>4 DEF NotTo, Sent, Farewell, Datagram, Up
    <2>2. ~Running(c)' /\ cl[c] # "left"
      BY <1>4 DEF Running, IInv, TypeOK
    <2>3. QED
      BY <1>0, <1>4, <2>1, <2>2, ClientStreams
  <1>5. ASSUME NEW c \in Clients, NEW m \in net, Fails(c, m) PROVE Streams'
    BY <1>4, <1>5 DEF Fails, Running
  <1>6. ASSUME NEW c \in Clients, Kill(c) PROVE Streams'
    BY <1>4, <1>6 DEF Kill, Running
  <1>7. ASSUME NEW c \in Clients, cl[c] = "in", Die(c) PROVE Streams'
    BY <1>4, <1>7 DEF Die, Running
  <1>8. ASSUME UNCHANGED <<talker, srv, shown, log, cl>>,
               \A o \in net' : o \in net \/ o.type \in Up,
               network = "local" => \A o \in net : o \in net'
        PROVE  Streams'
    <2>1. \A o \in net' : o.type = "DATA" => o \in net
      BY <1>8 DEF Up
    <2>2. Vacated'
      BY <1>8 DEF Streams, Vacated
    <2>3. QED
      BY <1>0, <1>8, <2>1, <2>2, QuietStreams DEF LastSent, Seated, Running
  <1>9. ASSUME NEW c \in Clients, Type(c) PROVE Streams'
    <2>1. /\ UNCHANGED <<talker, srv, shown, log, cl>>
          /\ \A o \in net' : o \in net \/ o.type \in Up
          /\ \A o \in net : o \in net'
      BY <1>9 DEF Type, Sent, Datagram, Up
    <2>2. QED
      BY <1>8, <2>1
  <1>10. ASSUME NEW m \in net, Lose(m) PROVE Streams'
    <2>1. /\ UNCHANGED <<talker, srv, shown, log, cl>>
          /\ \A o \in net' : o \in net
          /\ network # "local"
      BY <1>10 DEF Lose, Lossy
    <2>2. QED
      BY <1>8, <2>1
  <1>11. CASE UNCHANGED <<network, vars>>
    <2>1. UNCHANGED <<talker, srv, shown, log, cl, net>>
      BY <1>11 DEF vars
    <2>2. QED
      BY <1>8, <2>1
  <1>12. ASSUME Server PROVE Streams'
    BY <1>0, <1>12, ServerStreams, LineStreams, SeatStreams, DistributeStreams DEF Server
  <1>13. ASSUME NEW c \in Clients, Read(c) PROVE Streams'
    BY <1>0, <1>2, <1>5, <1>7, <1>13, ShowStreams DEF Read, End
  <1>14. QED
    BY <1>0, <1>1, <1>3, <1>6, <1>7, <1>9, <1>10, <1>11, <1>12, <1>13, ServerStreams
    DEF Next, Leave

-----------------------------------------------------------------------------
(* The talk that Broadcast promises, on the local network                  *)

Spoken == IF network = "local" THEN log ELSE <<>>
Screens == [c \in Clients |->
               IF network = "local" THEN [i \in DOMAIN shown[c] |-> log[shown[c][i]]]
               ELSE <<>>]

LEMMA LongerByOne ==
    ASSUME NEW S, NEW s \in Seq(S), NEW x \in S
    PROVE  Talking!IsStrictPrefix(s, Append(s, x))
  <1>1. Len(s) \in Nat /\ Len(Append(s, x)) = Len(s) + 1
    OBVIOUS
  <1>2. SubSeq(s, 1, Len(s)) = SubSeq(Append(s, x), 1, Len(s))
    OBVIOUS
  <1>3. QED
    BY <1>1, <1>2 DEF Talking!IsStrictPrefix, Talking!IsPrefix

LEMMA LongerPiece ==
    ASSUME NEW S, NEW t \in Seq(S), NEW f \in Nat \ {0}, NEW n \in Nat, f + n <= Len(t),
           NEW old, old = [i \in 1 .. n |-> t[f + i - 1]],
           NEW new, new = [i \in 1 .. n + 1 |-> t[f + i - 1]]
    PROVE  Talking!IsStrictPrefix(old, new) /\ new = SubSeq(t, f, f + n)
  <1>1. Len(t) \in Nat /\ \A i \in 1 .. Len(t) : t[i] \in S
    OBVIOUS
  <1>2. \A i \in 1 .. n + 1 : f + i - 1 \in 1 .. Len(t)
    BY <1>1
  <1>3. \A i \in 1 .. n + 1 : t[f + i - 1] \in S
    BY <1>1, <1>2
  <1>4. old \in [1 .. n -> S]
    BY <1>3
  <1>5. old \in Seq(S) /\ Len(old) = n
    BY <1>4
  <1>6. t[f + n] \in S
    BY <1>1
  <1>7. Append(old, t[f + n]) = new
    BY <1>5, <1>6
  <1>8. Talking!IsStrictPrefix(old, new)
    BY <1>5, <1>6, <1>7, LongerByOne
  <1>9. new = SubSeq(t, f, f + n)
    BY <1>1
  <1>10. QED
    BY <1>8, <1>9

\* A line that is read is said: no screen changes.
LEMMA LineSays ==
    ASSUME IInv, Streams, UNCHANGED network, network = "local", NEW m \in net, Line(m)
    PROVE  Talking!Say
  <1>1. /\ log \in Seq(Clients \X Nat) /\ log' = Append(log, <<m.who, m.n>>)
        /\ <<m.who, m.n>> \in Clients \X Nat /\ UNCHANGED shown
    BY DEF Line, IInv, TypeOK
  <1>2. Talking!IsStrictPrefix(log, log')
    BY <1>1, LongerByOne
  <1>3. \A i \in 1 .. Len(log) : log'[i] = log[i]
    BY <1>1
  <1>4. \A c \in Clients : [i \in DOMAIN shown'[c] |-> log'[shown'[c][i]]]
                            = [i \in DOMAIN shown[c] |-> log[shown[c][i]]]
    BY <1>1, <1>3 DEF Streams, InLog
  <1>5. UNCHANGED Screens
    BY <1>4 DEF Screens
  <1>6. QED
    BY <1>2, <1>5 DEF Talking!Say, Screens

\* A line that is shown continues a piece of the talk.
LEMMA ShowShows ==
    ASSUME IInv, Streams, UNCHANGED network, network = "local",
           NEW c \in Clients, NEW m \in net, Show(c, m)
    PROVE  Talking!Show(c)
  <1>1. /\ cl[c] = "in" /\ UNCHANGED log /\ shown[c] \in Seq(Nat) /\ m.n \in Nat
        /\ shown'[c] = Append(shown[c], m.n) /\ log \in Seq(Clients \X Nat)
        /\ \A d \in Clients \ {c} : shown'[d] = shown[d]
        /\ m.type = "DATA" /\ m.who = c
    BY DEF Show, IInv, TypeOK
  <1>2. PICK first \in 1 .. Len(log) + 1, last \in 0 .. Len(log) : Flow(c, first, last)
    BY <1>1 DEF Streams, Flows, Running
  <1>3. Len(shown[c]) \in Nat /\ DOMAIN shown[c] = 1 .. Len(shown[c]) /\ Len(log) \in Nat
    BY <1>1
  <1>4. PICK n \in Nat : n = Len(shown[c])
    BY <1>3
  <1>5. m.n = first + n /\ m.n \in 1 .. Len(log)
    BY <1>1, <1>2, <1>4, NextLine DEF Streams, InLog
  <1>6. \A i \in 1 .. n : shown[c][i] = first + i - 1
    BY <1>2, <1>3, <1>4 DEF Flow
  <1>7. DOMAIN shown'[c] = 1 .. n + 1 /\ shown'[c][n + 1] = m.n
        /\ \A i \in 1 .. n : shown'[c][i] = shown[c][i]
    BY <1>1, <1>3, <1>4
  <1>8. \A i \in 1 .. n + 1 : shown'[c][i] = first + i - 1
    <2> SUFFICES ASSUME NEW i \in 1 .. n + 1 PROVE shown'[c][i] = first + i - 1
      OBVIOUS
    <2>1. i = n + 1 \/ i \in 1 .. n
      OBVIOUS
    <2>2. first + (n + 1) - 1 = first + n
      OBVIOUS
    <2>3. QED
      BY <1>5, <1>6, <1>7, <2>1, <2>2
  <1>0. PICK old, new : /\ old = [i \in 1 .. n |-> log[first + i - 1]]
                        /\ new = [i \in 1 .. n + 1 |-> log[first + i - 1]]
    OBVIOUS
  <1>9. /\ [i \in DOMAIN shown[c] |-> log[shown[c][i]]] = old
        /\ [i \in DOMAIN shown'[c] |-> log'[shown'[c][i]]] = new
    BY <1>0, <1>1, <1>3, <1>4, <1>6, <1>7, <1>8
  <1>10. first \in Nat \ {0} /\ first + n <= Len(log)
    BY <1>3, <1>5
  <1>11. Talking!IsStrictPrefix(old, new) /\ new = SubSeq(log, first, first + n)
    <2>1. PICK S : S = Clients \X Nat
      OBVIOUS
    <2>2. log \in Seq(S)
      BY <1>1, <2>1
    <2>3. QED
      BY <1>0, <1>10, <2>2, LongerPiece
  <1>12. Talking!Piece(new)
    <2>1. first \in 1 .. Len(log) /\ first + n \in first .. Len(log)
      BY <1>3, <1>10
    <2>2. QED
      BY <1>11, <2>1 DEF Talking!Piece
  <1>13. Screens[c] = old /\ Screens'[c] = new
    BY <1>9 DEF Screens
  <1>14. \A d \in Clients \ {c} : Screens'[d] = Screens[d]
    BY <1>1 DEF Screens
  <1>15. QED
    BY <1>1, <1>11, <1>12, <1>13, <1>14 DEF Talking!Show, Screens

LEMMA TalkStarts == Init => Talking!Init
  BY DEF Init, Talking!Init

\* Every step says something, or shows something, or stutters.
LEMMA TalkGoesOn ==
    IInv /\ Streams /\ [Next]_<<network, vars>> => [Talking!Next]_<<Spoken, Screens>>
  <1> SUFFICES ASSUME IInv, Streams, [Next]_<<network, vars>>
               PROVE  [Talking!Next]_<<Spoken, Screens>>
    OBVIOUS
  <1>0. UNCHANGED network
    BY DEF Next
  <1>1. ASSUME UNCHANGED <<log, shown>> PROVE UNCHANGED <<Spoken, Screens>>
    BY <1>0, <1>1 DEF Spoken, Screens
  <1>2. CASE network # "local"
    BY <1>0, <1>2 DEF Spoken, Screens
  <1>3. CASE network = "local"
    <2>1. ASSUME NEW m \in net, Line(m) PROVE Talking!Next
      BY <1>0, <1>3, <2>1, LineSays DEF Talking!Next
    <2>2. ASSUME NEW c \in Clients, NEW m \in net, Show(c, m) PROVE Talking!Next
      BY <1>0, <1>3, <2>2, ShowShows DEF Talking!Next
    <2>3. ASSUME Server PROVE [Talking!Next]_<<Spoken, Screens>>
      BY <1>1, <2>1, <2>3 DEF Server, Refuse, Login, Logout, Seat, Welcome, Distribute
    <2>4. ASSUME NEW c \in Clients, Read(c) PROVE [Talking!Next]_<<Spoken, Screens>>
      BY <1>1, <2>2, <2>4 DEF Read, Welcomed, Fails, End, Die
    <2>5. QED
      BY <1>1, <2>3, <2>4
      DEF Next, vars, Ending, Enter, SessionInit, Type, Kill, Leave, Die, Lose
  <1>4. QED
    BY <1>2, <1>3

-----------------------------------------------------------------------------
LEMMA Safely == Safety => [](IInv /\ Posts /\ Streams)
  BY InitInv, InitPosts, InitStreams, StepInv, NextPosts, NextStreams, PTL DEF Safety

\* The variables keep their types: in particular the loops over the slots never
\* leave the table, and LOGOUT never names a slot outside it.
THEOREM TypeCorrect == Safety => []TypeOK
  <1>1. IInv => TypeOK
    BY DEF IInv
  <1>2. QED
    BY <1>1, InitInv, StepInv, PTL DEF Safety

\* However datagrams are lost and overtake each other, whenever clients are
\* killed and wherever ^C finds the server: a client in the session owns the
\* slot it was told.
THEOREM SlotsKept == Safety => []Tenancy
  <1>1. IInv => Tenancy
    BY DEF IInv, Seats, Members, Owns, Tenancy
  <1>2. QED
    BY <1>1, InitInv, StepInv, PTL DEF Safety

\* No client is ever in the table twice.
THEOREM OnePlaceEach == Safety => []OneSeat
  <1>1. IInv => OneSeat
    BY DEF IInv, Seats
  <1>2. QED
    BY <1>1, InitInv, StepInv, PTL DEF Safety

\* A slot in use is that of a client in the session, or of one who is about to
\* hear of it or whose LOGOUT is under way: do_login and do_logout lose none but
\* those of clients killed before session_init, of lost datagrams, and of lines
\* that overtook LOGIN_OK.
THEOREM NoneForgotten == Safety => []NoSlotForgotten
  BY Safely, PTL DEF Posts

\* Where nothing is lost, ending sends END to everybody who is in the session,
\* and nobody leaves the session without it.
THEOREM EveryoneTold == Safety => []EndReaches
  <1>1. Posts => EndReaches
    BY ToMember DEF Posts, EndSent, Told, EndReaches
  <1>2. QED
    BY <1>1, Safely, PTL

\* On a network that keeps the order and loses nothing, distribute and the
\* clients' session_loop show everybody pieces of one and the same talk.
THEOREM OneTalk == Safety => ImplementsBroadcast
  BY Safely, TalkStarts, TalkGoesOn, PTL
  DEF Safety, ImplementsBroadcast, Talking!Spec, Spoken, Screens

-----------------------------------------------------------------------------
(* Sequences                                                               *)

\* What a sequence is with another behind it.
LEMMA Cat ==
    ASSUME NEW S, NEW s \in Seq(S), NEW t \in Seq(S)
    PROVE  /\ s \o t \in Seq(S) /\ Len(s \o t) = Len(s) + Len(t)
           /\ Len(s) \in Nat /\ Len(t) \in Nat
           /\ \A k \in 1 .. Len(s) : (s \o t)[k] = s[k]
           /\ \A k \in 1 .. Len(t) : (s \o t)[Len(s) + k] = t[k]
<1>1. Len(s) \in Nat /\ Len(t) \in Nat
    BY LenProperties
<1>2. /\ s \o t \in Seq(S) /\ Len(s \o t) = Len(s) + Len(t)
      /\ \A k \in 1 .. Len(s) + Len(t) : (s \o t)[k] = IF k <= Len(s) THEN s[k] ELSE t[k - Len(s)]
    BY ConcatProperties, Zenon
<1>3. ASSUME NEW k \in 1 .. Len(s) PROVE (s \o t)[k] = s[k]
    <2>1. k \in 1 .. Len(s) + Len(t) /\ k <= Len(s)
        BY <1>1
    <2> QED BY <1>2, <2>1
<1>4. ASSUME NEW k \in 1 .. Len(t) PROVE (s \o t)[Len(s) + k] = t[k]
    <2>1. Len(s) + k \in 1 .. Len(s) + Len(t) /\ ~(Len(s) + k <= Len(s)) /\ Len(s) + k - Len(s) = k
        BY <1>1
    <2> QED BY <1>2, <2>1
<1> QED BY <1>1, <1>2, <1>3, <1>4

\* What SubSeq and Tail leave of a sequence.
LEMMA Cut ==
    ASSUME NEW S, NEW s \in Seq(S), NEW k \in 0 .. Len(s)
    PROVE  /\ SubSeq(s, 1, k) \in Seq(S) /\ Len(SubSeq(s, 1, k)) = k
           /\ \A m \in 1 .. k : SubSeq(s, 1, k)[m] = s[m]
           /\ SubSeq(s, k + 1, Len(s)) \in Seq(S) /\ Len(SubSeq(s, k + 1, Len(s))) = Len(s) - k
           /\ \A m \in 1 .. Len(s) - k : SubSeq(s, k + 1, Len(s))[m] = s[k + m]
           /\ Len(s) \in Nat
<1> DEFINE h == SubSeq(s, 1, k)
           t == SubSeq(s, k + 1, Len(s))
<1>1. Len(s) \in Nat /\ k \in Nat /\ \A i \in 1 .. Len(s) : s[i] \in S
    BY LenProperties, ElementOfSeq
<1>2. /\ h \in Seq(S) /\ Len(h) = (IF 1 <= k THEN k - 1 + 1 ELSE 0)
      /\ \A i \in 1 .. k - 1 + 1 : h[i] = s[1 + i - 1]
    <2>1. 1 \in Int /\ k \in Int /\ \A i \in 1 .. k : s[i] \in S
        BY <1>1
    <2> QED BY <2>1, SubSeqProperties
<1>3. /\ t \in Seq(S) /\ Len(t) = (IF k + 1 <= Len(s) THEN Len(s) - (k + 1) + 1 ELSE 0)
      /\ \A i \in 1 .. Len(s) - (k + 1) + 1 : t[i] = s[(k + 1) + i - 1]
    <2>1. k + 1 \in Int /\ Len(s) \in Int /\ \A i \in k + 1 .. Len(s) : s[i] \in S
        BY <1>1
    <2> QED BY <2>1, SubSeqProperties
<1> HIDE DEF h, t
<1>4. Len(h) = k /\ \A i \in 1 .. k : h[i] = s[i]
    BY <1>1, <1>2
<1>5. Len(t) = Len(s) - k /\ \A i \in 1 .. Len(s) - k : t[i] = s[k + i]
    BY <1>1, <1>3
<1> QED BY <1>1, <1>2, <1>3, <1>4, <1>5 DEF h, t

\* The empty sequence has no members.
LEMMA Empty ==
    ASSUME NEW S, NEW s \in Seq(S)
    PROVE  /\ s = <<>> <=> Len(s) = 0
           /\ Len(s) \in Nat
           /\ \A k \in 1 .. Len(s) : s[k] \in S
BY EmptySeq, LenProperties, ElementOfSeq

\* A sequence of one.
LEMMA Single ==
    ASSUME NEW S, NEW x \in S
    PROVE  <<x>> \in Seq(S) /\ Len(<<x>>) = 1 /\ <<x>>[1] = x
OBVIOUS

\* A sequence whose length is one is <<its member>>.
LEMMA OfOne ==
    ASSUME NEW S, NEW x \in S, NEW s, s = <<x>>
    PROVE  s \in Seq(S) /\ Len(s) = 1 /\ \A k \in 1 .. Len(s) : k = 1 /\ s[k] = x
<1>1. \A k \in 1 .. 1 : k = 1
    OBVIOUS
<1> QED BY <1>1, Single

\* Of what is not above.
LEMMA NoLess ==
    \A a, b, l \in Nat : \A g, h \in Int : a + b <= g /\ (h = g \/ h = g + l) => a + b <= h
OBVIOUS

\* Of what is not behind.
LEMMA NoLater ==
    \A a, b \in Nat : \A g, h \in Int : a + b <= g /\ g <= h => a + b <= h
OBVIOUS

\* Nothing is between a number and the next.
LEMMA NoMore ==
    \A a, b, c \in Nat : \A g \in Int : a + b <= g /\ c <= b => a + c <= g
OBVIOUS

\* An index of a sequence made of two is in the first or behind it.
LEMMA Halves ==
    ASSUME NEW a \in Nat, NEW b \in Nat, NEW k \in 1 .. a + b
    PROVE  k \in 1 .. a \/ \E m \in 1 .. b : k = a + m
<1>1. CASE k <= a
    BY <1>1
<1>2. CASE ~(k <= a)
    <2>1. k - a \in 1 .. b /\ k = a + (k - a)
        BY <1>2
    <2> QED BY <2>1
<1> QED BY <1>1, <1>2

\* The empty sequence is of any type.
LEMMA NoRow == \A S : <<>> \in Seq(S)
OBVIOUS

-----------------------------------------------------------------------------
(* The bulletin board                                                      *)

CONSTANTS BoardClients, BoardLines, Procs, Terminates, BoardDies

VARIABLES parent, backlog, held, child, item, lines, tie, client, asked, answers

Board == INSTANCE Bulletin WITH Clients <- BoardClients, Lines <- BoardLines, Dies <- BoardDies

\* The line that is being served was asked for.
BoardServing(c) == IF child[c] = "serve" /\ tie[c] = "open" THEN 1 ELSE 0

\* Who holds a place in the table of processes.
BoardUsed == {c \in BoardClients : child[c] \in Board!Running \cup {"zombie"}}

BoardAsks(c) == answers[c] + Len(lines[c]) + BoardServing(c) <= asked[c]

\* The parent has a connection in its hand between accept and close only.
BoardHeld ==
    /\ \A c \in BoardClients :
          "parent" \in held[c] => c \in parent.conn /\ parent.pc \in {"fork", "close"}
    /\ parent.pc \in {"fork", "close"} => \E c \in BoardClients : parent.conn = {c}
    /\ parent.pc \notin {"fork", "close"} => parent.conn = {}

BoardInv ==
    /\ Board!TypeOK /\ BoardHeld
    /\ \A c \in BoardClients : BoardAsks(c)
    /\ IsFiniteSet(BoardUsed) /\ Cardinality(BoardUsed) <= Procs

\* It counts as the theorems of finite sets do.
LEMMA Counted == \A S : Board!Cardinality(S) = Cardinality(S)
BY DEF Board!Cardinality, Cardinality

\* BoardInv holds when nobody has come.
LEMMA BoardStarts ==
    ASSUME Board!BulletinAssumption, Board!Init
    PROVE  BoardInv
<1> USE DEF Board!Init
<1>1. <<>> \in Seq({1, 9, 0}) /\ <<>> \in Seq(BoardClients) /\ Len(<<>>) = 0
    OBVIOUS
<1>2. Board!TypeOK
    BY <1>1 DEF Board!TypeOK, Board!BulletinAssumption
<1>3. \A c \in BoardClients : BoardAsks(c)
    BY <1>1 DEF BoardAsks, BoardServing
<1>4. BoardUsed = {}
    BY DEF BoardUsed, Board!Running
<1>5. IsFiniteSet(BoardUsed) /\ Cardinality(BoardUsed) <= Procs
    BY <1>4, FS_EmptySet DEF Board!BulletinAssumption
<1>6. BoardHeld
    BY DEF BoardHeld
<1> QED BY <1>2, <1>3, <1>5, <1>6 DEF BoardInv

\* The steps of the parent, of the children and of the clients.
LEMMA BoardKinds ==
    ASSUME Board!BulletinAssumption, Board!TypeOK, NEW c \in BoardClients
    PROVE  /\ answers[c] \in Nat /\ asked[c] \in Nat /\ asked[c] <= BoardLines
           /\ lines[c] \in Seq({1, 9, 0}) /\ Len(lines[c]) \in Nat
           /\ BoardServing(c) \in {0, 1}
<1>1. answers[c] \in 0 .. BoardLines /\ asked[c] \in 0 .. BoardLines /\ lines[c] \in Seq({1, 9, 0})
    BY DEF Board!TypeOK
<1> QED BY <1>1, Empty DEF Board!BulletinAssumption, BoardServing

\* Nobody new is in the table of processes.
LEMMA BoardRoom ==
    ASSUME Board!BulletinAssumption, BoardInv,
           \A c \in BoardClients : child'[c] \in Board!Running \cup {"zombie"}
                                   => child[c] \in Board!Running \cup {"zombie"}
    PROVE  IsFiniteSet(BoardUsed)' /\ Cardinality(BoardUsed)' <= Procs'
<1>1. BoardUsed' \subseteq BoardUsed
    BY DEF BoardUsed
<1>2. IsFiniteSet(BoardUsed) /\ Cardinality(BoardUsed) <= Procs
    BY DEF BoardInv
<1>3. IsFiniteSet(BoardUsed') /\ Cardinality(BoardUsed') <= Cardinality(BoardUsed)
    BY <1>1, <1>2, FS_Subset
<1>4. Cardinality(BoardUsed') \in Nat /\ Cardinality(BoardUsed) \in Nat
    BY <1>2, <1>3, FS_CardinalityType
<1> DEFINE a == Cardinality(BoardUsed)
           b == Cardinality(BoardUsed')
<1>5. a \in Nat /\ b \in Nat /\ b <= a /\ a <= Procs /\ Procs \in Nat
    BY <1>2, <1>3, <1>4 DEF Board!BulletinAssumption
<1> HIDE DEF a, b
<1>6. b <= Procs
    BY <1>5
<1> QED BY <1>3, <1>6 DEF b

\* The parent.
LEMMA BoardAccepts ==
    ASSUME Board!BulletinAssumption, BoardInv, Board!Accept
    PROVE  BoardInv'
<1> DEFINE c == Head(backlog)
<1>1. backlog \in Seq(BoardClients) /\ backlog # <<>>
    BY DEF Board!Accept, BoardInv, Board!TypeOK
<1>2. c \in BoardClients /\ Tail(backlog) \in Seq(BoardClients)
    BY <1>1
<1> HIDE DEF c
<1>3. /\ parent.pc = "accept" /\ parent' = [pc |-> "fork", conn |-> {c}] /\ backlog' = Tail(backlog)
      /\ held' = [held EXCEPT ![c] = {"parent"}]
      /\ UNCHANGED <<child, item, lines, tie, client, asked, answers>>
    BY DEF Board!Accept, c
<1>4. Board!TypeOK'
    BY <1>2, <1>3 DEF BoardInv, Board!TypeOK
<1>5. BoardHeld'
    BY <1>2, <1>3 DEF BoardInv, BoardHeld, Board!TypeOK
<1>6. \A d \in BoardClients : BoardAsks(d)'
    BY <1>3 DEF BoardInv, BoardAsks, BoardServing
<1>7. IsFiniteSet(BoardUsed)' /\ Cardinality(BoardUsed)' <= Procs'
    BY <1>3, BoardRoom
<1> QED BY <1>4, <1>5, <1>6, <1>7 DEF BoardInv

\* fork keeps BoardInv.
LEMMA BoardForks ==
    ASSUME Board!BulletinAssumption, BoardInv, NEW c \in BoardClients, Board!Fork(c)
    PROVE  BoardInv'
<1>1. /\ parent.pc = "fork" /\ c \in parent.conn /\ parent' = [parent EXCEPT !.pc = "close"]
      /\ UNCHANGED <<backlog, item, lines, tie, client, asked, answers>>
      /\ \/ child' = child /\ held' = held
         \/ /\ Board!Used < Procs /\ child' = [child EXCEPT ![c] = "greet"]
            /\ held' = [held EXCEPT ![c] = @ \cup {"child"}]
    BY DEF Board!Fork
<1>2. Board!TypeOK'
    <2> USE DEF BoardInv, Board!TypeOK
    <2>1. parent' \in [pc : {"accept", "fork", "close", "over"}, conn : SUBSET BoardClients]
        BY <1>1
    <2>2. child' \in [BoardClients -> Board!Running \cup {"none", "zombie"}]
        BY <1>1 DEF Board!Running
    <2>3. held' \in [BoardClients -> SUBSET {"parent", "child"}]
        <3>1. held \in [BoardClients -> SUBSET {"parent", "child"}]
            OBVIOUS
        <3>2. held' = held \/ held' = [held EXCEPT ![c] = held[c] \cup {"child"}]
            BY <1>1
        <3> HIDE DEF BoardInv, Board!TypeOK
        <3>3. held[c] \cup {"child"} \in SUBSET {"parent", "child"}
            BY <3>1
        <3> QED BY <3>1, <3>2, <3>3
    <2> QED BY <1>1, <2>1, <2>2, <2>3
<1>3. BoardHeld'
    BY <1>1 DEF BoardInv, BoardHeld, Board!TypeOK
<1>4. ASSUME NEW d \in BoardClients PROVE BoardAsks(d)'
    <2>1. BoardServing(d)' <= BoardServing(d) /\ BoardServing(d)' \in {0, 1}
        BY <1>1 DEF BoardServing, BoardInv, Board!TypeOK
    <2> DEFINE n == answers[d]
               l == Len(lines[d])
               a == asked[d]
               b == BoardServing(d)
               e == BoardServing(d)'
    <2>2. n \in Nat /\ l \in Nat /\ a \in Nat /\ b \in {0, 1} /\ e \in {0, 1} /\ e <= b
        BY <2>1, BoardKinds DEF BoardInv
    <2>3. n + l + b <= a
        BY DEF BoardInv, BoardAsks
    <2>4. answers'[d] = n /\ Len(lines'[d]) = l /\ asked'[d] = a
        BY <1>1
    <2> HIDE DEF n, l, a, b, e
    <2>5. n + l + e <= a
        BY <2>2, <2>3
    <2> QED BY <2>4, <2>5 DEF e, BoardAsks
<1>5. IsFiniteSet(BoardUsed)' /\ Cardinality(BoardUsed)' <= Procs'
    <2>1. CASE child' = child
        BY <2>1, BoardRoom
    <2>2. CASE Board!Used < Procs /\ child' = [child EXCEPT ![c] = "greet"]
        <3>1. BoardUsed' = BoardUsed \cup {c}
            BY <2>2 DEF BoardUsed, Board!Running, BoardInv, Board!TypeOK
        <3> DEFINE a == Cardinality(BoardUsed)
                   b == Cardinality(BoardUsed \cup {c})
        <3>2. IsFiniteSet(BoardUsed)
            BY DEF BoardInv
        <3>3. IsFiniteSet(BoardUsed \cup {c}) /\ (b = a \/ b = a + 1) /\ a \in Nat
            BY <3>2, FS_AddElement, FS_CardinalityType
        <3>4. a < Procs /\ Procs \in Nat
            <4>1. Board!Used = a
                BY Counted DEF Board!Used, BoardUsed
            <4> QED BY <2>2, <4>1 DEF Board!BulletinAssumption
        <3> HIDE DEF a, b
        <3>5. b <= Procs
            BY <3>3, <3>4
        <3> QED BY <3>1, <3>3, <3>5 DEF b
    <2> QED BY <1>1, <2>1, <2>2
<1> QED BY <1>2, <1>3, <1>4, <1>5 DEF BoardInv

\* close in the parent keeps BoardInv.
LEMMA BoardCloses ==
    ASSUME Board!BulletinAssumption, BoardInv, NEW c \in BoardClients, Board!Close(c) \/ Board!Terminate
    PROVE  BoardInv'
<1>1. /\ UNCHANGED <<child, item, lines, tie, client, asked, answers>>
      /\ \/ /\ parent.pc = "close" /\ c \in parent.conn /\ parent' = [pc |-> "accept", conn |-> {}]
            /\ held' = [held EXCEPT ![c] = @ \ {"parent"}] /\ backlog' = backlog
         \/ /\ parent' = [pc |-> "over", conn |-> {}] /\ backlog' = <<>>
            /\ held' = [d \in BoardClients |-> held[d] \ {"parent"}]
    BY DEF Board!Close, Board!Terminate
<1>2. <<>> \in Seq(BoardClients)
    OBVIOUS
<1>3. /\ held' \in [BoardClients -> SUBSET {"parent", "child"}]
      /\ \A d \in BoardClients : held'[d] \subseteq held[d]
      /\ \A d \in BoardClients : "parent" \in held'[d] => parent'.pc = "accept" /\ d # c
    <2>1. CASE held' = [held EXCEPT ![c] = @ \ {"parent"}] /\ parent'.pc = "accept"
        BY <2>1 DEF BoardInv, Board!TypeOK
    <2>2. CASE held' = [d \in BoardClients |-> held[d] \ {"parent"}]
        BY <2>2 DEF BoardInv, Board!TypeOK
    <2> QED BY <1>1, <2>1, <2>2
<1>4. parent' \in [pc : {"accept", "fork", "close", "over"}, conn : SUBSET BoardClients]
    BY <1>1
<1>5. Board!TypeOK'
    BY <1>1, <1>2, <1>3, <1>4 DEF BoardInv, Board!TypeOK
<1>6. BoardHeld'
    <2>1. ASSUME NEW d \in BoardClients PROVE "parent" \notin held'[d]
        <3>1. SUFFICES ASSUME "parent" \in held'[d] PROVE FALSE
            OBVIOUS
        <3>2. parent.conn = {c}
            BY <1>1, <1>3, <3>1 DEF BoardInv, BoardHeld
        <3> QED BY <1>3, <3>1, <3>2 DEF BoardInv, BoardHeld
    <2> QED BY <1>1, <2>1 DEF BoardHeld
<1>7. \A d \in BoardClients : BoardAsks(d)'
    BY <1>1 DEF BoardInv, BoardAsks, BoardServing
<1>8. IsFiniteSet(BoardUsed)' /\ Cardinality(BoardUsed)' <= Procs'
    BY <1>1, BoardRoom
<1> QED BY <1>5, <1>6, <1>7, <1>8 DEF BoardInv

\* A child, or a client: the parent is not concerned.
LEMMA BoardLocal ==
    ASSUME Board!BulletinAssumption, BoardInv, NEW c \in BoardClients, Board!TypeOK', UNCHANGED parent,
           \A d \in BoardClients : held'[d] \subseteq held[d],
           \A d \in BoardClients : child'[d] \in Board!Running \cup {"zombie"}
                                   => child[d] \in Board!Running \cup {"zombie"},
           \A d \in BoardClients \ {c} :
              /\ child'[d] = child[d] /\ tie'[d] = tie[d] /\ lines'[d] = lines[d]
              /\ asked'[d] = asked[d] /\ answers'[d] = answers[d],
           BoardAsks(c)'
    PROVE  BoardInv'
<1>1. BoardHeld'
    BY DEF BoardInv, BoardHeld
<1>2. \A d \in BoardClients \ {c} : BoardAsks(d)'
    BY DEF BoardInv, BoardAsks, BoardServing
<1>3. IsFiniteSet(BoardUsed)' /\ Cardinality(BoardUsed)' <= Procs'
    BY BoardRoom
<1> QED BY <1>1, <1>2, <1>3 DEF BoardInv

\* A client that writes keeps BoardInv.
LEMMA BoardWrites ==
    ASSUME Board!BulletinAssumption, BoardInv, NEW c \in BoardClients, NEW next \in {"menu", "read"},
           child[c] \in {"greet", "menu", "serve"}, Board!Write(c, next) \/ (Board!Exit(c) /\ UNCHANGED tie),
           UNCHANGED <<parent, backlog, item, lines, client, asked>>, answers' \in [BoardClients -> Nat],
           \A d \in BoardClients \ {c} : answers'[d] = answers[d],
           \/ answers'[c] = answers[c]
           \/ answers'[c] = answers[c] + 1 /\ child[c] = "serve" /\ tie[c] = "open"
    PROVE  BoardInv'
<1>1. /\ \/ child' = [child EXCEPT ![c] = "zombie"]
         \/ child' = [child EXCEPT ![c] = next]
      /\ tie' = tie \/ tie' = [tie EXCEPT ![c] = IF @ = "open" THEN @ ELSE "reset"]
      /\ held' = held \/ held' = [held EXCEPT ![c] = @ \ {"child"}]
    BY DEF Board!Write, Board!Exit
<1>2. /\ \A d \in BoardClients : held'[d] \subseteq held[d]
      /\ \A d \in BoardClients \ {c} : child'[d] = child[d] /\ tie'[d] = tie[d]
      /\ child'[c] \in {"zombie", "menu", "read"}
      /\ child' \in [BoardClients -> Board!Running \cup {"none", "zombie"}]
      /\ tie' \in [BoardClients -> {"open", "gone", "reset"}]
      /\ held' \in [BoardClients -> SUBSET {"parent", "child"}]
    <2> USE DEF BoardInv, Board!TypeOK
    <2>1. held' \in [BoardClients -> SUBSET {"parent", "child"}] /\ \A d \in BoardClients : held'[d] \subseteq held[d]
        <3>1. held \in [BoardClients -> SUBSET {"parent", "child"}]
            OBVIOUS
        <3>2. held' = held \/ held' = [held EXCEPT ![c] = held[c] \ {"child"}]
            BY <1>1
        <3>3. held[c] \ {"child"} \in SUBSET {"parent", "child"}
            BY <3>1
        <3> QED BY ONLY <3>1, <3>2, <3>3
    <2>2. /\ \A d \in BoardClients \ {c} : child'[d] = child[d]
          /\ child'[c] \in {"zombie", "menu", "read"}
          /\ child' \in [BoardClients -> Board!Running \cup {"none", "zombie"}]
        <3>1. child \in [BoardClients -> Board!Running \cup {"none", "zombie"}]
            OBVIOUS
        <3>2. PICK x \in {"zombie", "menu", "read"} : child' = [child EXCEPT ![c] = x]
            BY <1>1
        <3>3. x \in Board!Running \cup {"none", "zombie"}
            BY DEF Board!Running
        <3> QED BY <3>1, <3>2, <3>3
    <2>3. /\ tie' \in [BoardClients -> {"open", "gone", "reset"}]
          /\ \A d \in BoardClients \ {c} : tie'[d] = tie[d]
        BY <1>1
    <2> QED BY <2>1, <2>2, <2>3
<1> DEFINE n == answers[c]
           l == Len(lines[c])
           a == asked[c]
           b == BoardServing(c)
<1>3. /\ n \in Nat /\ l \in Nat /\ a \in Nat /\ b \in {0, 1} /\ a <= BoardLines /\ BoardLines \in Nat
      /\ n + l + b <= a
    BY BoardKinds DEF BoardInv, BoardAsks, Board!BulletinAssumption
<1>4. BoardServing(c)' = 0
    BY <1>2 DEF BoardServing
<1>5. answers'[c] = n \/ (answers'[c] = n + 1 /\ b = 1)
    BY DEF BoardServing
<1> HIDE DEF n, l, a, b
<1>6. answers'[c] + l + 0 <= a /\ answers'[c] <= BoardLines /\ answers'[c] \in Nat
    BY <1>3, <1>5
<1>7. BoardAsks(c)'
    BY <1>4, <1>6 DEF BoardAsks, l, a
<1>8. answers' \in [BoardClients -> 0 .. BoardLines]
    <2>1. ASSUME NEW d \in BoardClients \ {c} PROVE answers'[d] \in 0 .. BoardLines
        BY DEF BoardInv, Board!TypeOK
    <2>2. answers'[c] \in 0 .. BoardLines
        BY <1>3, <1>6
    <2> QED BY <2>1, <2>2
<1>9. Board!TypeOK'
    BY <1>2, <1>8 DEF BoardInv, Board!TypeOK
<1>10. child[c] \in Board!Running
    BY DEF Board!Running
<1> QED BY <1>2, <1>7, <1>9, <1>10, BoardLocal

\* A child that serves keeps BoardInv.
LEMMA BoardServes ==
    ASSUME Board!BulletinAssumption, BoardInv, NEW c \in BoardClients,
           Board!Greet(c) \/ Board!Menu(c) \/ Board!Process(c)
    PROVE  BoardInv'
<1>1. answers \in [BoardClients -> 0 .. BoardLines] /\ answers \in [BoardClients -> Nat]
    BY DEF BoardInv, Board!TypeOK, Board!BulletinAssumption
<1>2. /\ child[c] \in {"greet", "menu", "serve"}
      /\ UNCHANGED <<parent, backlog, item, lines, client, asked>>
      /\ \/ \E next \in {"menu", "read"} : Board!Write(c, next)
         \/ Board!Exit(c) /\ UNCHANGED tie
      /\ \/ answers' = answers
         \/ /\ answers' = [answers EXCEPT ![c] = IF tie[c] = "open" THEN @ + 1 ELSE @]
            /\ child[c] = "serve"
    BY DEF Board!Greet, Board!Menu, Board!Process
<1>3. PICK next \in {"menu", "read"} : Board!Write(c, next) \/ (Board!Exit(c) /\ UNCHANGED tie)
    BY <1>2
<1>4. /\ answers' \in [BoardClients -> Nat] /\ \A d \in BoardClients \ {c} : answers'[d] = answers[d]
      /\ \/ answers'[c] = answers[c]
         \/ answers'[c] = answers[c] + 1 /\ child[c] = "serve" /\ tie[c] = "open"
    BY <1>1, <1>2
<1> QED BY <1>2, <1>3, <1>4, BoardWrites

\* A child that reads keeps BoardInv.
LEMMA BoardReads ==
    ASSUME Board!BulletinAssumption, BoardInv, NEW c \in BoardClients, Board!Read(c)
    PROVE  BoardInv'
<1>1. /\ child[c] = "read" /\ (lines[c] # <<>> \/ tie[c] # "open")
      /\ child' = [child EXCEPT ![c] = "serve"] /\ lines' = [lines EXCEPT ![c] = <<>>]
      /\ UNCHANGED <<parent, backlog, held, tie, client, asked, answers>>
      /\ \/ item' = item
         \/ lines[c] # <<>> /\ Head(lines[c]) # 0 /\ item' = [item EXCEPT ![c] = Head(lines[c])]
    BY DEF Board!Read
<1>2. lines[c] \in Seq({1, 9, 0}) /\ <<>> \in Seq({1, 9, 0})
    BY DEF BoardInv, Board!TypeOK
<1>3. lines[c] # <<>> => Head(lines[c]) \in {1, 9, 0}
    BY <1>2
<1>4. Board!TypeOK'
    BY <1>1, <1>2, <1>3 DEF BoardInv, Board!TypeOK, Board!Items, Board!Running
<1> DEFINE n == answers[c]
           l == Len(lines[c])
           a == asked[c]
           b == BoardServing(c)
           e == BoardServing(c)'
<1>5. n \in Nat /\ l \in Nat /\ a \in Nat /\ b = 0 /\ n + l + b <= a
    BY <1>1, BoardKinds DEF BoardInv, BoardAsks, BoardServing
<1>6. e = 0 \/ (e = 1 /\ tie[c] = "open")
    BY <1>1 DEF BoardServing
<1>7. tie[c] = "open" => l >= 1
    BY <1>1, <1>2, Empty
<1> HIDE DEF n, l, a, b, e
<1>8. n + 0 + e <= a
    BY <1>5, <1>6, <1>7
<1>9. lines'[c] = <<>> /\ Len(<<>>) = 0
    BY <1>1 DEF BoardInv, Board!TypeOK
<1>10. BoardAsks(c)'
    BY <1>1, <1>8, <1>9 DEF n, a, e, BoardAsks
<1>11. \A d \in BoardClients \ {c} : child'[d] = child[d] /\ lines'[d] = lines[d]
    BY <1>1 DEF BoardInv, Board!TypeOK
<1>12. \A d \in BoardClients : child'[d] \in Board!Running \cup {"zombie"}
                                   => child[d] \in Board!Running \cup {"zombie"}
    BY <1>1, <1>11 DEF Board!Running
<1> QED BY <1>1, <1>4, <1>10, <1>11, <1>12, BoardLocal

\* A client.
LEMMA BoardConnects ==
    ASSUME Board!BulletinAssumption, BoardInv, NEW c \in BoardClients, Board!Connect(c)
    PROVE  BoardInv'
<1>1. /\ client' = [client EXCEPT ![c] = "in"] /\ backlog' = Append(backlog, c)
      /\ UNCHANGED <<parent, held, child, item, lines, tie, asked, answers>>
    BY DEF Board!Connect
<1>2. Append(backlog, c) \in Seq(BoardClients)
    BY DEF BoardInv, Board!TypeOK
<1>3. Board!TypeOK'
    BY <1>1, <1>2 DEF BoardInv, Board!TypeOK
<1>4. BoardAsks(c)'
    BY <1>1 DEF BoardInv, BoardAsks, BoardServing
<1> QED BY <1>1, <1>3, <1>4, BoardLocal

\* What is typed, and what of it arrives when the client leaves.
LEMMA BoardTypes ==
    ASSUME Board!BulletinAssumption, BoardInv, NEW c \in BoardClients,
           Board!Kill(c) \/ \E l \in {1, 9, 0} : Board!Type(c, l)
    PROVE  BoardInv'
<1>1. lines[c] \in Seq({1, 9, 0}) /\ Len(lines[c]) \in Nat /\ asked[c] \in Nat /\ answers[c] \in Nat
      /\ BoardServing(c) \in {0, 1} /\ asked[c] <= BoardLines /\ BoardLines \in Nat
    BY BoardKinds DEF BoardInv, Board!BulletinAssumption
<1>2. PICK s \in Seq({1, 9, 0}), n \in {0, 1} :
          /\ Len(s) <= Len(lines[c]) + n /\ Len(s) \in Nat
          /\ UNCHANGED <<parent, backlog, held, child, item, answers>>
          /\ \/ n = 0 /\ asked' = asked
             \/ n = 1 /\ asked[c] < BoardLines /\ asked' = [asked EXCEPT ![c] = @ + 1]
          /\ \/ Board!Leave(c, s)
             \/ /\ lines' = [lines EXCEPT ![c] = s] /\ UNCHANGED tie
                /\ \E p \in {"in", "hung"} : client' = [client EXCEPT ![c] = p]
    <2>1. CASE Board!Kill(c)
        <3>1. /\ Board!Leave(c, lines[c]) /\ asked' = asked
              /\ UNCHANGED <<parent, backlog, held, child, item, answers>>
            BY <2>1 DEF Board!Kill
        <3>2. Len(lines[c]) <= Len(lines[c]) + 0
            BY <1>1
        <3> QED BY <1>1, <3>1, <3>2
    <2>2. ASSUME NEW l \in {1, 9, 0}, Board!Type(c, l)
          PROVE  \E s \in Seq({1, 9, 0}), n \in {0, 1} :
                    /\ Len(s) <= Len(lines[c]) + n /\ Len(s) \in Nat
                    /\ UNCHANGED <<parent, backlog, held, child, item, answers>>
                    /\ \/ n = 0 /\ asked' = asked
                       \/ n = 1 /\ asked[c] < BoardLines /\ asked' = [asked EXCEPT ![c] = @ + 1]
                    /\ \/ Board!Leave(c, s)
                       \/ /\ lines' = [lines EXCEPT ![c] = s] /\ UNCHANGED tie
                          /\ \E p \in {"in", "hung"} : client' = [client EXCEPT ![c] = p]
        <3> DEFINE s == IF Board!Open(c) THEN Append(lines[c], l) ELSE lines[c]
        <3>1. Append(lines[c], l) \in Seq({1, 9, 0}) /\ Len(Append(lines[c], l)) = Len(lines[c]) + 1
            BY <1>1, AppendProperties
        <3>2. s \in Seq({1, 9, 0}) /\ Len(s) <= Len(lines[c]) + 1 /\ Len(s) \in Nat
            BY <1>1, <3>1
        <3>3. /\ asked[c] < BoardLines /\ asked' = [asked EXCEPT ![c] = @ + 1]
              /\ UNCHANGED <<parent, backlog, held, child, item, answers>>
              /\ \/ Board!Leave(c, s)
                 \/ /\ lines' = [lines EXCEPT ![c] = s] /\ UNCHANGED tie
                    /\ client' = [client EXCEPT ![c] = IF Board!Open(c) THEN @ ELSE "hung"]
                    /\ client[c] \in {"in", "hung"}
            BY <2>2 DEF Board!Type
        <3> HIDE DEF s
        <3>4. \/ Board!Leave(c, s)
              \/ /\ lines' = [lines EXCEPT ![c] = s] /\ UNCHANGED tie
                 /\ \E p \in {"in", "hung"} : client' = [client EXCEPT ![c] = p]
            BY <3>3
        <3> QED BY <3>2, <3>3, <3>4
    <2> QED BY <2>1, <2>2
<1>3. /\ lines' \in [BoardClients -> Seq({1, 9, 0})] /\ Len(lines'[c]) <= Len(s) /\ Len(lines'[c]) \in Nat
      /\ \A d \in BoardClients \ {c} : lines'[d] = lines[d] /\ tie'[d] = tie[d]
      /\ tie' \in [BoardClients -> {"open", "gone", "reset"}] /\ (tie'[c] = "open" => tie[c] = "open")
      /\ client' \in [BoardClients -> {"out", "in", "hung", "over"}]
    <2> USE DEF BoardInv, Board!TypeOK
    <2>1. CASE Board!Leave(c, s)
        <3>1. PICK k \in 0 .. Len(s) : lines' = [lines EXCEPT ![c] = SubSeq(s, 1, k)]
            BY <2>1 DEF Board!Leave
        <3>2. SubSeq(s, 1, k) \in Seq({1, 9, 0}) /\ Len(SubSeq(s, 1, k)) = k /\ k \in Nat /\ k <= Len(s)
            BY <1>2, Cut
        <3>3. PICK t \in {"gone", "reset"} : tie' = [tie EXCEPT ![c] = t]
            BY <2>1 DEF Board!Leave
        <3>4. client' = [client EXCEPT ![c] = "over"]
            BY <2>1 DEF Board!Leave
        <3>5. /\ lines' \in [BoardClients -> Seq({1, 9, 0})] /\ lines'[c] = SubSeq(s, 1, k)
              /\ \A d \in BoardClients \ {c} : lines'[d] = lines[d]
            BY <3>1, <3>2
        <3> QED BY <3>2, <3>3, <3>4, <3>5
    <2>2. CASE /\ lines' = [lines EXCEPT ![c] = s] /\ UNCHANGED tie
               /\ \E p \in {"in", "hung"} : client' = [client EXCEPT ![c] = p]
        BY <1>2, <2>2
    <2> QED BY <1>2, <2>1, <2>2
<1>4. /\ asked' \in [BoardClients -> 0 .. BoardLines] /\ asked'[c] = asked[c] + n
      /\ \A d \in BoardClients \ {c} : asked'[d] = asked[d]
    <2>1. CASE n = 0 /\ asked' = asked
        BY <1>1, <2>1 DEF BoardInv, Board!TypeOK
    <2>2. CASE n = 1 /\ asked[c] < BoardLines /\ asked' = [asked EXCEPT ![c] = @ + 1]
        <3>1. asked[c] + 1 \in 0 .. BoardLines
            BY <1>1, <2>2
        <3> QED BY <2>2, <3>1 DEF BoardInv, Board!TypeOK
    <2> QED BY <1>2, <2>1, <2>2
<1>5. Board!TypeOK'
    BY <1>2, <1>3, <1>4 DEF BoardInv, Board!TypeOK
<1>6. BoardAsks(c)'
    <2> DEFINE m == answers[c]
               l == Len(lines[c])
               a == asked[c]
               b == BoardServing(c)
               e == BoardServing(c)'
               l2 == Len(lines'[c])
               k == Len(s)
    <2>1. m \in Nat /\ l \in Nat /\ a \in Nat /\ b \in {0, 1} /\ l2 \in Nat /\ k \in Nat /\ n \in {0, 1}
        BY <1>1, <1>2, <1>3
    <2>2. k <= l + n /\ l2 <= k /\ asked'[c] = a + n /\ m + l + b <= a
        BY <1>2, <1>3, <1>4 DEF BoardInv, BoardAsks
    <2>3. e \in {0, 1} /\ (e = 1 => b = 1)
        BY <1>2, <1>3 DEF BoardServing
    <2> HIDE DEF m, l, a, b, e, l2, k
    <2>4. m + l2 + e <= a + n
        BY <2>1, <2>2, <2>3
    <2> QED BY <1>2, <2>2, <2>4 DEF m, e, l2, BoardAsks
<1> QED BY <1>2, <1>3, <1>4, <1>5, <1>6, BoardLocal

\* Every step of the bulletin board keeps BoardInv.
LEMMA BoardGoesOn ==
    ASSUME Board!BulletinAssumption, BoardInv, [Board!Next]_Board!vars
    PROVE  BoardInv'
<1>1. CASE UNCHANGED Board!vars
    <2>1. UNCHANGED <<parent, backlog, held, child, item, lines, tie, client, asked, answers>>
        BY <1>1 DEF Board!vars
    <2>2. \A c \in BoardClients : BoardAsks(c)'
        BY <2>1 DEF BoardInv, BoardAsks, BoardServing
    <2>3. Board!TypeOK' /\ BoardHeld'
        BY <2>1 DEF BoardInv, Board!TypeOK, BoardHeld
    <2> QED BY <2>1, <2>2, <2>3, BoardRoom DEF BoardInv
<1>2. CASE Board!Next
    <2>1. CASE Board!Accept
        BY <2>1, BoardAccepts
    <2>2. CASE Board!Terminate
        <3>1. CASE BoardClients = {}
            <4>1. BoardHeld' /\ \A c \in BoardClients : BoardAsks(c)'
                BY <2>2, <3>1 DEF BoardHeld, Board!Terminate
            <4>2. Board!TypeOK'
                <5>1. <<>> \in Seq(BoardClients)
                    OBVIOUS
                <5> QED BY <2>2, <3>1, <5>1 DEF BoardInv, Board!TypeOK, Board!Terminate
            <4> QED BY <3>1, <4>1, <4>2, BoardRoom DEF BoardInv
        <3>2. ASSUME NEW c \in BoardClients PROVE BoardInv'
            BY <2>2, BoardCloses
        <3> QED BY <3>1, <3>2
    <2>3. ASSUME NEW c \in BoardClients, Board!Fork(c) PROVE BoardInv'
        BY <2>3, BoardForks
    <2>4. ASSUME NEW c \in BoardClients, Board!Close(c) PROVE BoardInv'
        BY <2>4, BoardCloses
    <2>5. ASSUME NEW c \in BoardClients, Board!Greet(c) \/ Board!Menu(c) \/ Board!Process(c) PROVE BoardInv'
        BY <2>5, BoardServes
    <2>6. ASSUME NEW c \in BoardClients, Board!Read(c) PROVE BoardInv'
        BY <2>6, BoardReads
    <2>7. ASSUME NEW c \in BoardClients, Board!Connect(c) PROVE BoardInv'
        BY <2>7, BoardConnects
    <2>8. ASSUME NEW c \in BoardClients, Board!Kill(c) \/ \E l \in {1, 9, 0} : Board!Type(c, l) PROVE BoardInv'
        BY <2>8, BoardTypes
    <2> QED BY <1>2, <2>1, <2>2, <2>3, <2>4, <2>5, <2>6, <2>7, <2>8 DEF Board!Next
<1> QED BY <1>1, <1>2

\* What BoardInv says of what was asked for and of the room for clients.
LEMMA BoardShows ==
    ASSUME Board!BulletinAssumption, BoardInv
    PROVE  Board!TypeOK /\ Board!Asked /\ Board!Room
<1>1. ASSUME NEW c \in BoardClients PROVE answers[c] + Len(lines[c]) <= asked[c]
    <2> DEFINE m == answers[c]
               l == Len(lines[c])
               a == asked[c]
               b == BoardServing(c)
    <2>1. m \in Nat /\ l \in Nat /\ a \in Nat /\ b \in {0, 1} /\ m + l + b <= a
        BY BoardKinds DEF BoardInv, BoardAsks
    <2> HIDE DEF m, l, a, b
    <2>2. m + l <= a
        BY <2>1
    <2> QED BY <2>2 DEF m, l, a
<1>2. Board!Used <= Procs
    BY Counted DEF BoardInv, Board!Used, BoardUsed
<1>3. parent.pc = "accept" => \A c \in BoardClients : held[c] \subseteq {"child"}
    BY DEF BoardInv, BoardHeld, Board!TypeOK
<1> QED BY <1>1, <1>2, <1>3 DEF BoardInv, Board!Asked, Board!Room

\* BoardInv holds in every run of the bulletin board, for any clients, lines and places.
THEOREM BoardSafe == Board!BulletinAssumption /\ Board!Safety => []BoardInv
<1> SUFFICES ASSUME Board!BulletinAssumption PROVE Board!Safety => []BoardInv
    OBVIOUS
<1>1. Board!Init => BoardInv
    BY BoardStarts
<1>2. BoardInv /\ [Board!Next]_Board!vars => BoardInv'
    BY BoardGoesOn
<1> QED BY <1>1, <1>2, PTL DEF Board!Safety

-----------------------------------------------------------------------------
(* mtalk                                                                   *)

CONSTANTS N, TalkLines, MaxEmpty, MaxCuts, Purges, Impatient, TalkEnds

VARIABLES
    talkSrv, todo, talkLog, talkConn, talkUp, talkDown, talkCl, talkTyped, screen,
    recv_buf, cuts

Talk == INSTANCE Talk WITH
    MaxLines <- TalkLines, Ends <- TalkEnds,
    srv <- talkSrv, log <- talkLog, conn <- talkConn, up <- talkUp, down <- talkDown,
    cl <- talkCl, typed <- talkTyped

\* The k-th piece that is written to everybody, and how many of them the server
\* has written to c, unless c has gone.
TalkSaid(k) ==
    IF k = 1 THEN Talk!Ready ELSE IF k <= Len(talkLog) + 1 THEN talkLog[k - 1] ELSE Talk!Bye

TalkDue(pc, j, n, b, c) ==
    CASE pc = "enter" -> 0
      [] pc = "ready" -> IF c < j THEN 1 ELSE 0
      [] pc \in {"select", "read"} -> n + 1
      [] pc = "name" -> IF c < j THEN n + 1 ELSE n - b
      [] pc = "text" -> IF c < j THEN n + 1 ELSE IF c = j THEN n - b + 1 ELSE n - b
      [] pc = "bye" -> IF c < j THEN n + 2 ELSE n + 1
      [] pc = "down" -> n + 2
TalkGiven(c) == TalkDue(talkSrv.pc, talkSrv.j, Len(talkLog), Len(talkSrv.buf), c)

\* What is being sent is the end of the log.
TalkTurn ==
    /\ talkSrv.pc \in {"enter", "ready"} => talkLog = <<>> /\ todo = {}
    /\ talkSrv.pc \in {"name", "text"} =>
          /\ Len(talkSrv.buf) + 1 <= Len(talkLog)
          /\ talkLog[Len(talkLog) - Len(talkSrv.buf)] = Talk!Name(talkSrv.i)
          /\ \A k \in 1 .. Len(talkSrv.buf) :
                talkLog[Len(talkLog) - Len(talkSrv.buf) + k] = talkSrv.buf[k]

\* A name is sent once, when it is asked for.
TalkAsked(c) == talkSrv.pc = "enter" /\ c >= talkSrv.i
TalkNames == \A c \in Talk!People :
    /\ TalkAsked(c) => talkUp[c] \in {<<>>, <<Talk!Name(c)>>}
    /\ ~TalkAsked(c) => \A k \in 1 .. Len(talkUp[c]) : ~Talk!IsName(talkUp[c][k])

\* Whoever is to be read has sent something, or gone.
TalkGone == \A c \in Talk!People :
    /\ talkConn[c] = "open" <=> talkCl[c] # "left"
    /\ c \in todo => talkUp[c] # <<>> \/ talkCl[c] = "left"

\* What is shown and what is under way to c is the beginning of what is written
\* to everybody.
TalkStream(c) ==
    /\ Len(screen[c]) + Len(talkDown[c]) <= TalkGiven(c)
    /\ talkConn[c] = "open" /\ talkSrv.pc # "down" =>
          Len(screen[c]) + Len(talkDown[c]) = TalkGiven(c)
    /\ \A k \in 1 .. Len(screen[c]) : screen[c][k] = TalkSaid(k)
    /\ \A k \in 1 .. Len(talkDown[c]) : talkDown[c][k] = TalkSaid(Len(screen[c]) + k)
TalkStreams == \A c \in Talk!People : TalkStream(c)

\* Nothing is in a buffer that nobody said.
TalkHeard(t) == t \in {Talk!Ready, Talk!Bye} \/ \E m \in 1 .. Len(talkLog) : t = talkLog[m]
TalkBuffers == \A c \in Talk!People : \A k \in 1 .. Len(recv_buf[c]) : TalkHeard(recv_buf[c][k])

TalkInv ==
    /\ Talk!TypeOK /\ TalkTurn /\ TalkNames /\ TalkGone /\ TalkStreams /\ TalkBuffers
    /\ Talk!NobodyMuted /\ Talk!LeftForQuit

\* How far everybody is.
LEMMA TalkDues ==
    \A j, n, b, c :
        /\ TalkDue("enter", j, n, b, c) = 0
        /\ TalkDue("ready", j, n, b, c) = IF c < j THEN 1 ELSE 0
        /\ TalkDue("select", j, n, b, c) = n + 1
        /\ TalkDue("read", j, n, b, c) = n + 1
        /\ TalkDue("name", j, n, b, c) = IF c < j THEN n + 1 ELSE n - b
        /\ TalkDue("text", j, n, b, c) = IF c < j THEN n + 1 ELSE IF c = j THEN n - b + 1 ELSE n - b
        /\ TalkDue("bye", j, n, b, c) = IF c < j THEN n + 2 ELSE n + 1
        /\ TalkDue("down", j, n, b, c) = n + 2
BY DEF TalkDue

\* The talk begins with nobody in it.
LEMMA TalkInit ==
    ASSUME Talk!TalkAssumption, Talk!Init
    PROVE  TalkInv
<1> USE DEF Talk!Init
<1>0. 1 \in Talk!People /\ \A c \in Talk!People : c \in Nat /\ c >= 1
    BY DEF Talk!TalkAssumption, Talk!People
<1>1. Talk!TypeOK
    BY <1>0 DEF Talk!TypeOK, Talk!TalkAssumption
<1>2. TalkTurn /\ TalkNames /\ TalkGone
    BY <1>0 DEF TalkTurn, TalkNames, TalkGone, TalkAsked
<1>3. TalkStreams /\ TalkBuffers
    BY TalkDues DEF TalkStreams, TalkStream, TalkGiven, TalkBuffers
<1>4. Talk!NobodyMuted /\ Talk!LeftForQuit
    BY DEF Talk!NobodyMuted, Talk!Speechless, Talk!LeftForQuit
<1> QED BY <1>1, <1>2, <1>3, <1>4 DEF TalkInv

\* A count that begins or goes on is a number.
LEMMA Raised ==
    ASSUME NEW S, NEW f \in [S -> Nat], NEW c \in S
    PROVE  /\ [f EXCEPT ![c] = 1] \in [S -> Nat]
           /\ [f EXCEPT ![c] = @ + 1] \in [S -> Nat]
<1>1. f[c] + 1 \in Nat
    OBVIOUS
<1> QED BY <1>1

\* Every step of mtalk keeps the types.
LEMMA TalkTypedStep ==
    ASSUME Talk!TalkAssumption, Talk!TypeOK, [Talk!Next]_(Talk!vars)
    PROVE  Talk!TypeOK'
<1> USE DEF Talk!TypeOK
<1>0. /\ N \in Nat \ {0} /\ 1 \in Talk!People /\ MaxCuts \in Nat
      /\ \A i \in Talk!People : i \in Nat /\ (i < N => i + 1 \in Talk!People)
    BY DEF Talk!TalkAssumption, Talk!People
<1>1. ASSUME NEW pc \in {"enter", "ready", "select", "read", "name", "text", "bye", "down"},
             NEW i \in Talk!People, NEW j \in Talk!People, NEW b \in Seq(Talk!Words), Talk!At(pc, i, j, b)
      PROVE  talkSrv' \in [pc : {"enter", "ready", "select", "read", "name", "text", "bye", "down"},
                            i : Talk!People, j : Talk!People, buf : Seq(Talk!Words)]
    BY <1>1 DEF Talk!At
<1>2. /\ <<>> \in Seq(Talk!Words) /\ <<>> \in Seq(Talk!Pieces)
      /\ Talk!Words \subseteq Talk!Pieces /\ Seq(Talk!Words) \subseteq Seq(Talk!Pieces)
    <2>1. Talk!Words \subseteq Talk!Pieces
        BY DEF Talk!Pieces
    <2> QED BY <2>1, NoRow
<1>3. /\ \A i \in Talk!People : Talk!Name(i) \in Talk!Words
      /\ Talk!Ready \in Talk!Pieces /\ Talk!Bye \in Talk!Pieces
    BY DEF Talk!Name, Talk!Words, Talk!Pieces
<1>4. ASSUME NEW j \in Talk!People, NEW s \in Seq(Talk!Pieces), Talk!Write(j, s)
      PROVE  /\ talkDown' \in [Talk!People -> Seq(Talk!Pieces)]
             /\ talkConn' \in [Talk!People -> {"open", "closed", "hit", "reset"}]
    <2>1. talkDown[j] \o s \in Seq(Talk!Pieces)
        BY Cat
    <2> QED BY <2>1, <1>4 DEF Talk!Write
<1>5. ASSUME Talk!Writing PROVE Talk!Speech \in Seq(Talk!Pieces)
    <2>1. <<Talk!Ready>> \in Seq(Talk!Pieces) /\ <<Talk!Bye>> \in Seq(Talk!Pieces)
          /\ <<Talk!Name(talkSrv.i)>> \in Seq(Talk!Pieces)
        BY <1>2, <1>3
    <2> QED BY <2>1, <1>2, <1>5 DEF Talk!Speech, Talk!Writing
<1>6. CASE Talk!Enter
    <2>1. Tail(talkUp[talkSrv.i]) \in Seq(Talk!Words)
        BY <1>6, HeadTailProperties DEF Talk!Enter
    <2>2. talkUp' \in [Talk!People -> Seq(Talk!Words)]
        BY <2>1, <1>6 DEF Talk!Enter
    <2>3. talkSrv' \in [pc : {"enter", "ready", "select", "read", "name", "text", "bye", "down"},
                            i : Talk!People, j : Talk!People, buf : Seq(Talk!Words)]
        BY <1>0, <1>1, <1>2, <1>6 DEF Talk!Enter
    <2> QED BY <2>2, <2>3, <1>6 DEF Talk!Enter, Talk!client
<1>7. CASE Talk!SessionInit \/ Talk!SendName \/ Talk!SendText \/ Talk!SayBye
    <2>1. Talk!Writing /\ Talk!Write(talkSrv.j, Talk!Speech)
        BY <1>7 DEF Talk!SessionInit, Talk!SendName, Talk!SendText, Talk!SayBye, Talk!Writing
    <2>2. /\ talkDown' \in [Talk!People -> Seq(Talk!Pieces)]
          /\ talkConn' \in [Talk!People -> {"open", "closed", "hit", "reset"}]
        BY <2>1, <1>4, <1>5
    <2>3. talkSrv' \in [pc : {"enter", "ready", "select", "read", "name", "text", "bye", "down"},
                            i : Talk!People, j : Talk!People, buf : Seq(Talk!Words)]
        BY <1>0, <1>1, <1>2, <1>7 DEF Talk!SessionInit, Talk!SendName, Talk!SendText, Talk!SayBye
    <2>4. UNCHANGED <<todo, talkLog, talkUp, Talk!client, cuts>>
        BY <1>7 DEF Talk!SessionInit, Talk!SendName, Talk!SendText, Talk!SayBye
    <2> QED BY <2>2, <2>3, <2>4 DEF Talk!client
<1>8. CASE Talk!Select \/ Talk!Ending \/ Talk!Killed
    <2>1. talkSrv' \in [pc : {"enter", "ready", "select", "read", "name", "text", "bye", "down"},
                            i : Talk!People, j : Talk!People, buf : Seq(Talk!Words)]
        BY <1>0, <1>1, <1>2, <1>8 DEF Talk!Select, Talk!Ending, Talk!Killed
    <2>2. todo' \subseteq Talk!People /\ UNCHANGED <<talkLog, talkConn, talkUp, talkDown, Talk!client, cuts>>
        BY <1>8 DEF Talk!Select, Talk!Ending, Talk!Killed, Talk!Readable
    <2> QED BY <2>1, <2>2 DEF Talk!client
<1>9. ASSUME NEW i \in Talk!People, Talk!Read(i) PROVE Talk!TypeOK'
    <2>1. todo' \subseteq Talk!People /\ UNCHANGED <<talkConn, talkDown, Talk!client>>
        BY <1>9 DEF Talk!Read
    <2>2. <<Talk!Name(i)>> \in Seq(Talk!Words)
        BY <1>3
    <2>3. CASE talkUp[i] # <<>>
        <3>1. PICK k \in 1 .. Len(talkUp[i]) :
                 /\ Talk!Reads(talkUp[i], k)
                 /\ talkUp' = [talkUp EXCEPT ![i] = Talk!Rest(@, k)]
                 /\ talkLog' = talkLog \o <<Talk!Name(i)>> \o Talk!Taken(talkUp[i], k)
                 /\ Talk!At("name", i, 1, Talk!Taken(talkUp[i], k))
            BY <1>9, <2>3 DEF Talk!Read
        <3>2. talkUp[i] \in Seq(Talk!Words) /\ k \in 0 .. Len(talkUp[i])
            BY Empty
        <3>3. Talk!Taken(talkUp[i], k) \in Seq(Talk!Words) /\ Talk!Rest(talkUp[i], k) \in Seq(Talk!Words)
            BY <3>2, Cut DEF Talk!Taken, Talk!Rest
        <3>4. talkLog \o <<Talk!Name(i)>> \in Seq(Talk!Words)
            BY <2>2, Cat
        <3>5. talkLog' \in Seq(Talk!Words)
            BY <3>1, <3>3, <3>4, Cat
        <3>6. cuts' \in 0 .. MaxCuts
            BY <1>0, <3>1 DEF Talk!Reads
        <3>7. talkUp' \in [Talk!People -> Seq(Talk!Words)]
            BY <3>1, <3>3
        <3> QED BY <1>0, <1>1, <2>1, <3>1, <3>3, <3>5, <3>6, <3>7 DEF Talk!client
    <2>4. CASE talkUp[i] = <<>>
        <3>1. talkLog' = Append(talkLog, Talk!Name(i)) /\ Talk!At("name", i, 1, <<>>) /\ UNCHANGED <<talkUp, cuts>>
            BY <1>9, <2>4 DEF Talk!Read
        <3>2. talkLog' \in Seq(Talk!Words)
            BY <1>3, <3>1, AppendProperties
        <3> QED BY <1>0, <1>1, <1>2, <2>1, <3>1, <3>2 DEF Talk!client
    <2> QED BY <2>3, <2>4
<1>10. ASSUME NEW c \in Talk!People, Talk!TypeName(c) \/ Talk!Type(c) \/ Talk!TypeInVain(c)
       PROVE  Talk!TypeOK'
    <2>1. talkUp' \in [Talk!People -> Seq(Talk!Words)]
        <3>1. CASE Talk!TypeName(c)
            <4>1. <<Talk!Name(c)>> \in Seq(Talk!Words)
                BY <1>3
            <4> QED BY <3>1, <4>1 DEF Talk!TypeName
        <3>2. CASE Talk!Type(c)
            <4>1. <<"it", c>> \in Talk!Words /\ <<"qu", c>> \in Talk!Words
                BY DEF Talk!Words
            <4>2. << <<"it", c>> >> \in Seq(Talk!Words) /\ << <<"qu", c>>, <<"it", c>> >> \in Seq(Talk!Words)
                BY <4>1
            <4>3. PICK s \in Talk!Lines(c) : talkUp' = [talkUp EXCEPT ![c] = @ \o s]
                BY <3>2 DEF Talk!Type
            <4>4. s \in Seq(Talk!Words)
                BY <4>2 DEF Talk!Lines
            <4>5. talkUp[c] \o s \in Seq(Talk!Words)
                BY <4>4, Cat
            <4> QED BY <4>3, <4>5
        <3>3. CASE Talk!TypeInVain(c)
            <4>1. talkUp' = talkUp
                BY <3>3 DEF Talk!TypeInVain
            <4> QED BY <4>1
        <3> QED BY <1>10, <3>1, <3>2, <3>3
    <2>2. talkTyped' \in [Talk!People -> Nat] /\ talkCl' \in [Talk!People -> {"in", "left", "killed"}]
        <3>0. talkTyped \in [Talk!People -> Nat] /\ talkCl \in [Talk!People -> {"in", "left", "killed"}]
            OBVIOUS
        <3> HIDE DEF Talk!TypeOK
        <3>1. /\ talkTyped' \in {[talkTyped EXCEPT ![c] = 1], [talkTyped EXCEPT ![c] = @ + 1]}
              /\ talkCl' \in {talkCl, [talkCl EXCEPT ![c] = "killed"]}
            <4>1. CASE Talk!TypeName(c)
                BY <4>1 DEF Talk!TypeName
            <4>2. CASE Talk!Type(c)
                BY <4>2 DEF Talk!Type
            <4>3. CASE Talk!TypeInVain(c)
                BY <4>3 DEF Talk!TypeInVain
            <4> QED BY <1>10, <4>1, <4>2, <4>3
        <3>2. talkTyped' \in [Talk!People -> Nat]
            BY <3>0, <3>1, Raised
        <3>3. [talkCl EXCEPT ![c] = "killed"] \in [Talk!People -> {"in", "left", "killed"}]
            BY <3>0
        <3> QED BY <3>0, <3>1, <3>2, <3>3
    <2>3. UNCHANGED <<Talk!server, talkConn, talkDown, screen, recv_buf, cuts>>
        BY <1>10 DEF Talk!TypeName, Talk!Type, Talk!TypeInVain
    <2> QED BY <2>1, <2>2, <2>3 DEF Talk!server
<1>11. ASSUME NEW c \in Talk!People, NEW u, Talk!Close(c, u)
       PROVE  /\ talkDown' \in [Talk!People -> Seq(Talk!Pieces)]
              /\ talkConn' \in [Talk!People -> {"open", "closed", "hit", "reset"}]
    BY <1>2, <1>11 DEF Talk!Close
<1>12. ASSUME NEW c \in Talk!People, Talk!Show(c) PROVE Talk!TypeOK'
    <2>1. PICK k \in 1 .. Len(talkDown[c]) :
             LET s == Talk!Taken(talkDown[c], k)
                 unread == Talk!Rest(talkDown[c], k)
                 buf == Talk!Over(s, recv_buf[c])
             IN /\ Talk!Reads(talkDown[c], k)
                /\ screen' = [screen EXCEPT ![c] = @ \o s]
                /\ recv_buf' = [recv_buf EXCEPT ![c] = buf]
                /\ IF Talk!QuitIn(buf)
                   THEN talkCl' = [talkCl EXCEPT ![c] = "left"] /\ Talk!Close(c, unread)
                   ELSE talkDown' = [talkDown EXCEPT ![c] = unread] /\ UNCHANGED <<talkCl, talkConn>>
        BY <1>12 DEF Talk!Show
    <2> DEFINE s == Talk!Taken(talkDown[c], k)
               unread == Talk!Rest(talkDown[c], k)
               buf == Talk!Over(s, recv_buf[c])
    <2>2. k \in 0 .. Len(talkDown[c])
        BY Empty
    <2>3. s \in Seq(Talk!Pieces) /\ unread \in Seq(Talk!Pieces)
        BY <2>2, Cut DEF Talk!Taken, Talk!Rest
    <2>4. Talk!Rest(recv_buf[c], Len(s)) \in Seq(Talk!Pieces)
        <3>1. Len(s) \in Nat /\ Len(recv_buf[c]) \in Nat /\ \A m \in 1 .. Len(recv_buf[c]) : recv_buf[c][m] \in Talk!Pieces
            BY <2>3, Empty
        <3>2. Len(s) + 1 \in Int /\ Len(recv_buf[c]) \in Int /\ \A m \in Len(s) + 1 .. Len(recv_buf[c]) : recv_buf[c][m] \in Talk!Pieces
            BY <3>1
        <3> QED BY <3>2, SubSeqProperties DEF Talk!Rest
    <2>5. buf \in Seq(Talk!Pieces) /\ screen[c] \o s \in Seq(Talk!Pieces)
        BY <2>3, <2>4, Cat DEF Talk!Over
    <2> HIDE DEF s, unread, buf
    <2>6. /\ Talk!Reads(talkDown[c], k)
          /\ screen' = [screen EXCEPT ![c] = @ \o s]
          /\ recv_buf' = [recv_buf EXCEPT ![c] = buf]
          /\ IF Talk!QuitIn(buf)
             THEN talkCl' = [talkCl EXCEPT ![c] = "left"] /\ Talk!Close(c, unread)
             ELSE talkDown' = [talkDown EXCEPT ![c] = unread] /\ UNCHANGED <<talkCl, talkConn>>
        BY <2>1 DEF s, unread, buf
    <2>7. cuts' \in 0 .. MaxCuts
        BY <1>0, <2>6 DEF Talk!Reads
    <2>8. screen' \in [Talk!People -> Seq(Talk!Pieces)] /\ recv_buf' \in [Talk!People -> Seq(Talk!Pieces)]
        BY <2>5, <2>6
    <2>9. /\ talkDown' \in [Talk!People -> Seq(Talk!Pieces)]
          /\ talkConn' \in [Talk!People -> {"open", "closed", "hit", "reset"}]
          /\ talkCl' \in [Talk!People -> {"in", "left", "killed"}]
        BY <2>3, <2>6, <1>11
    <2> QED BY <1>12, <2>7, <2>8, <2>9 DEF Talk!Show, Talk!server
<1>13. ASSUME NEW c \in Talk!People, Talk!Interrupt(c) \/ Talk!Reset(c) \/ Talk!Purge(c)
       PROVE  Talk!TypeOK'
    <2>1. CASE Talk!Interrupt(c)
        BY <1>11, <2>1 DEF Talk!Interrupt, Talk!server
    <2>2. CASE Talk!Reset(c)
        BY <2>2 DEF Talk!Reset, Talk!server, Talk!client
    <2>3. CASE Talk!Purge(c)
        <3>1. Talk!Front(talkDown[c]) \in Seq(Talk!Pieces)
            <4>1. Len(talkDown[c]) - 1 \in 0 .. Len(talkDown[c])
                BY <2>3, Empty DEF Talk!Purge
            <4> QED BY <4>1, Cut DEF Talk!Front
        <3> QED BY <2>3, <3>1 DEF Talk!Purge, Talk!server, Talk!client
    <2> QED BY <1>13, <2>1, <2>2, <2>3
<1>14. CASE UNCHANGED Talk!vars
    BY <1>14 DEF Talk!vars
<1> QED BY <1>6, <1>7, <1>8, <1>9, <1>10, <1>12, <1>13, <1>14 DEF Talk!Next, Talk!Server

\* The pieces a client may type are pieces.
LEMMA TalkGivenTyped ==
    ASSUME Talk!TypeOK
    PROVE  \A c \in Talk!People : TalkGiven(c) \in Int
<1>1. Len(talkLog) \in Nat /\ Len(talkSrv.buf) \in Nat
    BY Empty DEF Talk!TypeOK
<1>2. talkSrv.pc \in {"enter", "ready", "select", "read", "name", "text", "bye", "down"}
    BY DEF Talk!TypeOK
<1> DEFINE n == Len(talkLog)
           b == Len(talkSrv.buf)
           j == talkSrv.j
<1>3. n \in Nat /\ b \in Nat
    BY <1>1
<1> HIDE DEF n, b, j
<1>4. ASSUME NEW c PROVE TalkDue(talkSrv.pc, j, n, b, c) \in Int
    BY <1>2, <1>3, TalkDues
<1> QED BY <1>4 DEF TalkGiven, n, b, j

\* What the server says is what is due next.
LEMMA TalkSays ==
    ASSUME Talk!TypeOK
    PROVE  /\ TalkSaid(1) = Talk!Ready
           /\ \A m \in 1 .. Len(talkLog) : TalkSaid(m + 1) = talkLog[m]
           /\ TalkSaid(Len(talkLog) + 2) = Talk!Bye
<1>1. Len(talkLog) \in Nat
    BY Empty DEF Talk!TypeOK
<1>2. ASSUME NEW m \in 1 .. Len(talkLog) PROVE TalkSaid(m + 1) = talkLog[m]
    <2>1. m + 1 # 1 /\ m + 1 <= Len(talkLog) + 1 /\ m + 1 - 1 = m
        BY <1>1
    <2> QED BY <2>1 DEF TalkSaid
<1>3. TalkSaid(Len(talkLog) + 2) = Talk!Bye
    BY <1>1 DEF TalkSaid
<1> QED BY <1>2, <1>3 DEF TalkSaid

\* A write to one brings his stream forward by what is written.
LEMMA TalkWrites ==
    ASSUME Talk!TypeOK, TalkStreams, TalkGone, TalkBuffers, talkSrv.pc # "down",
           NEW j \in Talk!People, NEW s \in Seq(Talk!Pieces), Talk!Write(j, s),
           \A c \in Talk!People : TalkGiven(c) \in Int,
           \A k \in 1 .. Len(s) : s[k] = TalkSaid(TalkGiven(j) + k),
           UNCHANGED <<todo, talkLog, talkUp, talkCl, screen, recv_buf>>,
           \A c \in Talk!People : TalkGiven(c)' = IF c = j THEN TalkGiven(c) + Len(s) ELSE TalkGiven(c)
    PROVE  TalkStreams' /\ TalkGone' /\ TalkBuffers'
<1> USE DEF Talk!TypeOK
<1>0. /\ talkLog' = talkLog /\ screen' = screen /\ recv_buf' = recv_buf /\ todo' = todo
      /\ talkUp' = talkUp /\ talkCl' = talkCl
    OBVIOUS
<1>1. /\ talkDown' = IF talkConn[j] = "open" THEN [talkDown EXCEPT ![j] = @ \o s] ELSE talkDown
      /\ talkConn' = IF talkConn[j] = "closed" /\ s # <<>> THEN [talkConn EXCEPT ![j] = "hit"] ELSE talkConn
    BY DEF Talk!Write
<1>2. \A c \in Talk!People : talkConn'[c] = "open" <=> talkConn[c] = "open"
    BY <1>1
<1>3. TalkGone'
    BY <1>0, <1>2 DEF TalkGone
<1>4. \A k : TalkSaid(k)' = TalkSaid(k)
    BY <1>0 DEF TalkSaid, Talk!Ready, Talk!Bye
<1>5. TalkBuffers'
    <2>1. \A x : TalkHeard(x)' <=> TalkHeard(x)
        BY <1>0 DEF TalkHeard, Talk!Ready, Talk!Bye
    <2> QED BY <1>0, <2>1 DEF TalkBuffers
<1>6. ASSUME NEW c \in Talk!People PROVE TalkStream(c)'
    <2>1. TalkStream(c) /\ Len(screen[c]) \in Nat /\ Len(talkDown[c]) \in Nat /\ Len(s) \in Nat
        BY Empty DEF TalkStreams
    <2>2. CASE c = j /\ talkConn[j] = "open"
        <3>1. talkDown'[c] = talkDown[c] \o s
            BY <1>1, <2>2
        <3>2. /\ Len(talkDown'[c]) = Len(talkDown[c]) + Len(s)
              /\ \A k \in 1 .. Len(talkDown[c]) : talkDown'[c][k] = talkDown[c][k]
              /\ \A k \in 1 .. Len(s) : talkDown'[c][Len(talkDown[c]) + k] = s[k]
            BY <3>1, Cat
        <3>3. Len(screen[c]) + Len(talkDown[c]) = TalkGiven(c)
            BY <2>1, <2>2 DEF TalkStream
        <3>4. ASSUME NEW k \in 1 .. Len(talkDown'[c])
              PROVE  talkDown'[c][k] = TalkSaid(Len(screen[c]) + k)
            <4>1. CASE k <= Len(talkDown[c])
                <5>1. k \in 1 .. Len(talkDown[c])
                    BY <2>1, <3>2, <4>1
                <5> QED BY <2>1, <3>2, <5>1 DEF TalkStream
            <4>2. CASE k > Len(talkDown[c])
                <5>1. PICK m \in 1 .. Len(s) : k = Len(talkDown[c]) + m
                    <6>1. k - Len(talkDown[c]) \in 1 .. Len(s) /\ k = Len(talkDown[c]) + (k - Len(talkDown[c]))
                        BY <2>1, <3>2, <4>2
                    <6> QED BY <6>1
                <5>2. talkDown'[c][k] = s[m] /\ s[m] = TalkSaid(TalkGiven(c) + m)
                    BY <2>2, <3>2, <5>1
                <5>3. TalkGiven(c) + m = Len(screen[c]) + k
                    BY <2>1, <3>3, <5>1
                <5> QED BY <5>2, <5>3
            <4> QED BY <2>1, <3>2, <4>1, <4>2
        <3>5. TalkGiven(c)' = TalkGiven(c) + Len(s)
            BY <2>2
        <3>6. screen'[c] = screen[c] /\ talkSrv'.pc # "down" => talkSrv.pc # "down"
            BY <1>0
        <3>7. Len(screen[c]) + Len(talkDown'[c]) = TalkGiven(c)'
            BY <2>1, <3>2, <3>3, <3>5
        <3>8. Len(screen[c]) + Len(talkDown'[c]) <= TalkGiven(c)'
            BY <2>1, <3>2, <3>7
        <3>9. \A k \in 1 .. Len(screen[c]) : screen[c][k] = TalkSaid(k)
            BY <2>1 DEF TalkStream
        <3> QED BY <1>4, <3>4, <3>6, <3>7, <3>8, <3>9 DEF TalkStream
    <2>3. CASE ~(c = j /\ talkConn[j] = "open")
        <3>1. talkDown'[c] = talkDown[c] /\ screen'[c] = screen[c]
            BY <1>1, <2>3
        <3>2. TalkGiven(c) \in Int /\ TalkGiven(c)' = (IF c = j THEN TalkGiven(c) + Len(s) ELSE TalkGiven(c))
            OBVIOUS
        <3>0. Len(screen[c]) + Len(talkDown[c]) <= TalkGiven(c)
            BY <2>1 DEF TalkStream
        <3>3. Len(screen[c]) + Len(talkDown[c]) <= TalkGiven(c)'
            <4> DEFINE a == Len(screen[c])
                       b == Len(talkDown[c])
                       l == Len(s)
                       g == TalkGiven(c)
                       h == TalkGiven(c)'
            <4>1. a \in Nat /\ b \in Nat /\ l \in Nat /\ g \in Int /\ a + b <= g /\ h \in Int /\ (h = g \/ h = g + l)
                BY <2>1, <3>0, <3>2
            <4> HIDE DEF a, b, l, g, h
            <4>2. a + b <= h
                BY <4>1, NoLess
            <4> QED BY <4>2 DEF a, b, h, g
        <3>4. talkConn'[c] = "open" => Len(screen[c]) + Len(talkDown[c]) = TalkGiven(c)'
            <4>1. ASSUME talkConn'[c] = "open" PROVE Len(screen[c]) + Len(talkDown[c]) = TalkGiven(c)'
                <5>1. c # j /\ talkConn[c] = "open"
                    BY <1>2, <2>3, <4>1
                <5> QED BY <2>1, <3>2, <5>1 DEF TalkStream
            <4> QED BY <4>1
        <3> QED BY <1>4, <2>1, <3>1, <3>3, <3>4 DEF TalkStream
    <2> QED BY <2>2, <2>3
<1> QED BY <1>3, <1>5, <1>6 DEF TalkStreams

\* The server writes.
LEMMA TalkWriteStep ==
    ASSUME Talk!TalkAssumption, TalkInv, Talk!TypeOK',
           Talk!SessionInit \/ Talk!SendName \/ Talk!SendText \/ Talk!SayBye
    PROVE  TalkInv'
<1> USE DEF TalkInv
<1>1. /\ N \in Nat \ {0} /\ talkSrv.j \in Talk!People
      /\ \A c \in Talk!People : c \in Nat /\ c >= 1 /\ c <= N
      /\ Len(talkLog) \in Nat /\ Len(talkSrv.buf) \in Nat
    BY Empty DEF Talk!TypeOK, Talk!TalkAssumption, Talk!People
<1>2. /\ Talk!Write(talkSrv.j, Talk!Speech) /\ UNCHANGED <<todo, talkLog, talkUp, Talk!client, cuts>>
      /\ talkSrv.pc # "down"
    BY DEF Talk!SessionInit, Talk!SendName, Talk!SendText, Talk!SayBye
<1> DEFINE j == talkSrv.j
           s == Talk!Speech
<1>3. s \in Seq(Talk!Pieces) /\ \A k \in 1 .. Len(s) : s[k] = TalkSaid(TalkGiven(j) + k)
    <2>1. CASE Talk!SessionInit
        <3>1. s = <<Talk!Ready>> /\ TalkGiven(j) = 0
            BY <1>1, <2>1, TalkDues DEF Talk!SessionInit, Talk!Speech, TalkGiven
        <3>2. Talk!Ready \in Talk!Pieces
            BY DEF Talk!Pieces
        <3> QED BY <3>1, <3>2 DEF TalkSaid
    <2>2. CASE Talk!SendName
        <3>1. s = <<Talk!Name(talkSrv.i)>> /\ TalkGiven(j) = Len(talkLog) - Len(talkSrv.buf)
            BY <1>1, <2>2, TalkDues DEF Talk!SendName, Talk!Speech, TalkGiven
        <3>2. Talk!Name(talkSrv.i) \in Talk!Pieces
            BY DEF Talk!Pieces, Talk!Words, Talk!Name, Talk!TypeOK
        <3>3. /\ Len(talkSrv.buf) + 1 <= Len(talkLog)
              /\ talkLog[Len(talkLog) - Len(talkSrv.buf)] = Talk!Name(talkSrv.i)
            BY <2>2 DEF TalkTurn, Talk!SendName
        <3>4. TalkSaid(TalkGiven(j) + 1) = Talk!Name(talkSrv.i)
            <4> DEFINE m == Len(talkLog) - Len(talkSrv.buf)
            <4>1. m \in 1 .. Len(talkLog) /\ TalkGiven(j) = m /\ talkLog[m] = Talk!Name(talkSrv.i)
                BY <1>1, <3>1, <3>3
            <4>2. TalkSaid(m + 1) = talkLog[m]
                BY <4>1, TalkSays
            <4> HIDE DEF m, j
            <4> QED BY <4>1, <4>2
        <3>5. s \in Seq(Talk!Pieces) /\ \A k \in 1 .. Len(s) : k = 1 /\ s[k] = Talk!Name(talkSrv.i)
            BY <3>1, <3>2, OfOne
        <3> HIDE DEF s, j
        <3> QED BY <3>4, <3>5
    <2>3. CASE Talk!SendText
        <3>0. s = talkSrv.buf /\ talkSrv.pc = "text"
            BY <2>3 DEF Talk!SendText, Talk!Speech
        <3>1. s = talkSrv.buf /\ TalkGiven(j) = Len(talkLog) - Len(talkSrv.buf) + 1
            <4>1. ~(j < j)
                BY <1>1
            <4>2. TalkDue("text", j, Len(talkLog), Len(talkSrv.buf), j) = Len(talkLog) - Len(talkSrv.buf) + 1
                <5> DEFINE n == Len(talkLog)
                           b == Len(talkSrv.buf)
                <5> HIDE DEF j, s, n, b
                <5>1. TalkDue("text", j, n, b, j) = IF j < j THEN n + 1 ELSE IF j = j THEN n - b + 1 ELSE n - b
                    BY TalkDues
                <5>2. TalkDue("text", j, n, b, j) = n - b + 1
                    BY <4>1, <5>1
                <5> QED BY <5>2 DEF n, b
            <4> QED BY <3>0, <4>2 DEF TalkGiven
        <3>2. s \in Seq(Talk!Pieces)
            <4>1. Talk!Words \subseteq Talk!Pieces
                BY DEF Talk!Pieces
            <4> QED BY <3>1, <4>1 DEF Talk!TypeOK
        <3>3. /\ Len(talkSrv.buf) + 1 <= Len(talkLog)
              /\ \A k \in 1 .. Len(talkSrv.buf) :
                    talkLog[Len(talkLog) - Len(talkSrv.buf) + k] = talkSrv.buf[k]
            BY <2>3 DEF TalkTurn, Talk!SendText
        <3>4. ASSUME NEW k \in 1 .. Len(talkSrv.buf) PROVE TalkSaid(TalkGiven(j) + k) = talkSrv.buf[k]
            <4> DEFINE m == Len(talkLog) - Len(talkSrv.buf) + k
            <4>1. m \in 1 .. Len(talkLog) /\ TalkGiven(j) + k = m + 1
                BY <1>1, <3>1, <3>3
            <4>2. talkLog[m] = talkSrv.buf[k]
                BY <3>3
            <4> HIDE DEF m
            <4> QED BY <4>1, <4>2, TalkSays
        <3> QED BY <3>1, <3>2, <3>4
    <2>4. CASE Talk!SayBye
        <3>1. s = <<Talk!Bye>> /\ TalkGiven(j) = Len(talkLog) + 1
            BY <1>1, <2>4, TalkDues DEF Talk!SayBye, Talk!Speech, TalkGiven
        <3>2. Talk!Bye \in Talk!Pieces
            BY DEF Talk!Pieces
        <3>3. TalkSaid(TalkGiven(j) + 1) = Talk!Bye
            BY <1>1, <3>1, TalkSays
        <3> QED BY <3>1, <3>2, <3>3, Single
    <2> QED BY <2>1, <2>2, <2>3, <2>4
<1>4. ASSUME NEW c \in Talk!People
      PROVE  TalkGiven(c)' = IF c = j THEN TalkGiven(c) + Len(s) ELSE TalkGiven(c)
    <2> DEFINE n == Len(talkLog)
               b == Len(talkSrv.buf)
    <2>0. c \in Nat /\ c <= N /\ j \in Nat /\ j <= N /\ n \in Nat /\ b \in Nat /\ Len(talkLog') = n
        BY <1>1, <1>2
    <2>1. CASE Talk!SessionInit
        <3>1. /\ Len(s) = 1 /\ n = 0 /\ talkSrv.pc = "ready"
              /\ IF j < N THEN talkSrv'.pc = "ready" /\ talkSrv'.j = j + 1 ELSE talkSrv'.pc = "select"
            BY <2>1 DEF Talk!SessionInit, Talk!Speech, TalkTurn, Talk!At
        <3>2. TalkGiven(c) = IF c < j THEN 1 ELSE 0
            BY <3>1, TalkDues DEF TalkGiven
        <3>3. TalkGiven(c)' = IF j < N THEN IF c < j + 1 THEN 1 ELSE 0 ELSE 1
            BY <2>0, <3>1, TalkDues DEF TalkGiven
        <3>4. c < j + 1 <=> c < j \/ c = j
            BY <2>0
        <3>5. ~(j < N) => c < j \/ c = j
            BY <2>0, <1>1
        <3>6. c = j => ~(c < j)
            BY <2>0
        <3> HIDE DEF j, s, n, b
        <3> QED BY <3>1, <3>2, <3>3, <3>4, <3>5, <3>6
    <2>2. CASE Talk!SendName
        <3>1. /\ Len(s) = 1 /\ talkSrv.pc = "name" /\ talkSrv'.pc = "text" /\ talkSrv'.j = j
              /\ talkSrv'.buf = talkSrv.buf
            BY <2>2 DEF Talk!SendName, Talk!Speech, Talk!At
        <3>2. TalkGiven(c) = IF c < j THEN n + 1 ELSE n - b
            BY <3>1, TalkDues DEF TalkGiven
        <3>3. TalkGiven(c)' = IF c < j THEN n + 1 ELSE IF c = j THEN n - b + 1 ELSE n - b
            <4>1. Len(talkLog') = n /\ Len(talkSrv'.buf) = b /\ talkSrv'.j = j
                BY <2>0, <3>1
            <4> HIDE DEF n, b, j
            <4> QED BY <3>1, <4>1, TalkDues DEF TalkGiven
        <3>6. c = j => ~(c < j)
            BY <2>0
        <3> HIDE DEF j, s, n, b
        <3> QED BY <3>1, <3>2, <3>3, <3>6
    <2>3. CASE Talk!SendText
        <3>1. /\ s = talkSrv.buf /\ talkSrv.pc = "text"
              /\ IF j < N THEN talkSrv'.pc = "name" /\ talkSrv'.j = j + 1 /\ talkSrv'.buf = talkSrv.buf
                 ELSE talkSrv'.pc \in {"read", "select"}
            BY <2>3 DEF Talk!SendText, Talk!Speech, Talk!At
        <3>2. TalkGiven(c) = IF c < j THEN n + 1 ELSE IF c = j THEN n - b + 1 ELSE n - b
            <4> SUFFICES TalkDue("text", j, n, b, c) = IF c < j THEN n + 1 ELSE IF c = j THEN n - b + 1 ELSE n - b
                BY <3>1 DEF TalkGiven
            <4> HIDE DEF j, s, n, b
            <4> QED BY TalkDues
        <3>3. TalkGiven(c)' = IF j < N THEN IF c < j + 1 THEN n + 1 ELSE n - b ELSE n + 1
            <4>1. CASE j < N
                BY <2>0, <3>1, <4>1, TalkDues DEF TalkGiven
            <4>2. CASE ~(j < N)
                BY <2>0, <3>1, <4>2, TalkDues DEF TalkGiven
            <4> QED BY <4>1, <4>2
        <3>4. c < j + 1 <=> c < j \/ c = j
            BY <2>0
        <3>5. ~(j < N) => c < j \/ c = j
            BY <2>0, <1>1
        <3>6. c = j => ~(c < j)
            BY <2>0
        <3>7. Len(s) = b
            BY <3>1
        <3> HIDE DEF j, s, n, b
        <3>8. n - b + 1 + b = n + 1
            BY <2>0
        <3> QED BY <3>2, <3>3, <3>4, <3>5, <3>6, <3>7, <3>8
    <2>4. CASE Talk!SayBye
        <3>1. /\ Len(s) = 1 /\ talkSrv.pc = "bye"
              /\ IF j < N THEN talkSrv'.pc = "bye" /\ talkSrv'.j = j + 1 ELSE talkSrv'.pc = "down"
            BY <2>4 DEF Talk!SayBye, Talk!Speech, Talk!At
        <3>2. TalkGiven(c) = IF c < j THEN n + 2 ELSE n + 1
            BY <3>1, TalkDues DEF TalkGiven
        <3>3. TalkGiven(c)' = IF j < N THEN IF c < j + 1 THEN n + 2 ELSE n + 1 ELSE n + 2
            <4>1. CASE j < N
                BY <2>0, <3>1, <4>1, TalkDues DEF TalkGiven
            <4>2. CASE ~(j < N)
                BY <2>0, <3>1, <4>2, TalkDues DEF TalkGiven
            <4> QED BY <4>1, <4>2
        <3>4. c < j + 1 <=> c < j \/ c = j
            BY <2>0
        <3>5. ~(j < N) => c < j \/ c = j
            BY <2>0, <1>1
        <3>6. c = j => ~(c < j)
            BY <2>0
        <3> HIDE DEF n, j, s, b
        <3>7. n + 1 + 1 = n + 2
            BY <2>0
        <3> QED BY <3>1, <3>2, <3>3, <3>4, <3>5, <3>6, <3>7
    <2> QED BY <2>1, <2>2, <2>3, <2>4
<1>5. TalkStreams' /\ TalkGone' /\ TalkBuffers'
    <2>1. UNCHANGED <<todo, talkLog, talkUp, talkCl, screen, recv_buf>>
        BY <1>2 DEF Talk!client
    <2>2. j \in Talk!People /\ \A c \in Talk!People : TalkGiven(c) \in Int
        BY <1>1, TalkGivenTyped
    <2> HIDE DEF s, j
    <2>3. Talk!Write(j, s)
        BY <1>2 DEF s, j
    <2> QED BY <1>2, <1>3, <1>4, <2>1, <2>2, <2>3, TalkWrites
<1>6. TalkTurn'
    <2>1. CASE Talk!SessionInit
        BY <2>1 DEF Talk!SessionInit, TalkTurn, Talk!At
    <2>2. CASE Talk!SendName
        BY <2>2 DEF Talk!SendName, TalkTurn, Talk!At
    <2>3. CASE Talk!SendText
        <3>1. /\ talkLog' = talkLog /\ talkSrv.pc = "text"
              /\ \/ talkSrv'.pc = "name" /\ talkSrv'.i = talkSrv.i /\ talkSrv'.buf = talkSrv.buf
                 \/ talkSrv'.pc \in {"read", "select"}
            BY <2>3 DEF Talk!SendText, Talk!At
        <3> QED BY <3>1 DEF TalkTurn, Talk!Name
    <2>4. CASE Talk!SayBye
        <3>1. talkSrv'.pc \in {"bye", "down"}
            BY <2>4 DEF Talk!SayBye, Talk!At
        <3> QED BY <3>1 DEF TalkTurn
    <2> QED BY <2>1, <2>2, <2>3, <2>4
<1>7. TalkNames'
    <2>1. \A c \in Talk!People : ~TalkAsked(c) /\ ~TalkAsked(c)'
        BY DEF Talk!SessionInit, Talk!SendName, Talk!SendText, Talk!SayBye, Talk!At, TalkAsked
    <2> QED BY <1>2, <2>1 DEF TalkNames, Talk!IsName
<1>8. Talk!NobodyMuted' /\ Talk!LeftForQuit'
    BY <1>2 DEF Talk!client, Talk!NobodyMuted, Talk!LeftForQuit, Talk!Speechless, Talk!IsName
<1> QED BY <1>5, <1>6, <1>7, <1>8

\* Nothing is written and nothing shown.
LEMMA TalkCalm ==
    ASSUME Talk!TypeOK, TalkStreams, TalkBuffers,
           UNCHANGED <<talkLog, talkDown, screen, recv_buf>>,
           \A c \in Talk!People :
               /\ TalkGiven(c) \in Int /\ TalkGiven(c)' \in Int /\ TalkGiven(c) <= TalkGiven(c)'
               /\ talkConn'[c] = "open" /\ talkSrv'.pc # "down" =>
                     talkConn[c] = "open" /\ talkSrv.pc # "down" /\ TalkGiven(c)' = TalkGiven(c)
    PROVE  TalkStreams' /\ TalkBuffers'
<1>0. /\ talkLog' = talkLog /\ screen' = screen /\ recv_buf' = recv_buf /\ talkDown' = talkDown
    OBVIOUS
<1>1. \A k : TalkSaid(k)' = TalkSaid(k)
    BY <1>0 DEF TalkSaid, Talk!Ready, Talk!Bye
<1>2. TalkBuffers'
    <2>1. \A x : TalkHeard(x)' <=> TalkHeard(x)
        BY <1>0 DEF TalkHeard, Talk!Ready, Talk!Bye
    <2> QED BY <1>0, <2>1 DEF TalkBuffers
<1>3. ASSUME NEW c \in Talk!People PROVE TalkStream(c)'
    <2>1. TalkStream(c) /\ Len(screen[c]) \in Nat /\ Len(talkDown[c]) \in Nat
        BY Empty DEF TalkStreams, Talk!TypeOK
    <2>2. Len(screen[c]) + Len(talkDown[c]) <= TalkGiven(c)
        BY <2>1 DEF TalkStream
    <2>3. Len(screen[c]) + Len(talkDown[c]) <= TalkGiven(c)'
        <3>1. TalkGiven(c) \in Int /\ TalkGiven(c)' \in Int /\ TalkGiven(c) <= TalkGiven(c)'
            OBVIOUS
        <3> QED BY <2>1, <2>2, <3>1, NoLater
    <2> QED BY <1>0, <1>1, <2>1, <2>3 DEF TalkStream
<1> QED BY <1>2, <1>3 DEF TalkStreams

\* Who had left stays away.
LEMMA TalkStays ==
    ASSUME Talk!TypeOK, Talk!NobodyMuted, Talk!LeftForQuit, talkLog' = talkLog,
           \A c \in Talk!People : talkCl'[c] = "in" => talkCl[c] = "in",
           \A c \in Talk!People \ Impatient : talkCl'[c] = "left" => talkCl[c] = "left"
    PROVE  Talk!NobodyMuted' /\ Talk!LeftForQuit'
<1>1. \A k \in DOMAIN talkLog : talkLog[k][2] \in Talk!People
    <2>1. \A k \in 1 .. Len(talkLog) : talkLog[k] \in Talk!Words
        BY Empty DEF Talk!TypeOK
    <2>2. DOMAIN talkLog = 1 .. Len(talkLog)
        BY LenProperties DEF Talk!TypeOK
    <2> QED BY <2>1, <2>2 DEF Talk!Words
<1>2. Talk!Speechless' = Talk!Speechless
    BY DEF Talk!Speechless, Talk!IsName
<1>3. Talk!Speechless \subseteq DOMAIN talkLog
    BY DEF Talk!Speechless
<1> QED BY <1>1, <1>2, <1>3 DEF Talk!NobodyMuted, Talk!LeftForQuit

\* accept, and the ready for the last of them.
LEMMA TalkEnter ==
    ASSUME Talk!TalkAssumption, TalkInv, Talk!TypeOK', Talk!Enter
    PROVE  TalkInv'
<1> USE DEF TalkInv
<1>1. /\ talkSrv.pc = "enter" /\ talkUp[talkSrv.i] # <<>>
      /\ talkUp' = [talkUp EXCEPT ![talkSrv.i] = Tail(@)]
      /\ todo' = todo /\ talkLog' = talkLog /\ talkConn' = talkConn /\ talkDown' = talkDown
      /\ talkCl' = talkCl /\ screen' = screen /\ recv_buf' = recv_buf
      /\ IF talkSrv.i < N THEN talkSrv'.pc = "enter" /\ talkSrv'.i = talkSrv.i + 1
         ELSE talkSrv'.pc = "ready" /\ talkSrv'.j = 1
    BY DEF Talk!Enter, Talk!client, Talk!At
<1>2. talkSrv.i \in Talk!People /\ N \in Nat /\ \A c \in Talk!People : c \in 1 .. N
    BY DEF Talk!TypeOK, Talk!People, Talk!TalkAssumption
<1>3. ASSUME NEW c \in Talk!People PROVE TalkGiven(c) = 0 /\ TalkGiven(c)' = 0
    <2>1. c \in Nat /\ ~(c < 1)
        BY <1>2
    <2>2. TalkGiven(c) = 0
        BY <1>1, TalkDues DEF TalkGiven
    <2>3. CASE talkSrv'.pc = "enter"
        BY <2>2, <2>3, TalkDues DEF TalkGiven
    <2>4. CASE talkSrv'.pc = "ready" /\ talkSrv'.j = 1
        BY <2>1, <2>2, <2>4, TalkDues DEF TalkGiven
    <2> QED BY <1>1, <2>3, <2>4
<1>4. TalkStreams' /\ TalkBuffers'
    <2>1. talkSrv.pc # "down"
        BY <1>1
    <2> QED BY <1>1, <1>3, <2>1, TalkCalm
<1>5. Talk!NobodyMuted' /\ Talk!LeftForQuit'
    BY <1>1, TalkStays
<1>6. TalkTurn'
    BY <1>1 DEF TalkTurn
<1>7. TalkGone'
    <2>1. todo = {}
        BY <1>1 DEF TalkTurn
    <2> QED BY <1>1, <2>1 DEF TalkGone
<1>8. TalkNames'
    <2>1. talkUp[talkSrv.i] = <<Talk!Name(talkSrv.i)>>
        BY <1>1, <1>2 DEF TalkNames, TalkAsked
    <2>2. Tail(<<Talk!Name(talkSrv.i)>>) = <<>>
        OBVIOUS
    <2>3. talkUp'[talkSrv.i] = <<>>
        BY <1>1, <1>2, <2>1, <2>2 DEF Talk!TypeOK
    <2>4. ASSUME NEW c \in Talk!People
          PROVE  /\ TalkAsked(c)' => talkUp'[c] \in {<<>>, <<Talk!Name(c)>>}
                 /\ ~TalkAsked(c)' => \A k \in 1 .. Len(talkUp'[c]) : ~Talk!IsName(talkUp'[c][k])
        <3>1. CASE c = talkSrv.i
            <4>1. Len(<<>>) = 0 /\ \A k : k \notin 1 .. 0
                OBVIOUS
            <4> QED BY <2>3, <3>1, <4>1
        <3>2. CASE c # talkSrv.i
            <4>1. talkUp'[c] = talkUp[c]
                BY <1>1, <3>2 DEF Talk!TypeOK
            <4>2. TalkAsked(c)' <=> TalkAsked(c)
                BY <1>1, <1>2, <3>2 DEF TalkAsked
            <4> QED BY <4>1, <4>2 DEF TalkNames
        <3> QED BY <3>1, <3>2
    <2>5. \A c : Talk!Name(c)' = Talk!Name(c) /\ \A x : Talk!IsName(x)' <=> Talk!IsName(x)
        BY DEF Talk!Name, Talk!IsName
    <2> QED BY <2>4, <2>5 DEF TalkNames
<1> QED BY <1>4, <1>5, <1>6, <1>7, <1>8

\* The server turns to something else.
LEMMA TalkTurns ==
    ASSUME Talk!TalkAssumption, TalkInv, Talk!TypeOK',
           Talk!Select \/ Talk!Ending \/ Talk!Killed
    PROVE  TalkInv'
<1> USE DEF TalkInv
<1>1. /\ talkLog' = talkLog /\ talkConn' = talkConn /\ talkDown' = talkDown /\ talkUp' = talkUp
      /\ talkCl' = talkCl /\ screen' = screen /\ recv_buf' = recv_buf
    BY DEF Talk!Select, Talk!Ending, Talk!Killed, Talk!client
<1>2. \/ talkSrv.pc = "select" /\ talkSrv'.pc = "read" /\ todo' = Talk!Readable
      \/ talkSrv.pc = "select" /\ talkSrv'.pc = "bye" /\ talkSrv'.j = 1 /\ todo' = todo
      \/ talkSrv.pc \in {"ready", "name", "text", "bye"} /\ talkSrv'.pc = "down" /\ todo' = todo
    BY DEF Talk!Select, Talk!Ending, Talk!Killed, Talk!Writing, Talk!At
<1>3. ASSUME NEW c \in Talk!People
      PROVE  /\ TalkGiven(c) \in Int /\ TalkGiven(c)' \in Int /\ TalkGiven(c) <= TalkGiven(c)'
             /\ talkSrv'.pc # "down" => TalkGiven(c)' = TalkGiven(c)
    <2> DEFINE n == Len(talkLog)
               b == Len(talkSrv.buf)
               j == talkSrv.j
    <2>1. n \in Nat /\ b \in Nat /\ c \in Nat /\ ~(c < 1) /\ Len(talkLog') = n
        BY <1>1, Empty DEF Talk!TypeOK, Talk!People, Talk!TalkAssumption
    <2>2. CASE talkSrv.pc = "select"
        <3>1. TalkGiven(c) = n + 1
            BY <2>2, TalkDues DEF TalkGiven
        <3>2. CASE talkSrv'.pc = "read"
            BY <2>1, <3>1, <3>2, TalkDues DEF TalkGiven
        <3>3. CASE talkSrv'.pc = "bye" /\ talkSrv'.j = 1
            BY <2>1, <3>1, <3>3, TalkDues DEF TalkGiven
        <3> QED BY <1>2, <2>2, <3>2, <3>3
    <2>3. CASE talkSrv'.pc = "down"
        <3>1. TalkGiven(c)' = n + 2
            BY <2>1, <2>3, TalkDues DEF TalkGiven
        <3>2. TalkGiven(c) \in {0, 1, n + 2, n + 1, n - b + 1, n - b}
            <4> HIDE DEF n, b, j
            <4>1. TalkDue("ready", j, n, b, c) \in {0, 1}
                BY TalkDues
            <4>2. TalkDue("name", j, n, b, c) \in {n + 1, n - b}
                BY TalkDues
            <4>3. TalkDue("text", j, n, b, c) \in {n + 1, n - b, n - b + 1}
                BY TalkDues
            <4>4. TalkDue("bye", j, n, b, c) \in {n + 1, n + 2}
                BY TalkDues
            <4>5. TalkGiven(c) = TalkDue(talkSrv.pc, j, n, b, c)
                BY DEF TalkGiven, n, b, j
            <4>6. talkSrv.pc \in {"ready", "name", "text", "bye"}
                BY <1>2, <2>3
            <4> QED BY <4>1, <4>2, <4>3, <4>4, <4>5, <4>6
        <3> HIDE DEF n, b
        <3> QED BY <2>1, <2>3, <3>1, <3>2
    <2> QED BY <1>2, <2>2, <2>3
<1>4. TalkStreams' /\ TalkBuffers'
    <2>1. talkSrv.pc # "down"
        BY <1>2
    <2> QED BY <1>1, <1>3, <2>1, TalkCalm
<1>5. Talk!NobodyMuted' /\ Talk!LeftForQuit'
    BY <1>1, TalkStays
<1>6. TalkTurn'
    BY <1>2 DEF TalkTurn
<1>7. TalkGone'
    <2>1. ASSUME NEW c \in Talk!People, c \in todo' PROVE talkUp[c] # <<>> \/ talkCl[c] = "left"
        BY <1>2, <2>1 DEF TalkGone, Talk!Readable
    <2> QED BY <1>1, <2>1 DEF TalkGone
<1>8. TalkNames'
    <2>1. \A c : ~TalkAsked(c) /\ ~TalkAsked(c)'
        BY <1>2 DEF TalkAsked
    <2> QED BY <1>1, <2>1 DEF TalkNames, Talk!IsName
<1> QED BY <1>4, <1>5, <1>6, <1>7, <1>8

\* Somebody reads what one has sent, or nothing from one who has gone.
LEMMA TalkRead ==
    ASSUME Talk!TalkAssumption, TalkInv, Talk!TypeOK', NEW i \in Talk!People, Talk!Read(i)
    PROVE  TalkInv'
<1> USE DEF TalkInv
<1>1. PICK t \in Seq(Talk!Words) :
         /\ talkSrv'.pc = "name" /\ talkSrv'.i = i /\ talkSrv'.j = 1 /\ talkSrv'.buf = t
         /\ talkLog' = talkLog \o <<Talk!Name(i)>> \o t
         /\ talkSrv.pc = "read" /\ i \in todo /\ todo' = todo \ {i}
         /\ talkConn' = talkConn /\ talkDown' = talkDown /\ talkCl' = talkCl
         /\ screen' = screen /\ recv_buf' = recv_buf
         /\ \A c \in Talk!People : c # i => talkUp'[c] = talkUp[c]
         /\ \A k \in 1 .. Len(t) : \E m \in 1 .. Len(talkUp[i]) : t[k] = talkUp[i][m]
         /\ \A k \in 1 .. Len(talkUp'[i]) : \E m \in 1 .. Len(talkUp[i]) : talkUp'[i][k] = talkUp[i][m]
         /\ t = <<>> => talkUp[i] = <<>>
    <2>1. /\ talkSrv.pc = "read" /\ i \in todo /\ todo' = todo \ {i}
          /\ talkConn' = talkConn /\ talkDown' = talkDown /\ talkCl' = talkCl
          /\ screen' = screen /\ recv_buf' = recv_buf
        BY DEF Talk!Read, Talk!First, Talk!client
    <2>2. CASE talkUp[i] # <<>>
        <3>1. PICK k \in 1 .. Len(talkUp[i]) :
                 /\ talkUp' = [talkUp EXCEPT ![i] = Talk!Rest(@, k)]
                 /\ talkLog' = talkLog \o <<Talk!Name(i)>> \o Talk!Taken(talkUp[i], k)
                 /\ Talk!At("name", i, 1, Talk!Taken(talkUp[i], k))
            BY <2>2 DEF Talk!Read
        <3> DEFINE t == Talk!Taken(talkUp[i], k)
                   r == Talk!Rest(talkUp[i], k)
        <3>2. talkUp[i] \in Seq(Talk!Words) /\ k \in 0 .. Len(talkUp[i]) /\ k \in Nat /\ k >= 1 /\ Len(talkUp[i]) \in Nat
            BY Empty DEF Talk!TypeOK
        <3>3. /\ t \in Seq(Talk!Words) /\ Len(t) = k /\ \A m \in 1 .. k : t[m] = talkUp[i][m]
              /\ Len(r) = Len(talkUp[i]) - k /\ \A m \in 1 .. Len(talkUp[i]) - k : r[m] = talkUp[i][k + m]
            BY <3>2, Cut DEF Talk!Taken, Talk!Rest
        <3>4. talkUp'[i] = r /\ \A c \in Talk!People : c # i => talkUp'[c] = talkUp[c]
            BY <3>1 DEF Talk!TypeOK
        <3>5. talkSrv'.pc = "name" /\ talkSrv'.i = i /\ talkSrv'.j = 1 /\ talkSrv'.buf = t
            BY <3>1 DEF Talk!At
        <3>6. talkLog' = talkLog \o <<Talk!Name(i)>> \o t
            BY <3>1
        <3> HIDE DEF t, r
        <3>7. t # <<>>
            BY <3>2, <3>3, Empty
        <3>8. \A m \in 1 .. Len(t) : m \in 1 .. Len(talkUp[i]) /\ t[m] = talkUp[i][m]
            BY <3>2, <3>3
        <3>9. \A m \in 1 .. Len(talkUp'[i]) : k + m \in 1 .. Len(talkUp[i]) /\ talkUp'[i][m] = talkUp[i][k + m]
            BY <3>2, <3>3, <3>4
        <3> QED BY <2>1, <3>3, <3>4, <3>5, <3>6, <3>7, <3>8, <3>9
    <2>3. CASE talkUp[i] = <<>>
        <3>1. talkLog' = Append(talkLog, Talk!Name(i)) /\ Talk!At("name", i, 1, <<>>) /\ talkUp' = talkUp
            BY <2>3 DEF Talk!Read
        <3>2. <<Talk!Name(i)>> \in Seq(Talk!Words) /\ talkLog \in Seq(Talk!Words)
            BY DEF Talk!Name, Talk!Words, Talk!TypeOK
        <3>3. talkLog \o <<Talk!Name(i)>> = Append(talkLog, Talk!Name(i))
            BY <3>2, AppendIsConcat
        <3>4. talkLog \o <<Talk!Name(i)>> \o <<>> = talkLog \o <<Talk!Name(i)>>
            <4>1. talkLog \o <<Talk!Name(i)>> \in Seq(Talk!Words)
                BY <3>2, Cat
            <4> QED BY <4>1, ConcatEmptySeq
        <3>5. <<>> \in Seq(Talk!Words) /\ Len(<<>>) = 0 /\ \A m : m \notin 1 .. 0
            OBVIOUS
        <3>6. talkSrv'.pc = "name" /\ talkSrv'.i = i /\ talkSrv'.j = 1 /\ talkSrv'.buf = <<>>
            BY <3>1 DEF Talk!At
        <3>7. \A m \in 1 .. Len(talkUp'[i]) : m \in 1 .. Len(talkUp[i]) /\ talkUp'[i][m] = talkUp[i][m]
            BY <3>1
        <3>8. \A m : m \notin 1 .. Len(<<>>)
            BY <3>5
        <3> QED BY <2>1, <2>3, <3>1, <3>3, <3>4, <3>5, <3>6, <3>7, <3>8
    <2> QED BY <2>2, <2>3
<1> DEFINE n == Len(talkLog)
           b == Len(t)
           l == talkLog \o <<Talk!Name(i)>>
<1>2. /\ n \in Nat /\ b \in Nat /\ Len(talkLog') = n + 1 + b /\ talkLog' \in Seq(Talk!Words)
      /\ \A k \in 1 .. n : talkLog'[k] = talkLog[k]
      /\ talkLog'[n + 1] = Talk!Name(i)
      /\ \A k \in 1 .. b : talkLog'[n + 1 + k] = t[k]
    <2>1. talkLog \in Seq(Talk!Words) /\ <<Talk!Name(i)>> \in Seq(Talk!Words)
        BY DEF Talk!Name, Talk!Words, Talk!TypeOK
    <2>2. Len(<<Talk!Name(i)>>) = 1 /\ <<Talk!Name(i)>>[1] = Talk!Name(i) /\ 1 \in 1 .. 1
        OBVIOUS
    <2>3. /\ l \in Seq(Talk!Words) /\ Len(l) = n + 1 /\ n \in Nat
          /\ \A k \in 1 .. n : l[k] = talkLog[k]
          /\ l[n + 1] = Talk!Name(i)
        <3> HIDE DEF l
        <3>1. l = talkLog \o <<Talk!Name(i)>>
            BY DEF l
        <3> QED BY <2>1, <2>2, <3>1, Cat
    <2>4. talkLog' = l \o t
        BY <1>1
    <2> HIDE DEF l
    <2>5. /\ talkLog' \in Seq(Talk!Words) /\ Len(talkLog') = n + 1 + b /\ b \in Nat
          /\ \A k \in 1 .. n + 1 : talkLog'[k] = l[k]
          /\ \A k \in 1 .. b : talkLog'[n + 1 + k] = t[k]
        <3>1. /\ l \o t \in Seq(Talk!Words) /\ Len(l \o t) = Len(l) + Len(t) /\ Len(t) \in Nat
              /\ \A k \in 1 .. Len(l) : (l \o t)[k] = l[k]
              /\ \A k \in 1 .. Len(t) : (l \o t)[Len(l) + k] = t[k]
            <4>1. l \in Seq(Talk!Words) /\ t \in Seq(Talk!Words)
                BY <1>1, <2>3
            <4> QED BY <4>1, Cat
        <3> HIDE DEF n
        <3> QED BY <2>3, <2>4, <3>1
    <2>6. \A k \in 1 .. n : k \in 1 .. n + 1
        BY <2>3
    <2>7. n + 1 \in 1 .. n + 1
        BY <2>3
    <2> QED BY <2>3, <2>5, <2>6, <2>7
<1>3. ASSUME NEW c \in Talk!People PROVE TalkGiven(c) = n + 1 /\ TalkGiven(c)' = n + 1
    <2>1. c \in Nat /\ ~(c < 1)
        BY DEF Talk!People, Talk!TalkAssumption
    <2>2. TalkGiven(c) = n + 1
        BY <1>1, TalkDues DEF TalkGiven
    <2>3. TalkGiven(c)' = TalkDue("name", 1, Len(talkLog'), b, c)
        BY <1>1, <1>2 DEF TalkGiven
    <2>4. TalkDue("name", 1, Len(talkLog'), b, c) = Len(talkLog') - b
        <3> DEFINE m == Len(talkLog')
        <3> HIDE DEF n, b, m
        <3>1. TalkDue("name", 1, m, b, c) = IF c < 1 THEN m + 1 ELSE m - b
            BY TalkDues
        <3>2. TalkDue("name", 1, m, b, c) = m - b
            BY <2>1, <3>1
        <3> QED BY <3>2 DEF m
    <2>5. Len(talkLog') - b = n + 1
        BY <1>2
    <2> QED BY <2>2, <2>3, <2>4, <2>5
<1>4. TalkTurn'
    <2>1. Len(talkSrv'.buf) = b /\ n + 1 + b - b = n + 1 /\ b + 1 <= n + 1 + b
        BY <1>1, <1>2
    <2>2. talkLog'[Len(talkLog') - Len(talkSrv'.buf)] = Talk!Name(i)
        BY <1>2, <2>1
    <2>3. \A k \in 1 .. b : talkLog'[Len(talkLog') - Len(talkSrv'.buf) + k] = t[k]
        BY <1>2, <2>1
    <2>4. Talk!Name(talkSrv.i)' = Talk!Name(i)
        BY <1>1 DEF Talk!Name
    <2> QED BY <1>1, <1>2, <2>1, <2>2, <2>3, <2>4 DEF TalkTurn
<1>5. TalkNames'
    <2>1. \A c : ~TalkAsked(c) /\ ~TalkAsked(c)'
        BY <1>1 DEF TalkAsked
    <2>2. \A c \in Talk!People : \A k \in 1 .. Len(talkUp[c]) : ~Talk!IsName(talkUp[c][k])
        BY <2>1 DEF TalkNames
    <2>3. ASSUME NEW c \in Talk!People, NEW k \in 1 .. Len(talkUp'[c]) PROVE ~Talk!IsName(talkUp'[c][k])
        <3>1. CASE c = i
            <4>1. PICK m \in 1 .. Len(talkUp[i]) : talkUp'[i][k] = talkUp[i][m]
                BY <1>1, <3>1
            <4> QED BY <2>2, <3>1, <4>1
        <3>2. CASE c # i
            BY <1>1, <2>2, <3>2
        <3> QED BY <3>1, <3>2
    <2> QED BY <2>1, <2>3 DEF TalkNames, Talk!IsName
<1>6. TalkGone'
    <2>1. ASSUME NEW c \in Talk!People, c \in todo' PROVE talkUp'[c] # <<>> \/ talkCl[c] = "left"
        BY <1>1, <2>1 DEF TalkGone
    <2>2. \A c \in Talk!People : talkConn'[c] = "open" <=> talkCl[c] # "left"
        BY <1>1 DEF TalkGone
    <2> QED BY <1>1, <2>1, <2>2 DEF TalkGone
<1>7. \A k \in 1 .. n + 1 : TalkSaid(k)' = TalkSaid(k)
    <2>1. ASSUME NEW k \in 1 .. n + 1 PROVE TalkSaid(k)' = TalkSaid(k)
        <3>1. CASE k = 1
            BY <3>1 DEF TalkSaid, Talk!Ready
        <3>2. CASE k # 1
            <4>1. k - 1 \in 1 .. n /\ k <= Len(talkLog') + 1 /\ k <= Len(talkLog) + 1
                BY <1>2, <3>2
            <4> QED BY <1>2, <3>2, <4>1 DEF TalkSaid
        <3> QED BY <3>1, <3>2
    <2> QED BY <2>1
<1>8. TalkStreams'
    <2>1. ASSUME NEW c \in Talk!People PROVE TalkStream(c)'
        <3>1. TalkStream(c) /\ Len(screen[c]) \in Nat /\ Len(talkDown[c]) \in Nat
            BY Empty DEF TalkStreams, Talk!TypeOK
        <3>2. Len(screen[c]) + Len(talkDown[c]) <= n + 1
            BY <1>3, <3>1 DEF TalkStream
        <3>3. /\ \A k \in 1 .. Len(screen[c]) : k \in 1 .. n + 1
              /\ \A k \in 1 .. Len(talkDown[c]) : Len(screen[c]) + k \in 1 .. n + 1
            <4> DEFINE p == Len(screen[c])
                       q == Len(talkDown[c])
            <4>1. n \in Nat /\ p \in Nat /\ q \in Nat /\ p + q <= n + 1
                BY <1>2, <3>1, <3>2
            <4> HIDE DEF n, p, q
            <4>2. \A k \in 1 .. p : k \in 1 .. n + 1
                BY <4>1
            <4>3. \A k \in 1 .. q : p + k \in 1 .. n + 1
                BY <4>1
            <4> QED BY <4>2, <4>3 DEF p, q
        <3>4. /\ \A k \in 1 .. Len(screen[c]) : screen[c][k] = TalkSaid(k)'
              /\ \A k \in 1 .. Len(talkDown[c]) : talkDown[c][k] = TalkSaid(Len(screen[c]) + k)'
            <4> HIDE DEF n
            <4>1. ASSUME NEW k \in 1 .. Len(screen[c]) PROVE screen[c][k] = TalkSaid(k)'
                BY <1>7, <3>1, <3>3 DEF TalkStream
            <4>2. ASSUME NEW k \in 1 .. Len(talkDown[c]) PROVE talkDown[c][k] = TalkSaid(Len(screen[c]) + k)'
                <5>1. PICK m : m = Len(screen[c]) + k
                    OBVIOUS
                <5>2. m \in 1 .. n + 1 /\ talkDown[c][k] = TalkSaid(m)
                    BY <3>1, <3>3, <5>1 DEF TalkStream
                <5>3. TalkSaid(m)' = TalkSaid(m)
                    BY <1>7, <5>2
                <5>4. screen'[c] = screen[c]
                    BY <1>1
                <5> QED BY <5>1, <5>2, <5>3, <5>4
            <4> QED BY <4>1, <4>2
        <3>5. talkConn[c] = "open" => Len(screen[c]) + Len(talkDown[c]) = n + 1
            BY <1>1, <1>3, <3>1 DEF TalkStream
        <3>6. screen'[c] = screen[c] /\ talkDown'[c] = talkDown[c] /\ talkConn'[c] = talkConn[c]
            BY <1>1
        <3> HIDE DEF n
        <3> QED BY <1>3, <3>2, <3>4, <3>5, <3>6 DEF TalkStream
    <2> QED BY <2>1 DEF TalkStreams
<1>9. TalkBuffers'
    <2>1. \A m \in 1 .. Len(talkLog) : m \in 1 .. Len(talkLog') /\ talkLog[m] = talkLog'[m]
        BY <1>2
    <2>2. \A x : TalkHeard(x) => TalkHeard(x)'
        BY <2>1 DEF TalkHeard, Talk!Ready, Talk!Bye
    <2> QED BY <1>1, <2>2 DEF TalkBuffers
<1>10. Talk!LeftForQuit'
    <2>1. DOMAIN talkLog = 1 .. n /\ DOMAIN talkLog' = 1 .. n + 1 + b
        BY <1>2, LenProperties DEF Talk!TypeOK
    <2>2. \A k \in DOMAIN talkLog : k \in DOMAIN talkLog' /\ talkLog'[k] = talkLog[k]
        BY <1>2, <2>1
    <2>3. ASSUME NEW c \in Talk!People \ Impatient, talkCl'[c] = "left"
          PROVE  \E k \in DOMAIN talkLog' : talkLog'[k][1] = "qu"
        <3>1. talkCl[c] = "left"
            BY <1>1, <2>3
        <3>2. PICK k \in DOMAIN talkLog : talkLog[k][1] = "qu"
            BY <3>1 DEF Talk!LeftForQuit
        <3> QED BY <2>2, <3>2
    <2> QED BY <2>3 DEF Talk!LeftForQuit
<1>11. Talk!NobodyMuted'
    <2>1. DOMAIN talkLog = 1 .. n /\ DOMAIN talkLog' = 1 .. n + 1 + b
        BY <1>2, LenProperties DEF Talk!TypeOK
    <2>2. Talk!Speechless' = {k \in DOMAIN talkLog' :
                                Talk!IsName(talkLog'[k]) /\ (k < Len(talkLog') => Talk!IsName(talkLog'[k + 1]))}
        BY DEF Talk!Speechless, Talk!IsName
    <2>3. ASSUME NEW k \in Talk!Speechless' PROVE talkCl'[talkLog'[k][2]] # "in"
        <3>1. k \in 1 .. n + 1 + b /\ Talk!IsName(talkLog'[k]) /\ (k < n + 1 + b => Talk!IsName(talkLog'[k + 1]))
            BY <1>2, <2>1, <2>2, <2>3
        <3>2. CASE k <= n
            <4>1. k \in 1 .. n /\ (k < n => k + 1 \in 1 .. n /\ k < n + 1 + b)
                BY <1>2, <3>1, <3>2
            <4>2. k \in Talk!Speechless
                BY <1>2, <2>1, <3>1, <4>1 DEF Talk!Speechless
            <4> QED BY <1>1, <1>2, <4>1, <4>2 DEF Talk!NobodyMuted
        <3>3. CASE k = n + 1
            <4>1. CASE t = <<>>
                <5>1. talkCl[i] = "left"
                    BY <1>1, <4>1 DEF TalkGone
                <5>2. talkLog'[k][2] = i
                    BY <1>2, <3>3 DEF Talk!Name
                <5> QED BY <1>1, <5>1, <5>2
            <4>2. CASE t # <<>>
                <5>1. b >= 1 /\ 1 \in 1 .. b
                    BY <1>2, <4>2, Empty
                <5>2. Talk!IsName(t[1])
                    BY <1>2, <3>1, <3>3, <5>1
                <5>3. ~Talk!IsName(t[1])
                    <6>1. ~TalkAsked(i)
                        BY <1>1 DEF TalkAsked
                    <6>2. PICK m \in 1 .. Len(talkUp[i]) : t[1] = talkUp[i][m]
                        BY <1>1, <5>1
                    <6> QED BY <6>1, <6>2 DEF TalkNames
                <5> QED BY <5>2, <5>3
            <4> QED BY <4>1, <4>2
        <3>4. CASE k > n + 1
            <4>1. PICK m \in 1 .. b : k = n + 1 + m
                <5> HIDE DEF n, b
                <5>1. k \in Nat /\ n \in Nat /\ b \in Nat
                    BY <1>2, <3>1
                <5>2. k > n + 1 /\ k <= n + 1 + b
                    BY <3>1, <3>4
                <5>3. k - (n + 1) \in 1 .. b /\ k = n + 1 + (k - (n + 1))
                    BY <5>1, <5>2
                <5> QED BY <5>3
            <4>2. talkLog'[k] = t[m]
                BY <1>2, <4>1
            <4>3. PICK q \in 1 .. Len(talkUp[i]) : t[m] = talkUp[i][q]
                BY <1>1, <4>1
            <4>4. ~TalkAsked(i)
                BY <1>1 DEF TalkAsked
            <4>5. ~Talk!IsName(talkUp[i][q])
                BY <4>3, <4>4 DEF TalkNames
            <4> QED BY <3>1, <4>2, <4>3, <4>5
        <3> QED BY <1>2, <3>1, <3>2, <3>3, <3>4
    <2> QED BY <2>3 DEF Talk!NobodyMuted
<1> QED BY <1>4, <1>5, <1>6, <1>8, <1>9, <1>10, <1>11

\* Somebody types, or a reset arrives.
LEMMA TalkTypes ==
    ASSUME Talk!TalkAssumption, TalkInv, Talk!TypeOK', NEW c \in Talk!People,
           Talk!TypeName(c) \/ Talk!Type(c) \/ Talk!TypeInVain(c) \/ Talk!Reset(c)
    PROVE  TalkInv'
<1> USE DEF TalkInv
<1>1. /\ talkSrv' = talkSrv /\ todo' = todo /\ talkLog' = talkLog /\ talkDown' = talkDown
      /\ screen' = screen /\ recv_buf' = recv_buf
    BY DEF Talk!TypeName, Talk!Type, Talk!TypeInVain, Talk!Reset, Talk!server, Talk!client
<1>2. /\ \A d \in Talk!People : talkConn'[d] = "open" <=> talkConn[d] = "open"
      /\ \A d \in Talk!People : talkCl'[d] = "left" <=> talkCl[d] = "left"
      /\ \A d \in Talk!People : talkCl'[d] = "in" => talkCl[d] = "in"
    <2> USE DEF Talk!TypeOK
    <2>1. CASE Talk!TypeName(c)
        BY <2>1 DEF Talk!TypeName
    <2>2. CASE Talk!Type(c)
        BY <2>2 DEF Talk!Type
    <2>3. CASE Talk!TypeInVain(c)
        BY <2>3 DEF Talk!TypeInVain
    <2>4. CASE Talk!Reset(c)
        BY <2>4 DEF Talk!Reset, Talk!client
    <2> QED BY <2>1, <2>2, <2>3, <2>4
<1>3. TalkStreams' /\ TalkBuffers'
    <2>1. \A d \in Talk!People : TalkGiven(d) \in Int
        BY TalkGivenTyped
    <2>2. \A d \in Talk!People : TalkGiven(d)' = TalkGiven(d)
        BY <1>1 DEF TalkGiven, TalkDue
    <2>3. ASSUME NEW d \in Talk!People
          PROVE  TalkGiven(d) \in Int /\ TalkGiven(d)' \in Int /\ TalkGiven(d) <= TalkGiven(d)'
        BY <2>1, <2>2
    <2> QED BY <1>1, <1>2, <2>2, <2>3, TalkCalm
<1>4. Talk!NobodyMuted' /\ Talk!LeftForQuit'
    BY <1>1, <1>2, TalkStays
<1>5. TalkTurn'
    BY <1>1 DEF TalkTurn, Talk!Name
<1>6. \/ talkUp' = talkUp
      \/ Talk!TypeName(c) /\ talkUp' = [talkUp EXCEPT ![c] = <<Talk!Name(c)>>]
      \/ Talk!Type(c) /\ \E s \in Talk!Lines(c) : talkUp' = [talkUp EXCEPT ![c] = @ \o s]
    <2>1. CASE Talk!TypeName(c)
        BY <2>1 DEF Talk!TypeName
    <2>2. CASE Talk!Type(c)
        BY <2>2 DEF Talk!Type
    <2>3. CASE Talk!TypeInVain(c)
        BY <2>3 DEF Talk!TypeInVain
    <2>4. CASE Talk!Reset(c)
        BY <2>4 DEF Talk!Reset, Talk!client
    <2> QED BY <2>1, <2>2, <2>3, <2>4
<1>7. ASSUME NEW s \in Talk!Lines(c)
      PROVE  /\ talkUp[c] \o s # <<>>
             /\ (\A k \in 1 .. Len(talkUp[c]) : ~Talk!IsName(talkUp[c][k]))
                   => \A k \in 1 .. Len(talkUp[c] \o s) : ~Talk!IsName((talkUp[c] \o s)[k])
    <2>1. s \in Seq(Talk!Words) /\ Len(s) > 0 /\ \A k \in 1 .. Len(s) : ~Talk!IsName(s[k])
        <3>1. CASE s = << <<"it", c>> >>
            BY <3>1 DEF Talk!Words, Talk!IsName
        <3>2. CASE s = << <<"qu", c>>, <<"it", c>> >>
            <4>1. s \in Seq(Talk!Words) /\ Len(s) = 2 /\ s[1] = <<"qu", c>> /\ s[2] = <<"it", c>>
                BY <3>2 DEF Talk!Words
            <4>2. \A k \in 1 .. Len(s) : k = 1 \/ k = 2
                BY <4>1
            <4> QED BY <4>1, <4>2 DEF Talk!IsName
        <3> QED BY <3>1, <3>2 DEF Talk!Lines
    <2>2. talkUp[c] \in Seq(Talk!Words)
        BY DEF Talk!TypeOK
    <2> DEFINE u == talkUp[c]
               v == talkUp[c] \o s
    <2>3. /\ v \in Seq(Talk!Words) /\ Len(v) = Len(u) + Len(s) /\ Len(u) \in Nat /\ Len(s) \in Nat
          /\ \A k \in 1 .. Len(u) : v[k] = u[k]
          /\ \A k \in 1 .. Len(s) : v[Len(u) + k] = s[k]
        BY <2>1, <2>2, Cat
    <2> HIDE DEF u, v
    <2>4. v # <<>>
        BY <2>1, <2>3, Empty
    <2>5. ASSUME \A k \in 1 .. Len(u) : ~Talk!IsName(u[k]), NEW k \in 1 .. Len(v)
          PROVE  ~Talk!IsName(v[k])
        <3>1. CASE k <= Len(u)
            <4>1. k \in 1 .. Len(u)
                BY <2>3, <3>1
            <4> QED BY <2>3, <2>5, <4>1
        <3>2. CASE ~(k <= Len(u))
            <4>1. k - Len(u) \in 1 .. Len(s) /\ k = Len(u) + (k - Len(u))
                BY <2>3, <3>2
            <4>2. PICK m \in 1 .. Len(s) : k = Len(u) + m
                BY <4>1
            <4> QED BY <2>1, <2>3, <4>2
        <3> QED BY <3>1, <3>2
    <2> QED BY <2>4, <2>5 DEF u, v
<1>8. \A d \in Talk!People : talkUp[d] # <<>> => talkUp'[d] # <<>>
    <2> USE DEF Talk!TypeOK
    <2>1. CASE Talk!TypeName(c) /\ talkUp' = [talkUp EXCEPT ![c] = <<Talk!Name(c)>>]
        BY <2>1
    <2>2. CASE Talk!Type(c) /\ \E s \in Talk!Lines(c) : talkUp' = [talkUp EXCEPT ![c] = @ \o s]
        BY <1>7, <2>2
    <2> QED BY <1>6, <2>1, <2>2
<1>9. TalkGone'
    BY <1>1, <1>2, <1>8 DEF TalkGone
<1>10. TalkNames'
    <2>1. \A d : TalkAsked(d)' <=> TalkAsked(d)
        BY <1>1 DEF TalkAsked
    <2>2. ASSUME NEW d \in Talk!People
          PROVE  /\ TalkAsked(d) => talkUp'[d] \in {<<>>, <<Talk!Name(d)>>}
                 /\ ~TalkAsked(d) => \A k \in 1 .. Len(talkUp'[d]) : ~Talk!IsName(talkUp'[d][k])
        <3>1. CASE talkUp'[d] = talkUp[d]
            BY <3>1 DEF TalkNames
        <3>2. CASE talkUp'[d] # talkUp[d]
            <4>1. CASE Talk!TypeName(c) /\ talkUp' = [talkUp EXCEPT ![c] = <<Talk!Name(c)>>]
                <5>1. d = c /\ talkUp'[d] = <<Talk!Name(d)>>
                    BY <3>2, <4>1 DEF Talk!TypeOK
                <5>2. TalkAsked(d)
                    BY <4>1, <5>1 DEF Talk!TypeName, Talk!Prompted, TalkAsked, Talk!People, Talk!TalkAssumption
                <5> QED BY <5>1, <5>2
            <4>2. CASE Talk!Type(c) /\ \E s \in Talk!Lines(c) : talkUp' = [talkUp EXCEPT ![c] = @ \o s]
                <5>1. PICK s \in Talk!Lines(c) : talkUp' = [talkUp EXCEPT ![c] = @ \o s]
                    BY <4>2
                <5>2. d = c /\ talkUp'[d] = talkUp[c] \o s
                    BY <3>2, <5>1 DEF Talk!TypeOK
                <5>3. ~TalkAsked(d)
                    <6>1. ~(talkSrv.pc = "enter" /\ talkSrv.i <= c)
                        BY <4>2 DEF Talk!Type, Talk!Named
                    <6> QED BY <5>2, <6>1 DEF TalkAsked, Talk!TypeOK, Talk!People, Talk!TalkAssumption
                <5>4. \A k \in 1 .. Len(talkUp[c]) : ~Talk!IsName(talkUp[c][k])
                    BY <5>2, <5>3 DEF TalkNames
                <5> QED BY <1>7, <5>1, <5>2, <5>3, <5>4
            <4> QED BY <1>6, <3>2, <4>1, <4>2
        <3> QED BY <3>1, <3>2
    <2>3. \A d : Talk!Name(d)' = Talk!Name(d) /\ \A x : Talk!IsName(x)' <=> Talk!IsName(x)
        BY DEF Talk!Name, Talk!IsName
    <2> QED BY <2>1, <2>2, <2>3 DEF TalkNames
<1> QED BY <1>3, <1>4, <1>5, <1>9, <1>10

\* Somebody leaves with ^C, or the last piece under way to him is lost.
LEMMA TalkLoses ==
    ASSUME Talk!TalkAssumption, TalkInv, Talk!TypeOK', NEW c \in Talk!People,
           Talk!Interrupt(c) \/ Talk!Purge(c)
    PROVE  TalkInv'
<1> USE DEF TalkInv
<1>1. /\ talkSrv' = talkSrv /\ todo' = todo /\ talkLog' = talkLog /\ talkUp' = talkUp
      /\ screen' = screen /\ recv_buf' = recv_buf
    BY DEF Talk!Interrupt, Talk!Purge, Talk!server, Talk!client
<1>2. /\ \A d \in Talk!People : talkCl'[d] = "in" => talkCl[d] = "in"
      /\ \A d \in Talk!People : talkCl[d] = "left" => talkCl'[d] = "left"
      /\ \A d \in Talk!People \ Impatient : talkCl'[d] = "left" => talkCl[d] = "left"
      /\ \A d \in Talk!People : talkConn'[d] = "open" <=> talkCl'[d] # "left"
    <2> USE DEF Talk!TypeOK, TalkGone
    <2>1. CASE Talk!Interrupt(c)
        <3>1. /\ c \in Impatient /\ talkCl' = [talkCl EXCEPT ![c] = "left"]
              /\ \E v \in {"hit", "closed"} : talkConn' = [talkConn EXCEPT ![c] = v]
            BY <2>1 DEF Talk!Interrupt, Talk!Close
        <3>2. PICK v \in {"hit", "closed"} : talkConn' = [talkConn EXCEPT ![c] = v]
            BY <3>1
        <3>3. talkCl'[c] = "left" /\ talkConn'[c] # "open"
            BY <3>1, <3>2
        <3>4. \A d \in Talk!People : d # c => talkCl'[d] = talkCl[d] /\ talkConn'[d] = talkConn[d]
            BY <3>1, <3>2
        <3>5. \A d \in Talk!People : talkConn[d] = "open" <=> talkCl[d] # "left"
            OBVIOUS
        <3>6. ASSUME NEW d \in Talk!People
              PROVE  /\ talkCl'[d] = "in" => talkCl[d] = "in"
                     /\ talkCl[d] = "left" => talkCl'[d] = "left"
                     /\ d \notin Impatient => (talkCl'[d] = "left" => talkCl[d] = "left")
                     /\ talkConn'[d] = "open" <=> talkCl'[d] # "left"
            <4>1. CASE d = c
                BY <3>1, <3>3, <4>1
            <4>2. CASE d # c
                BY <3>4, <3>5, <4>2
            <4> QED BY <4>1, <4>2
        <3> QED BY <3>6
    <2>2. CASE Talk!Purge(c)
        BY <2>2 DEF Talk!Purge, Talk!client
    <2> QED BY <2>1, <2>2
<1>3. ASSUME NEW d \in Talk!People
      PROVE  /\ Len(talkDown'[d]) <= Len(talkDown[d]) /\ Len(talkDown'[d]) \in Nat
             /\ \A k \in 1 .. Len(talkDown'[d]) : k \in 1 .. Len(talkDown[d]) /\ talkDown'[d][k] = talkDown[d][k]
             /\ talkConn'[d] = "open" /\ talkSrv.pc # "down" =>
                   talkConn[d] = "open" /\ talkDown'[d] = talkDown[d]
    <2>0. Len(talkDown[d]) \in Nat /\ talkDown[d] \in Seq(Talk!Pieces)
        BY Empty DEF Talk!TypeOK
    <2>1. CASE talkDown'[d] = talkDown[d]
        <3>1. talkConn'[d] = "open" => talkConn[d] = "open"
            BY <1>2 DEF TalkGone
        <3> QED BY <2>0, <2>1, <3>1
    <2>2. CASE Talk!Interrupt(c) /\ d = c
        <3>1. talkDown'[d] = <<>> /\ talkConn'[d] # "open"
            BY <2>2 DEF Talk!Interrupt, Talk!Close, Talk!TypeOK
        <3>2. Len(<<>>) = 0 /\ \A k : k \notin 1 .. 0
            OBVIOUS
        <3> QED BY <2>0, <3>1, <3>2
    <2>3. CASE Talk!Purge(c) /\ d = c
        <3>1. talkDown'[d] = SubSeq(talkDown[d], 1, Len(talkDown[d]) - 1) /\ talkSrv.pc = "down" /\ talkDown[d] # <<>>
            BY <2>3 DEF Talk!Purge, Talk!TypeOK, Talk!Front
        <3>2. Len(talkDown[d]) - 1 \in 0 .. Len(talkDown[d])
            BY <2>0, <3>1, Empty
        <3>3. /\ Len(talkDown'[d]) = Len(talkDown[d]) - 1
              /\ \A k \in 1 .. Len(talkDown[d]) - 1 : talkDown'[d][k] = talkDown[d][k]
            BY <2>0, <3>1, <3>2, Cut
        <3> QED BY <2>0, <3>1, <3>2, <3>3
    <2>4. d # c => talkDown'[d] = talkDown[d]
        BY DEF Talk!Interrupt, Talk!Purge, Talk!Close, Talk!TypeOK
    <2> QED BY <2>1, <2>2, <2>3, <2>4
<1>4. \A k : TalkSaid(k)' = TalkSaid(k)
    BY <1>1 DEF TalkSaid, Talk!Ready, Talk!Bye
<1>5. TalkStreams'
    <2>1. ASSUME NEW d \in Talk!People PROVE TalkStream(d)'
        <3>1. TalkStream(d) /\ Len(screen[d]) \in Nat /\ Len(talkDown[d]) \in Nat
            BY Empty DEF TalkStreams, Talk!TypeOK
        <3>2. TalkGiven(d)' = TalkGiven(d) /\ TalkGiven(d) \in Int
            BY <1>1, TalkGivenTyped DEF TalkGiven, TalkDue
        <3>3. Len(screen[d]) + Len(talkDown'[d]) <= TalkGiven(d)
            <4>1. Len(screen[d]) + Len(talkDown[d]) <= TalkGiven(d)
                BY <3>1 DEF TalkStream
            <4>2. Len(talkDown'[d]) <= Len(talkDown[d]) /\ Len(talkDown'[d]) \in Nat
                BY <1>3
            <4> QED BY <3>1, <3>2, <4>1, <4>2, NoMore
        <3>4. ASSUME NEW k \in 1 .. Len(talkDown'[d]) PROVE talkDown'[d][k] = TalkSaid(Len(screen[d]) + k)
            <4>1. k \in 1 .. Len(talkDown[d]) /\ talkDown'[d][k] = talkDown[d][k]
                BY <1>3
            <4> QED BY <3>1, <4>1 DEF TalkStream
        <3>5. talkConn'[d] = "open" /\ talkSrv'.pc # "down" => Len(screen[d]) + Len(talkDown'[d]) = TalkGiven(d)
            <4>1. ASSUME talkConn'[d] = "open", talkSrv.pc # "down"
                  PROVE  talkConn[d] = "open" /\ talkDown'[d] = talkDown[d]
                BY <1>3, <4>1
            <4> QED BY <1>1, <3>1, <4>1 DEF TalkStream
        <3>6. \A k \in 1 .. Len(screen[d]) : screen[d][k] = TalkSaid(k)
            BY <3>1 DEF TalkStream
        <3> QED BY <1>1, <1>4, <3>2, <3>3, <3>4, <3>5, <3>6 DEF TalkStream
    <2> QED BY <2>1 DEF TalkStreams
<1>6. TalkBuffers'
    <2>1. \A x : TalkHeard(x)' <=> TalkHeard(x)
        BY <1>1 DEF TalkHeard, Talk!Ready, Talk!Bye
    <2> QED BY <1>1, <2>1 DEF TalkBuffers
<1>7. Talk!NobodyMuted' /\ Talk!LeftForQuit'
    BY <1>1, <1>2, TalkStays
<1>8. TalkTurn' /\ TalkNames'
    BY <1>1 DEF TalkTurn, TalkNames, TalkAsked, Talk!Name, Talk!IsName
<1>9. TalkGone'
    <2>1. \A d \in Talk!People : d \in todo => talkUp[d] # <<>> \/ talkCl'[d] = "left"
        BY <1>2 DEF TalkGone
    <2> QED BY <1>1, <1>2, <2>1 DEF TalkGone
<1> QED BY <1>5, <1>6, <1>7, <1>8, <1>9

\* A read is shown.
LEMMA TalkShows ==
    ASSUME Talk!TalkAssumption, TalkInv, Talk!TypeOK', NEW c \in Talk!People, Talk!Show(c)
    PROVE  TalkInv'
<1> USE DEF TalkInv
<1>1. PICK k \in 1 .. Len(talkDown[c]) :
         LET s == Talk!Taken(talkDown[c], k)
             unread == Talk!Rest(talkDown[c], k)
             buf == Talk!Over(s, recv_buf[c])
         IN /\ screen' = [screen EXCEPT ![c] = @ \o s]
            /\ recv_buf' = [recv_buf EXCEPT ![c] = buf]
            /\ IF Talk!QuitIn(buf)
               THEN talkCl' = [talkCl EXCEPT ![c] = "left"] /\ Talk!Close(c, unread)
               ELSE talkDown' = [talkDown EXCEPT ![c] = unread] /\ UNCHANGED <<talkCl, talkConn>>
    BY DEF Talk!Show
<1> DEFINE s == Talk!Taken(talkDown[c], k)
           r == Talk!Rest(talkDown[c], k)
           old == Talk!Rest(recv_buf[c], Len(s))
           buf == s \o old
           a == Len(screen[c])
<1>2. /\ talkSrv' = talkSrv /\ todo' = todo /\ talkLog' = talkLog /\ talkUp' = talkUp
      /\ talkCl[c] = "in"
    BY DEF Talk!Show, Talk!server
<1>3. /\ talkDown[c] \in Seq(Talk!Pieces) /\ screen[c] \in Seq(Talk!Pieces) /\ recv_buf[c] \in Seq(Talk!Pieces)
      /\ Len(talkDown[c]) \in Nat /\ a \in Nat /\ k \in Nat /\ k >= 1 /\ k <= Len(talkDown[c])
    BY Empty DEF Talk!TypeOK
<1>4. /\ s \in Seq(Talk!Pieces) /\ Len(s) = k /\ \A m \in 1 .. k : s[m] = talkDown[c][m]
      /\ r \in Seq(Talk!Pieces) /\ Len(r) = Len(talkDown[c]) - k
      /\ \A m \in 1 .. Len(talkDown[c]) - k : r[m] = talkDown[c][k + m]
    <2>1. k \in 0 .. Len(talkDown[c])
        BY <1>3
    <2> QED BY <1>3, <2>1, Cut DEF Talk!Taken, Talk!Rest
<1>5. old \in Seq(Talk!Pieces) /\ \A m \in 1 .. Len(old) : \E q \in 1 .. Len(recv_buf[c]) : old[m] = recv_buf[c][q]
    <2>1. Len(recv_buf[c]) \in Nat
        BY <1>3, Empty
    <2>2. CASE k \in 0 .. Len(recv_buf[c])
        <3>1. /\ old \in Seq(Talk!Pieces) /\ Len(old) = Len(recv_buf[c]) - k
              /\ \A m \in 1 .. Len(recv_buf[c]) - k : old[m] = recv_buf[c][k + m]
            <4>1. old = SubSeq(recv_buf[c], k + 1, Len(recv_buf[c]))
                BY <1>4 DEF Talk!Rest
            <4> HIDE DEF old
            <4> QED BY <1>3, <2>2, <4>1, Cut
        <3> HIDE DEF old
        <3>2. \A m \in 1 .. Len(old) : k + m \in 1 .. Len(recv_buf[c]) /\ old[m] = recv_buf[c][k + m]
            BY <1>3, <2>1, <3>1
        <3> QED BY <3>1, <3>2
    <2>3. CASE k > Len(recv_buf[c])
        <3>1. old = SubSeq(recv_buf[c], k + 1, Len(recv_buf[c]))
            BY <1>4 DEF Talk!Rest
        <3>2. old = <<>>
            BY <1>3, <2>1, <2>3, <3>1
        <3>3. <<>> \in Seq(Talk!Pieces) /\ Len(<<>>) = 0 /\ \A m : m \notin 1 .. 0
            OBVIOUS
        <3> HIDE DEF old
        <3> QED BY <3>2, <3>3
    <2> QED BY <1>3, <2>1, <2>2, <2>3
<1>6. /\ screen'[c] = screen[c] \o s /\ recv_buf'[c] = buf
      /\ \A d \in Talk!People : d # c => /\ screen'[d] = screen[d] /\ recv_buf'[d] = recv_buf[d]
                                         /\ talkDown'[d] = talkDown[d] /\ talkConn'[d] = talkConn[d]
                                         /\ talkCl'[d] = talkCl[d]
      /\ \/ talkDown'[c] = r /\ talkConn'[c] = talkConn[c] /\ talkCl'[c] = talkCl[c]
         \/ talkDown'[c] = <<>> /\ talkConn'[c] # "open" /\ talkCl'[c] = "left" /\ Talk!QuitIn(buf)
    <2> USE DEF Talk!TypeOK
    <2>1. screen' = [screen EXCEPT ![c] = @ \o s] /\ recv_buf' = [recv_buf EXCEPT ![c] = buf]
        BY <1>1 DEF Talk!Over
    <2>2. CASE Talk!QuitIn(buf)
        <3>1. talkCl' = [talkCl EXCEPT ![c] = "left"] /\ Talk!Close(c, r)
            BY <1>1, <2>2 DEF Talk!Over
        <3> HIDE DEF s, r, buf
        <3>2. PICK v \in {"hit", "closed"} : talkConn' = [talkConn EXCEPT ![c] = v]
            BY <3>1 DEF Talk!Close
        <3>3. talkDown' = [talkDown EXCEPT ![c] = <<>>]
            BY <3>1 DEF Talk!Close
        <3> QED BY <2>1, <2>2, <3>1, <3>2, <3>3
    <2>3. CASE ~Talk!QuitIn(buf)
        <3>1. talkDown' = [talkDown EXCEPT ![c] = r] /\ talkCl' = talkCl /\ talkConn' = talkConn
            BY <1>1, <2>3 DEF Talk!Over
        <3> HIDE DEF s, r, buf
        <3> QED BY <2>1, <3>1
    <2> QED BY <2>2, <2>3
<1> HIDE DEF s, r, old, buf, a
<1>7. /\ Len(screen'[c]) = a + k
      /\ \A m \in 1 .. a : screen'[c][m] = screen[c][m]
      /\ \A m \in 1 .. k : screen'[c][a + m] = s[m]
    <2> DEFINE v == screen[c] \o s
    <2>1. screen[c] \in Seq(Talk!Pieces) /\ s \in Seq(Talk!Pieces)
        BY <1>3, <1>4
    <2>2. /\ Len(v) = Len(screen[c]) + Len(s)
          /\ \A m \in 1 .. Len(screen[c]) : v[m] = screen[c][m]
          /\ \A m \in 1 .. Len(s) : v[Len(screen[c]) + m] = s[m]
        BY <2>1, Cat
    <2> HIDE DEF v
    <2>3. screen'[c] = v /\ Len(s) = k /\ Len(screen[c]) = a
        BY <1>4, <1>6 DEF v, a
    <2> QED BY <2>2, <2>3
<1>8. \A m : TalkSaid(m)' = TalkSaid(m)
    BY <1>2 DEF TalkSaid, Talk!Ready, Talk!Bye
<1>9. \A d : TalkGiven(d)' = TalkGiven(d)
    BY <1>2 DEF TalkGiven, TalkDue
<1>10. /\ a + Len(talkDown[c]) <= TalkGiven(c) /\ TalkGiven(c) \in Int
       /\ talkConn[c] = "open" /\ talkSrv.pc # "down" => a + Len(talkDown[c]) = TalkGiven(c)
       /\ \A m \in 1 .. a : screen[c][m] = TalkSaid(m)
       /\ \A m \in 1 .. Len(talkDown[c]) : talkDown[c][m] = TalkSaid(a + m)
    BY TalkGivenTyped DEF TalkStreams, TalkStream, a
<1>11. TalkStreams'
    <2>1. ASSUME NEW d \in Talk!People, d # c PROVE TalkStream(d)'
        BY <1>2, <1>6, <1>8, <1>9, <2>1 DEF TalkStreams, TalkStream
    <2>2. \A m \in 1 .. a + k : screen'[c][m] = TalkSaid(m)
        <3>1. ASSUME NEW m \in 1 .. a + k PROVE screen'[c][m] = TalkSaid(m)
            <4>1. CASE m <= a
                <5>1. m \in 1 .. a
                    BY <1>3, <4>1
                <5> QED BY <1>7, <1>10, <5>1
            <4>2. CASE ~(m <= a)
                <5>1. m - a \in 1 .. k /\ m = a + (m - a)
                    BY <1>3, <4>2
                <5>2. PICK q \in 1 .. k : m = a + q
                    BY <5>1
                <5>3. q \in 1 .. Len(talkDown[c])
                    BY <1>3
                <5> QED BY <1>4, <1>7, <1>10, <5>2, <5>3
            <4> QED BY <4>1, <4>2
        <3> QED BY <3>1
    <2>3. \A m \in 1 .. Len(r) : r[m] = TalkSaid(a + k + m)
        <3>1. ASSUME NEW m \in 1 .. Len(r) PROVE r[m] = TalkSaid(a + k + m)
            <4>1. k + m \in 1 .. Len(talkDown[c]) /\ m \in 1 .. Len(talkDown[c]) - k /\ a + (k + m) = a + k + m
                <5> DEFINE l == Len(talkDown[c])
                <5>1. l \in Nat /\ k \in Nat /\ a \in Nat /\ Len(r) = l - k /\ k <= l /\ k >= 1
                    BY <1>3, <1>4
                <5> HIDE DEF l
                <5>2. m \in 1 .. l - k
                    BY <5>1
                <5>3. m \in Int /\ 1 <= m /\ m <= l - k
                    BY <5>1, <5>2
                <5>4. k + m \in 1 .. l /\ a + (k + m) = a + k + m
                    BY <5>1, <5>3
                <5> QED BY <5>2, <5>4 DEF l
            <4>2. PICK q \in 1 .. Len(talkDown[c]) : q = k + m
                BY <4>1
            <4>3. talkDown[c][q] = TalkSaid(a + q)
                BY <1>10
            <4>4. r[m] = talkDown[c][q] /\ a + q = a + k + m
                BY <1>4, <4>1, <4>2
            <4> QED BY <4>3, <4>4
        <3> QED BY <3>1
    <2>4. TalkStream(c)'
        <3>1. CASE talkDown'[c] = r /\ talkConn'[c] = talkConn[c]
            <4>1. a + k + Len(r) = a + Len(talkDown[c])
                <5> DEFINE l == Len(talkDown[c])
                <5>1. l \in Nat /\ k \in Nat /\ a \in Nat /\ Len(r) = l - k
                    BY <1>3, <1>4
                <5> HIDE DEF l
                <5>2. a + k + (l - k) = a + l
                    BY <5>1
                <5> QED BY <5>1, <5>2 DEF l
            <4>2. /\ Len(screen'[c]) + Len(talkDown'[c]) <= TalkGiven(c)
                  /\ talkConn[c] = "open" /\ talkSrv.pc # "down" =>
                        Len(screen'[c]) + Len(talkDown'[c]) = TalkGiven(c)
                BY <1>7, <1>10, <3>1, <4>1
            <4>3. talkConn'[c] = talkConn[c] /\ talkSrv'.pc = talkSrv.pc
                BY <1>2, <3>1
            <4>4. /\ \A m \in 1 .. Len(screen'[c]) : screen'[c][m] = TalkSaid(m)
                  /\ \A m \in 1 .. Len(talkDown'[c]) : talkDown'[c][m] = TalkSaid(Len(screen'[c]) + m)
                BY <1>7, <2>2, <2>3, <3>1
            <4> QED BY <1>8, <1>9, <4>2, <4>3, <4>4 DEF TalkStream
        <3>2. CASE talkDown'[c] = <<>> /\ talkConn'[c] # "open"
            <4>1. Len(<<>>) = 0 /\ \A m : m \notin 1 .. 0
                OBVIOUS
            <4>2. a + k + 0 <= TalkGiven(c)
                <5> DEFINE l == Len(talkDown[c])
                           g == TalkGiven(c)
                <5>1. l \in Nat /\ k \in Nat /\ a \in Nat /\ g \in Int /\ k <= l /\ a + l <= g
                    BY <1>3, <1>10
                <5> HIDE DEF l, g
                <5>2. a + k + 0 <= g
                    BY <5>1
                <5> QED BY <5>2 DEF g
            <4> QED BY <1>2, <1>7, <1>8, <1>9, <2>2, <3>2, <4>1, <4>2 DEF TalkStream
        <3> QED BY <1>6, <3>1, <3>2
    <2> QED BY <2>1, <2>4 DEF TalkStreams
<1>17. \A m \in 1 .. Len(buf) : TalkHeard(buf[m])
    <2>1. \A m \in Nat : m >= 1 => TalkHeard(TalkSaid(m))
        <3>1. ASSUME NEW m \in Nat, m >= 1 PROVE TalkHeard(TalkSaid(m))
            <4>1. Len(talkLog) \in Nat
                BY Empty DEF Talk!TypeOK
            <4>2. CASE m # 1 /\ m <= Len(talkLog) + 1
                <5>1. m - 1 \in 1 .. Len(talkLog)
                    BY <3>1, <4>1, <4>2
                <5> QED BY <4>2, <5>1 DEF TalkHeard, TalkSaid
            <4>3. CASE ~(m # 1 /\ m <= Len(talkLog) + 1)
                BY <4>3 DEF TalkHeard, TalkSaid
            <4> QED BY <4>2, <4>3
        <3> QED BY <3>1
    <2>2. ASSUME NEW m \in 1 .. Len(buf) PROVE TalkHeard(buf[m])
        <3>1. /\ Len(buf) = k + Len(old) /\ Len(old) \in Nat
              /\ \A q \in 1 .. k : buf[q] = s[q]
              /\ \A q \in 1 .. Len(old) : buf[k + q] = old[q]
            <4> DEFINE v == s \o old
            <4>1. s \in Seq(Talk!Pieces) /\ old \in Seq(Talk!Pieces)
                BY <1>4, <1>5
            <4>2. /\ Len(v) = Len(s) + Len(old) /\ Len(old) \in Nat
                  /\ \A q \in 1 .. Len(s) : v[q] = s[q]
                  /\ \A q \in 1 .. Len(old) : v[Len(s) + q] = old[q]
                BY <4>1, Cat
            <4> HIDE DEF v
            <4>3. buf = v /\ Len(s) = k
                BY <1>4 DEF buf, v
            <4> QED BY <4>2, <4>3
        <3>2. CASE m <= k
            <4>1. m \in 1 .. k /\ m \in 1 .. Len(talkDown[c]) /\ a + m \in Nat /\ a + m >= 1
                BY <1>3, <3>2
            <4>2. buf[m] = TalkSaid(a + m)
                BY <1>4, <1>10, <3>1, <4>1
            <4> QED BY <2>1, <4>1, <4>2
        <3>3. CASE ~(m <= k)
            <4>1. m - k \in 1 .. Len(old) /\ m = k + (m - k)
                BY <1>3, <3>1, <3>3
            <4>2. PICK q \in 1 .. Len(old) : m = k + q
                BY <4>1
            <4> QED BY <1>5, <3>1, <4>2 DEF TalkBuffers
        <3> QED BY <3>2, <3>3
    <2> QED BY <2>2
<1>12. TalkBuffers'
    <2>1. \A x : TalkHeard(x)' <=> TalkHeard(x)
        BY <1>2 DEF TalkHeard, Talk!Ready, Talk!Bye
    <2>4. ASSUME NEW d \in Talk!People, NEW m \in 1 .. Len(recv_buf'[d]) PROVE TalkHeard(recv_buf'[d][m])
        <3>1. CASE d = c
            BY <1>6, <1>17, <3>1
        <3>2. CASE d # c
            BY <1>6, <3>2 DEF TalkBuffers
        <3> QED BY <3>1, <3>2
    <2> QED BY <2>1, <2>4 DEF TalkBuffers
<1>13. Talk!LeftForQuit'
    <2>1. ASSUME NEW d \in Talk!People \ Impatient, talkCl'[d] = "left"
          PROVE  \E m \in DOMAIN talkLog : talkLog[m][1] = "qu"
        <3>1. CASE talkCl[d] = "left"
            BY <3>1 DEF Talk!LeftForQuit
        <3>2. CASE talkCl[d] # "left"
            <4>1. Talk!QuitIn(buf) /\ d = c
                BY <1>6, <2>1, <3>2
            <4>2. PICK m \in 1 .. Len(buf) - 1 : buf[m][1] = "qu"
                BY <4>1 DEF Talk!QuitIn
            <4>3. Len(buf) \in Nat /\ m \in 1 .. Len(buf)
                BY <1>4, <1>5, Cat DEF buf
            <4>4. TalkHeard(buf[m]) /\ Talk!Ready[1] # "qu" /\ Talk!Bye[1] # "qu"
                BY <1>17, <4>3 DEF Talk!Ready, Talk!Bye
            <4>5. buf[m] # Talk!Ready /\ buf[m] # Talk!Bye
                BY <4>2, <4>4
            <4>6. PICK q \in 1 .. Len(talkLog) : buf[m] = talkLog[q]
                BY <4>4, <4>5 DEF TalkHeard
            <4>7. q \in DOMAIN talkLog
                BY LenProperties DEF Talk!TypeOK
            <4> QED BY <4>2, <4>6, <4>7
        <3> QED BY <3>1, <3>2
    <2> QED BY <1>2, <2>1 DEF Talk!LeftForQuit
<1>14. Talk!NobodyMuted'
    <2>1. \A d \in Talk!People : talkCl'[d] = "in" => talkCl[d] = "in"
        BY <1>2, <1>6
    <2>2. \A m \in Talk!Speechless : talkLog[m][2] \in Talk!People
        <3>1. \A m \in 1 .. Len(talkLog) : talkLog[m] \in Talk!Words
            BY Empty DEF Talk!TypeOK
        <3>2. DOMAIN talkLog = 1 .. Len(talkLog)
            BY LenProperties DEF Talk!TypeOK
        <3> QED BY <3>1, <3>2 DEF Talk!Speechless, Talk!Words
    <2>3. Talk!Speechless' = Talk!Speechless
        BY <1>2 DEF Talk!Speechless, Talk!IsName
    <2> QED BY <1>2, <2>1, <2>2, <2>3 DEF Talk!NobodyMuted
<1>15. TalkTurn' /\ TalkNames'
    BY <1>2 DEF TalkTurn, TalkNames, TalkAsked, Talk!Name, Talk!IsName
<1>16. TalkGone'
    <2>1. ASSUME NEW d \in Talk!People PROVE /\ talkConn'[d] = "open" <=> talkCl'[d] # "left"
                                             /\ talkCl[d] = "left" => talkCl'[d] = "left"
        <3>1. talkConn[d] = "open" <=> talkCl[d] # "left"
            BY DEF TalkGone
        <3>2. CASE d = c
            BY <1>2, <1>6, <3>1, <3>2
        <3>3. CASE d # c
            BY <1>6, <3>1, <3>3
        <3> QED BY <3>2, <3>3
    <2>2. \A d \in Talk!People : d \in todo => talkUp[d] # <<>> \/ talkCl'[d] = "left"
        BY <2>1 DEF TalkGone
    <2> QED BY <1>2, <2>1, <2>2 DEF TalkGone
<1> QED BY <1>11, <1>12, <1>13, <1>14, <1>15, <1>16

\* Every step of mtalk keeps TalkInv.
LEMMA TalkStep ==
    ASSUME Talk!TalkAssumption, TalkInv, [Talk!Next]_(Talk!vars)
    PROVE  TalkInv'
<1>1. Talk!TypeOK'
    BY TalkTypedStep DEF TalkInv
<1>2. CASE Talk!Server
    BY <1>1, <1>2, TalkEnter, TalkTurns, TalkRead, TalkWriteStep DEF Talk!Server
<1>3. CASE Talk!Ending
    BY <1>1, <1>3, TalkTurns
<1>4. ASSUME NEW c \in Talk!People,
             \/ Talk!TypeName(c) \/ Talk!Type(c) \/ Talk!TypeInVain(c) \/ Talk!Show(c)
             \/ Talk!Interrupt(c) \/ Talk!Reset(c) \/ Talk!Purge(c)
      PROVE  TalkInv'
    BY <1>1, <1>4, TalkTypes, TalkShows, TalkLoses
<1>5. CASE UNCHANGED Talk!vars
    <2>1. /\ talkSrv' = talkSrv /\ todo' = todo /\ talkLog' = talkLog /\ talkConn' = talkConn
          /\ talkUp' = talkUp /\ talkDown' = talkDown /\ talkCl' = talkCl /\ screen' = screen
          /\ recv_buf' = recv_buf
        BY <1>5 DEF Talk!vars
    <2> USE <2>1 DEF TalkInv
    <2>2. TalkTurn' /\ TalkNames' /\ TalkGone'
        BY DEF TalkTurn, TalkNames, TalkAsked, TalkGone, Talk!Name, Talk!IsName
    <2>3. /\ \A c : TalkGiven(c)' = TalkGiven(c)
          /\ \A k : TalkSaid(k)' = TalkSaid(k)
          /\ \A x : TalkHeard(x)' <=> TalkHeard(x)
        BY DEF TalkGiven, TalkDue, TalkSaid, TalkHeard, Talk!Ready, Talk!Bye
    <2>4. TalkStreams' /\ TalkBuffers'
        BY <2>3 DEF TalkStreams, TalkStream, TalkBuffers
    <2>5. Talk!NobodyMuted' /\ Talk!LeftForQuit'
        BY DEF Talk!NobodyMuted, Talk!LeftForQuit, Talk!Speechless, Talk!IsName
    <2> QED BY <1>1, <2>2, <2>4, <2>5
<1> QED BY <1>2, <1>3, <1>4, <1>5 DEF Talk!Next

\* TalkInv holds in every run of mtalk, for any number of people, lines and cuts.
THEOREM TalkSafe == Talk!TalkAssumption /\ Talk!Safety => []TalkInv
<1> SUFFICES ASSUME Talk!TalkAssumption PROVE Talk!Safety => []TalkInv
    OBVIOUS
<1>1. Talk!Init => TalkInv
    BY TalkInit
<1>2. TalkInv /\ [Talk!Next]_(Talk!vars) => TalkInv'
    BY TalkStep
<1> QED BY <1>1, <1>2, PTL DEF Talk!Safety

\* What somebody was told is the beginning of the log.
LEMMA TalkSaidIs ==
    ASSUME Talk!TypeOK, NEW s \in Seq(Talk!Pieces), Len(s) <= Len(talkLog) + 2,
           \A k \in 1 .. Len(s) : s[k] = TalkSaid(k)
    PROVE  /\ Len(s) = 0 => Talk!Said(s) = SubSeq(talkLog, 1, 0)
           /\ Len(s) \in 1 .. Len(talkLog) + 1 => Talk!Said(s) = SubSeq(talkLog, 1, Len(s) - 1)
           /\ Len(s) = Len(talkLog) + 2 => Talk!Said(s) = SubSeq(talkLog, 1, Len(talkLog))
<1> DEFINE n == Len(talkLog)
           l == Len(s)
<1>1. n \in Nat /\ l \in Nat /\ l <= n + 2 /\ (s = <<>> <=> l = 0) /\ talkLog \in Seq(Talk!Words)
    BY Empty DEF Talk!TypeOK
<1>2. /\ Talk!Words \subseteq Talk!Pieces
      /\ Talk!Bye \notin Talk!Words /\ Talk!Bye # Talk!Ready
    BY DEF Talk!Pieces, Talk!Words, Talk!Ready, Talk!Bye
<1>3. /\ \A k \in 1 .. n : talkLog[k] \in Talk!Words
      /\ talkLog \in Seq(Talk!Pieces)
    BY <1>1, <1>2, Empty
<1>4. ASSUME l \in 1 .. n + 1 PROVE s[l] # Talk!Bye
    <2>1. CASE l = 1
        BY <1>1, <1>2, <2>1, TalkSays
    <2>2. CASE l # 1
        <3>1. PICK m \in 1 .. n : l = m + 1
            <4> HIDE DEF l, n
            <4>1. l - 1 \in 1 .. n /\ l = l - 1 + 1
                BY <1>1, <1>4, <2>2
            <4> QED BY <4>1
        <3>2. TalkSaid(l) = talkLog[m]
            BY <3>1, TalkSays
        <3>3. s[l] = TalkSaid(l)
            BY <1>1, <1>4
        <3> QED BY <1>2, <1>3, <3>1, <3>2, <3>3
    <2> QED BY <2>1, <2>2
<1>5. ASSUME NEW e \in 1 .. l, e <= n + 1 PROVE SubSeq(s, 2, e) = SubSeq(talkLog, 1, e - 1)
    <2> DEFINE v == SubSeq(s, 2, e)
               w == SubSeq(talkLog, 1, e - 1)
    <2>1. /\ w \in Seq(Talk!Pieces) /\ Len(w) = e - 1 /\ \A m \in 1 .. e - 1 : w[m] = talkLog[m]
        <3>1. e - 1 \in 0 .. Len(talkLog)
            BY <1>1, <1>5
        <3> QED BY <1>3, <3>1, Cut
    <2>2. /\ v \in Seq(Talk!Pieces) /\ Len(v) = (IF 2 <= e THEN e - 2 + 1 ELSE 0)
          /\ \A i \in 1 .. e - 2 + 1 : v[i] = s[2 + i - 1]
        <3>1. 2 \in Int /\ e \in Int /\ \A i \in 2 .. e : s[i] \in Talk!Pieces
            <4>1. \A i \in 2 .. e : i \in 1 .. Len(s)
                BY <1>1
            <4> QED BY <4>1, Empty
        <3> QED BY <3>1, SubSeqProperties
    <2> HIDE DEF v, w
    <2>3. Len(v) = e - 1
        BY <1>1, <2>2
    <2>4. ASSUME NEW m \in 1 .. e - 1 PROVE v[m] = w[m]
        <3>1. m \in 1 .. e - 2 + 1 /\ 2 + m - 1 = m + 1 /\ m + 1 \in 1 .. l /\ m \in 1 .. n
            BY <1>1, <1>5
        <3>2. v[m] = s[m + 1] /\ s[m + 1] = TalkSaid(m + 1)
            BY <2>2, <3>1
        <3> QED BY <2>1, <3>1, <3>2, TalkSays
    <2>5. v = w
        BY <2>1, <2>2, <2>3, <2>4, SeqEqual
    <2> QED BY <2>5 DEF v, w
<1>6. CASE l = 0
    <2>1. Talk!Said(s) = SubSeq(s, 2, 0)
        BY <1>1, <1>6 DEF Talk!Said
    <2>2. SubSeq(s, 2, 0) = <<>> /\ SubSeq(talkLog, 1, 0) = <<>>
        BY SubSeqEmpty
    <2> QED BY <1>1, <1>6, <2>1, <2>2
<1>7. CASE l \in 1 .. n + 1
    <2>1. Talk!Said(s) = SubSeq(s, 2, l)
        BY <1>4, <1>7 DEF Talk!Said
    <2> QED BY <1>1, <1>5, <1>7, <2>1
<1>8. CASE l = n + 2
    <2>1. s[l] = Talk!Bye
        BY <1>1, <1>8, TalkSays
    <2>2. Talk!Said(s) = SubSeq(s, 2, l - 1)
        BY <1>1, <1>8, <2>1 DEF Talk!Said
    <2>3. l - 1 \in 1 .. l /\ l - 1 <= n + 1 /\ l - 1 - 1 = n /\ ~(l \in 1 .. n + 1) /\ l # 0
        BY <1>1, <1>8
    <2> HIDE DEF l, n
    <2>4. SubSeq(s, 2, l - 1) = SubSeq(talkLog, 1, l - 1 - 1)
        BY <1>5, <2>3
    <2> QED BY <1>8, <2>2, <2>3, <2>4 DEF n, l
<1> QED BY <1>1, <1>6, <1>7, <1>8

\* Under TalkInv everything said is shown, buffered or on its way to everybody.
LEMMA TalkCaughtUp == Talk!TalkAssumption /\ TalkInv => Talk!CaughtUp
<1> SUFFICES ASSUME Talk!TalkAssumption, TalkInv, talkSrv.pc = "select",
                    NEW c \in Talk!People, talkCl[c] = "in"
             PROVE  Talk!Said(screen[c] \o talkDown[c]) = talkLog
    BY DEF Talk!CaughtUp
<1> USE DEF TalkInv
<1> DEFINE v == screen[c] \o talkDown[c]
<1>1. screen[c] \in Seq(Talk!Pieces) /\ talkDown[c] \in Seq(Talk!Pieces) /\ Len(talkLog) \in Nat
      /\ talkLog \in Seq(Talk!Words)
    BY Empty DEF Talk!TypeOK
<1>2. /\ v \in Seq(Talk!Pieces) /\ Len(v) = Len(screen[c]) + Len(talkDown[c])
      /\ Len(screen[c]) \in Nat /\ Len(talkDown[c]) \in Nat
      /\ \A k \in 1 .. Len(screen[c]) : v[k] = screen[c][k]
      /\ \A k \in 1 .. Len(talkDown[c]) : v[Len(screen[c]) + k] = talkDown[c][k]
    <2>1. screen[c] \in Seq(Talk!Pieces) /\ talkDown[c] \in Seq(Talk!Pieces)
        BY <1>1
    <2> DEFINE a == screen[c]
               b == talkDown[c]
    <2>2. a \in Seq(Talk!Pieces) /\ b \in Seq(Talk!Pieces)
        BY <2>1
    <2> HIDE DEF a, b
    <2>3. /\ a \o b \in Seq(Talk!Pieces) /\ Len(a \o b) = Len(a) + Len(b)
          /\ Len(a) \in Nat /\ Len(b) \in Nat
          /\ \A k \in 1 .. Len(a) : (a \o b)[k] = a[k]
          /\ \A k \in 1 .. Len(b) : (a \o b)[Len(a) + k] = b[k]
        BY <2>2, Cat
    <2> QED BY <2>3 DEF a, b
<1>3. TalkGiven(c) = Len(talkLog) + 1
    BY TalkDues DEF TalkGiven
<1>4. TalkStream(c) /\ talkConn[c] = "open"
    BY DEF TalkStreams, TalkGone
<1> HIDE DEF v
<1>5. Len(v) = Len(talkLog) + 1
    BY <1>2, <1>3, <1>4 DEF TalkStream
<1>6. ASSUME NEW k \in 1 .. Len(v) PROVE v[k] = TalkSaid(k)
    <2>1. k \in 1 .. Len(screen[c]) \/ \E m \in 1 .. Len(talkDown[c]) : k = Len(screen[c]) + m
        BY <1>2, Halves
    <2>2. CASE k \in 1 .. Len(screen[c])
        BY <1>2, <1>4, <2>2 DEF TalkStream
    <2>3. CASE \E m \in 1 .. Len(talkDown[c]) : k = Len(screen[c]) + m
        BY <1>2, <1>4, <2>3 DEF TalkStream
    <2> QED BY <2>1, <2>2, <2>3
<1>7. Talk!Said(v) = SubSeq(talkLog, 1, Len(talkLog))
    <2>1. Len(v) \in 1 .. Len(talkLog) + 1 /\ Len(v) - 1 = Len(talkLog) /\ Len(v) <= Len(talkLog) + 2
        BY <1>1, <1>5
    <2> QED BY <1>2, <1>6, <2>1, TalkSaidIs
<1>8. SubSeq(talkLog, 1, Len(talkLog)) = talkLog
    <2>1. Len(talkLog) \in 0 .. Len(talkLog)
        BY <1>1
    <2>2. /\ SubSeq(talkLog, 1, Len(talkLog)) \in Seq(Talk!Words)
          /\ Len(SubSeq(talkLog, 1, Len(talkLog))) = Len(talkLog)
          /\ \A m \in 1 .. Len(talkLog) : SubSeq(talkLog, 1, Len(talkLog))[m] = talkLog[m]
        BY <1>1, <2>1, Cut
    <2> QED BY <1>1, <2>2, SeqEqual
<1> QED BY <1>7, <1>8 DEF v

-----------------------------------------------------------------------------
(* The talk that Broadcast promises                                        *)

TalkScreens == [c \in Talk!People |-> Talk!Said(screen[c])]

\* How much of the log is on a screen with l pieces.
TalkPart(l) == IF l = 0 THEN 0 ELSE IF l <= Len(talkLog) + 1 THEN l - 1 ELSE Len(talkLog)

\* The words on a screen are the beginning of the talk.
LEMMA TalkShown ==
    ASSUME Talk!TalkAssumption, TalkInv, NEW c \in Talk!People
    PROVE  /\ Talk!Said(screen[c]) = SubSeq(talkLog, 1, TalkPart(Len(screen[c])))
           /\ TalkPart(Len(screen[c])) \in 0 .. Len(talkLog)
<1> USE DEF TalkInv
<1> DEFINE n == Len(talkLog)
           l == Len(screen[c])
<1>1. screen[c] \in Seq(Talk!Pieces) /\ l \in Nat /\ n \in Nat
    BY Empty DEF Talk!TypeOK
<1>2. l <= n + 2
    <2>1. TalkGiven(c) \in {0, 1, n + 2, n + 1, n - Len(talkSrv.buf) + 1, n - Len(talkSrv.buf)}
        <3> DEFINE b == Len(talkSrv.buf)
                   j == talkSrv.j
        <3> HIDE DEF n, b, j
        <3>1. TalkDue("enter", j, n, b, c) = 0 /\ TalkDue("ready", j, n, b, c) \in {0, 1}
            BY TalkDues
        <3>2. TalkDue("name", j, n, b, c) \in {n + 1, n - b}
            BY TalkDues
        <3>3. TalkDue("text", j, n, b, c) \in {n + 1, n - b, n - b + 1}
            BY TalkDues
        <3>4. TalkDue("bye", j, n, b, c) \in {n + 1, n + 2} /\ TalkDue("down", j, n, b, c) = n + 2
            BY TalkDues
        <3>5. TalkDue("select", j, n, b, c) = n + 1 /\ TalkDue("read", j, n, b, c) = n + 1
            BY TalkDues
        <3>6. TalkGiven(c) = TalkDue(talkSrv.pc, j, n, b, c)
            BY DEF TalkGiven, n, b, j
        <3>7. talkSrv.pc \in {"enter", "ready", "select", "read", "name", "text", "bye", "down"}
            BY DEF Talk!TypeOK
        <3> QED BY <3>1, <3>2, <3>3, <3>4, <3>5, <3>6, <3>7 DEF b
    <2>2. Len(talkSrv.buf) \in Nat /\ Len(talkDown[c]) \in Nat
        BY Empty DEF Talk!TypeOK
    <2>3. l + Len(talkDown[c]) <= TalkGiven(c)
        BY DEF TalkStreams, TalkStream
    <2>4. TalkGiven(c) \in Int /\ TalkGiven(c) <= n + 2
        <3> DEFINE b == Len(talkSrv.buf)
                   g == TalkGiven(c)
        <3>1. n \in Nat /\ b \in Nat /\ g \in {0, 1, n + 2, n + 1, n - b + 1, n - b}
            BY <1>1, <2>1, <2>2
        <3> HIDE DEF n, b, g
        <3>2. g \in Int /\ g <= n + 2
            BY <3>1
        <3> QED BY <3>2 DEF g
    <2> HIDE DEF n, l
    <2> QED BY <1>1, <2>2, <2>3, <2>4
<1>3. \A k \in 1 .. l : screen[c][k] = TalkSaid(k)
    BY DEF TalkStreams, TalkStream
<1>4. /\ l = 0 => Talk!Said(screen[c]) = SubSeq(talkLog, 1, 0)
      /\ l \in 1 .. n + 1 => Talk!Said(screen[c]) = SubSeq(talkLog, 1, l - 1)
      /\ l = n + 2 => Talk!Said(screen[c]) = SubSeq(talkLog, 1, n)
    BY <1>1, <1>2, <1>3, TalkSaidIs
<1>5. /\ TalkPart(l) \in 0 .. n
      /\ l = 0 => TalkPart(l) = 0
      /\ l \in 1 .. n + 1 => TalkPart(l) = l - 1
      /\ l = n + 2 => TalkPart(l) = n
      /\ l = 0 \/ l \in 1 .. n + 1 \/ l = n + 2
    <2>1. TalkPart(l) = IF l = 0 THEN 0 ELSE IF l <= n + 1 THEN l - 1 ELSE n
        BY DEF TalkPart
    <2> HIDE DEF n, l
    <2> QED BY <1>1, <1>2, <2>1
<1> HIDE DEF l, n
<1>6. Talk!Said(screen[c]) = SubSeq(talkLog, 1, TalkPart(l))
    BY <1>4, <1>5
<1> QED BY <1>5, <1>6 DEF l, n

\* The same, a step later.
LEMMA TalkShownThen ==
    Talk!TalkAssumption /\ TalkInv' =>
        \A c \in Talk!People :
            /\ Talk!Said(screen'[c]) = SubSeq(talkLog', 1, TalkPart(Len(screen[c]))')
            /\ TalkPart(Len(screen[c]))' \in 0 .. Len(talkLog')
<1> DEFINE Shown == \A c \in Talk!People :
                       /\ Talk!Said(screen[c]) = SubSeq(talkLog, 1, TalkPart(Len(screen[c])))
                       /\ TalkPart(Len(screen[c])) \in 0 .. Len(talkLog)
<1>1. Talk!TalkAssumption /\ TalkInv => Shown
    BY TalkShown
<1> HIDE DEF Shown
<1>2. Talk!TalkAssumption' /\ TalkInv' => Shown'
    BY <1>1, PTL
<1>3. Talk!TalkAssumption' = Talk!TalkAssumption
    BY DEF Talk!TalkAssumption, Talk!People
<1>4. \A c : Talk!Said(screen[c])' = Talk!Said(screen'[c])
    BY DEF Talk!Said, Talk!Bye
<1> QED BY <1>2, <1>3, <1>4 DEF Shown

\* More of a sequence, and all of a longer one.
LEMMA TalkOpens ==
    ASSUME NEW S, NEW s \in Seq(S), NEW a \in 0 .. Len(s), NEW b \in 0 .. Len(s), a < b
    PROVE  Talk!Talking!IsStrictPrefix(SubSeq(s, 1, a), SubSeq(s, 1, b))
<1> DEFINE v == SubSeq(s, 1, a)
           w == SubSeq(s, 1, b)
<1>1. /\ v \in Seq(S) /\ Len(v) = a /\ \A m \in 1 .. a : v[m] = s[m]
      /\ Len(s) \in Nat
    BY Cut
<1>2. /\ w \in Seq(S) /\ Len(w) = b /\ \A m \in 1 .. b : w[m] = s[m]
    BY Cut
<1> HIDE DEF v, w
<1>3. a \in 0 .. Len(v) /\ a \in 0 .. Len(w) /\ a <= b /\ a \in Nat /\ b \in Nat
    BY <1>1, <1>2
<1>4. /\ SubSeq(v, 1, a) \in Seq(S) /\ Len(SubSeq(v, 1, a)) = a
      /\ \A m \in 1 .. a : SubSeq(v, 1, a)[m] = v[m]
    BY <1>1, <1>3, Cut
<1>5. /\ SubSeq(w, 1, a) \in Seq(S) /\ Len(SubSeq(w, 1, a)) = a
      /\ \A m \in 1 .. a : SubSeq(w, 1, a)[m] = w[m]
    BY <1>2, <1>3, Cut
<1>6. \A m \in 1 .. a : m \in 1 .. b
    BY <1>3
<1>7. \A m \in 1 .. a : SubSeq(v, 1, a)[m] = SubSeq(w, 1, a)[m]
    BY <1>1, <1>2, <1>4, <1>5, <1>6
<1>8. SubSeq(v, 1, a) = SubSeq(w, 1, a)
    BY <1>4, <1>5, <1>7, SeqEqual
<1>9. v # w
    BY <1>1, <1>2, <1>3
<1> QED BY <1>1, <1>2, <1>3, <1>8, <1>9 DEF Talk!Talking!IsStrictPrefix, Talk!Talking!IsPrefix, v, w

\* What is a beginning of the log remains one when the log grows.
LEMMA Grows ==
    ASSUME NEW S, NEW s \in Seq(S), NEW t \in Seq(S), Len(s) < Len(t),
           \A m \in 1 .. Len(s) : t[m] = s[m]
    PROVE  /\ Talk!Talking!IsStrictPrefix(s, t)
           /\ \A a \in 0 .. Len(s) : SubSeq(t, 1, a) = SubSeq(s, 1, a)
<1>1. Len(s) \in Nat /\ Len(t) \in Nat
    BY Empty
<1>2. ASSUME NEW a \in 0 .. Len(s) PROVE SubSeq(t, 1, a) = SubSeq(s, 1, a)
    <2>0. a \in 0 .. Len(t) /\ \A m \in 1 .. a : m \in 1 .. Len(s)
        BY <1>1
    <2>1. /\ SubSeq(s, 1, a) \in Seq(S) /\ Len(SubSeq(s, 1, a)) = a
          /\ \A m \in 1 .. a : SubSeq(s, 1, a)[m] = s[m]
        BY Cut
    <2>2. /\ SubSeq(t, 1, a) \in Seq(S) /\ Len(SubSeq(t, 1, a)) = a
          /\ \A m \in 1 .. a : SubSeq(t, 1, a)[m] = t[m]
        BY <2>0, Cut
    <2>3. \A m \in 1 .. a : SubSeq(t, 1, a)[m] = SubSeq(s, 1, a)[m]
        BY <2>0, <2>1, <2>2
    <2> QED BY <2>1, <2>2, <2>3, SeqEqual
<1>3. Len(s) \in 0 .. Len(s) /\ Len(s) <= Len(t) /\ s # t
    BY <1>1
<1>4. SubSeq(s, 1, Len(s)) = SubSeq(t, 1, Len(s))
    BY <1>2, <1>3
<1>5. Talk!Talking!IsStrictPrefix(s, t)
    BY <1>3, <1>4 DEF Talk!Talking!IsStrictPrefix, Talk!Talking!IsPrefix
<1> QED BY <1>2, <1>5

\* What is read is said.
LEMMA TalkReadSays ==
    ASSUME Talk!TalkAssumption, TalkInv, TalkInv', NEW i \in Talk!People, Talk!Read(i)
    PROVE  Talk!Talking!Say
<1> USE DEF TalkInv
<1>1. talkLog \in Seq(Talk!Words) /\ talkLog' \in Seq(Talk!Words) /\ screen' = screen
    BY DEF Talk!TypeOK, Talk!Words, Talk!Read, Talk!client
<1>2. Len(talkLog) < Len(talkLog') /\ \A m \in 1 .. Len(talkLog) : talkLog'[m] = talkLog[m]
    <2>1. <<Talk!Name(i)>> \in Seq(Talk!Words) /\ Len(<<Talk!Name(i)>>) = 1
        BY DEF Talk!Name, Talk!Words
    <2> DEFINE x == <<Talk!Name(i)>>
               v == talkLog \o x
    <2> HIDE DEF x
    <2>2. /\ v \in Seq(Talk!Words) /\ Len(v) = Len(talkLog) + 1 /\ Len(talkLog) \in Nat
          /\ \A m \in 1 .. Len(talkLog) : v[m] = talkLog[m]
        <3> DEFINE l == talkLog
        <3>1. x \in Seq(Talk!Words) /\ Len(x) = 1 /\ l \in Seq(Talk!Words)
            BY <1>1, <2>1 DEF x
        <3> HIDE DEF l
        <3>2. /\ l \o x \in Seq(Talk!Words) /\ Len(l \o x) = Len(l) + Len(x) /\ Len(l) \in Nat
              /\ \A m \in 1 .. Len(l) : (l \o x)[m] = l[m]
            BY <3>1, Cat
        <3> QED BY <3>1, <3>2 DEF l
    <2> HIDE DEF v
    <2>3. CASE talkUp[i] # <<>>
        <3>1. PICK k \in 1 .. Len(talkUp[i]) :
                 talkLog' = talkLog \o <<Talk!Name(i)>> \o Talk!Taken(talkUp[i], k)
            BY <2>3 DEF Talk!Read
        <3> DEFINE t == Talk!Taken(talkUp[i], k)
        <3>2. t \in Seq(Talk!Words)
            <4>1. talkUp[i] \in Seq(Talk!Words) /\ k \in 0 .. Len(talkUp[i])
                BY Empty DEF Talk!TypeOK
            <4> QED BY <4>1, Cut DEF Talk!Taken
        <3>3. talkLog' = v \o t
            BY <3>1 DEF v, x
        <3> HIDE DEF t
        <3>4. /\ Len(v \o t) = Len(v) + Len(t) /\ Len(t) \in Nat
              /\ \A m \in 1 .. Len(v) : (v \o t)[m] = v[m]
            BY <2>2, <3>2, Cat
        <3>5. \A m \in 1 .. Len(talkLog) : m \in 1 .. Len(v)
            BY <2>2
        <3>6. Len(talkLog) < Len(v \o t)
            BY <2>2, <3>4
        <3> QED BY <2>2, <3>3, <3>4, <3>5, <3>6
    <2>4. CASE talkUp[i] = <<>>
        <3>1. talkLog' = Append(talkLog, Talk!Name(i))
            BY <2>4 DEF Talk!Read
        <3>2. Talk!Name(i) \in Talk!Words
            BY DEF Talk!Name, Talk!Words
        <3>3. talkLog' = v
            BY <1>1, <3>1, <3>2, AppendIsConcat DEF v, x
        <3> QED BY <2>2, <3>3
    <2> QED BY <2>3, <2>4
<1>3. Talk!Talking!IsStrictPrefix(talkLog, talkLog')
    BY <1>1, <1>2, Grows
<1>4. ASSUME NEW c \in Talk!People PROVE Talk!Said(screen[c])' = Talk!Said(screen[c])
    BY <1>1 DEF Talk!Said, Talk!Bye
<1>5. UNCHANGED TalkScreens
    BY <1>1 DEF TalkScreens, Talk!Said, Talk!Bye
<1> QED BY <1>3, <1>5 DEF Talk!Talking!Say, TalkScreens

\* What is shown continues what was shown, or is no more than "Wait.", the first
\* announcement, or the last.
LEMMA TalkShowShows ==
    ASSUME Talk!TalkAssumption, TalkInv, TalkInv', NEW c \in Talk!People, Talk!Show(c)
    PROVE  Talk!Talking!Show(c) \/ UNCHANGED <<talkLog, TalkScreens>>
<1>1. talkLog' = talkLog /\ talkLog \in Seq(Talk!Words) /\ Len(talkLog) \in Nat
    BY Empty DEF Talk!Show, Talk!server, TalkInv, Talk!TypeOK
<1>2. /\ \A d \in Talk!People : d # c => screen'[d] = screen[d]
      /\ Len(screen[c]) \in Nat /\ Len(screen'[c]) \in Nat /\ Len(screen[c]) <= Len(screen'[c])
    <2>1. PICK k \in 1 .. Len(talkDown[c]) : screen' = [screen EXCEPT ![c] = @ \o Talk!Taken(talkDown[c], k)]
        BY DEF Talk!Show
    <2>2. talkDown[c] \in Seq(Talk!Pieces) /\ k \in 0 .. Len(talkDown[c]) /\ screen[c] \in Seq(Talk!Pieces)
          /\ screen \in [Talk!People -> Seq(Talk!Pieces)]
        BY Empty DEF TalkInv, Talk!TypeOK
    <2> DEFINE t == Talk!Taken(talkDown[c], k)
               v == screen[c]
    <2>3. t \in Seq(Talk!Pieces) /\ v \in Seq(Talk!Pieces)
        BY <2>2, Cut DEF Talk!Taken
    <2>4. screen'[c] = v \o t /\ \A d \in Talk!People : d # c => screen'[d] = screen[d]
        BY <2>1, <2>2
    <2> HIDE DEF t, v
    <2>5. Len(v \o t) = Len(v) + Len(t) /\ Len(v) \in Nat /\ Len(t) \in Nat
        BY <2>3, Cat
    <2>6. Len(v \o t) \in Nat /\ Len(v) <= Len(v \o t)
        BY <2>5
    <2> QED BY <2>4, <2>5, <2>6 DEF v
<1> DEFINE n == Len(talkLog)
           a == TalkPart(Len(screen[c]))
           b == TalkPart(Len(screen'[c]))
<1>3. Talk!Said(screen[c]) = SubSeq(talkLog, 1, a) /\ a \in 0 .. n
    BY TalkShown
<1>4. Talk!Said(screen'[c]) = SubSeq(talkLog, 1, b) /\ b \in 0 .. n
    <2>1. TalkPart(Len(screen[c]))' = b
        BY <1>1 DEF TalkPart
    <2> HIDE DEF b
    <2> QED BY <1>1, <2>1, TalkShownThen
<1>5. a <= b
    <2> DEFINE l == Len(screen[c])
               m == Len(screen'[c])
    <2>1. a = (IF l = 0 THEN 0 ELSE IF l <= n + 1 THEN l - 1 ELSE n)
        BY DEF TalkPart
    <2>2. b = (IF m = 0 THEN 0 ELSE IF m <= n + 1 THEN m - 1 ELSE n)
        BY DEF TalkPart
    <2>3. l \in Nat /\ m \in Nat /\ n \in Nat /\ l <= m
        BY <1>1, <1>2
    <2> HIDE DEF a, b, l, m, n
    <2> QED BY <2>1, <2>2, <2>3
<1>6. \A d \in Talk!People : d # c => Talk!Said(screen'[d]) = Talk!Said(screen[d])
    BY <1>2
<1>7. /\ TalkScreens[c] = SubSeq(talkLog, 1, a) /\ TalkScreens'[c] = SubSeq(talkLog, 1, b)
      /\ \A d \in Talk!People \ {c} : TalkScreens'[d] = TalkScreens[d]
      /\ TalkScreens' = [d \in Talk!People |-> Talk!Said(screen'[d])]
    <2>1. TalkScreens' = [d \in Talk!People |-> Talk!Said(screen'[d])]
        BY DEF TalkScreens, Talk!Said, Talk!Bye
    <2> HIDE DEF a, b
    <2> QED BY <1>3, <1>4, <1>6, <2>1 DEF TalkScreens
<1> HIDE DEF a, b
<1>8. CASE a < b
    <2>1. Talk!Talking!IsStrictPrefix(TalkScreens[c], TalkScreens'[c])
        BY <1>1, <1>3, <1>4, <1>7, <1>8, TalkOpens
    <2>2. Talk!Talking!Piece(TalkScreens'[c])
        <3>1. 1 \in 1 .. Len(talkLog) /\ b \in 1 .. Len(talkLog)
            BY <1>1, <1>3, <1>4, <1>8
        <3> QED BY <1>7, <3>1 DEF Talk!Talking!Piece
    <2> QED BY <1>1, <1>7, <2>1, <2>2 DEF Talk!Talking!Show, TalkScreens
<1>9. CASE a = b
    <2>1. \A d \in Talk!People : Talk!Said(screen'[d]) = Talk!Said(screen[d])
        BY <1>3, <1>4, <1>6, <1>9
    <2>2. TalkScreens' = TalkScreens
        BY <1>7, <2>1 DEF TalkScreens
    <2> QED BY <1>1, <2>2
<1>10. a < b \/ a = b
    BY <1>1, <1>3, <1>4, <1>5
<1> QED BY <1>8, <1>9, <1>10

\* A step of mtalk says one piece, shows one more to somebody, or does neither.
LEMMA TalkSpeaks ==
    ASSUME Talk!TalkAssumption, TalkInv, TalkInv', [Talk!Next]_(Talk!vars)
    PROVE  [Talk!Talking!Next]_<<talkLog, TalkScreens>>
<1>1. ASSUME talkLog' = talkLog, screen' = screen PROVE UNCHANGED <<talkLog, TalkScreens>>
    BY <1>1 DEF TalkScreens, Talk!Said, Talk!Bye
<1>2. ASSUME NEW i \in Talk!People, Talk!Read(i) PROVE Talk!Talking!Next
    BY <1>2, TalkReadSays DEF Talk!Talking!Next
<1>3. ASSUME NEW c \in Talk!People, Talk!Show(c) PROVE [Talk!Talking!Next]_<<talkLog, TalkScreens>>
    BY <1>3, TalkShowShows DEF Talk!Talking!Next
<1>4. CASE Talk!Server
    <2>1. CASE Talk!Enter \/ Talk!SessionInit \/ Talk!Select \/ Talk!SendName \/ Talk!SendText
               \/ Talk!SayBye \/ Talk!Killed
        <3>1. talkLog' = talkLog /\ screen' = screen
            BY <2>1 DEF Talk!Enter, Talk!SessionInit, Talk!Select, Talk!SendName, Talk!SendText,
                        Talk!SayBye, Talk!Killed, Talk!client
        <3> QED BY <1>1, <3>1
    <2> QED BY <1>2, <1>4, <2>1 DEF Talk!Server
<1>5. CASE Talk!Ending
    BY <1>1, <1>5 DEF Talk!Ending, Talk!client
<1>6. ASSUME NEW c \in Talk!People,
             \/ Talk!TypeName(c) \/ Talk!Type(c) \/ Talk!TypeInVain(c)
             \/ Talk!Interrupt(c) \/ Talk!Reset(c) \/ Talk!Purge(c)
      PROVE  UNCHANGED <<talkLog, TalkScreens>>
    <2>1. talkLog' = talkLog /\ screen' = screen
        BY <1>6 DEF Talk!TypeName, Talk!Type, Talk!TypeInVain, Talk!Interrupt, Talk!Reset, Talk!Purge,
                    Talk!server, Talk!client
    <2> QED BY <1>1, <2>1
<1>7. CASE UNCHANGED Talk!vars
    BY <1>1, <1>7 DEF Talk!vars
<1> QED BY <1>3, <1>4, <1>5, <1>6, <1>7 DEF Talk!Next

\* The talk that everybody is shown begins empty.
LEMMA TalkBegins == Talk!Init => Talk!Talking!Init
<1> SUFFICES ASSUME Talk!Init PROVE Talk!Talking!Init
    OBVIOUS
<1>1. talkLog = <<>> /\ \A c \in Talk!People : screen[c] = <<>>
    BY DEF Talk!Init
<1>2. Talk!Said(<<>>) = <<>>
    <2>1. Talk!Said(<<>>) = SubSeq(<<>>, 2, 0)
        BY DEF Talk!Said
    <2>2. SubSeq(<<>>, 2, 0) = <<>>
        BY SubSeqEmpty
    <2> QED BY <2>1, <2>2
<1> QED BY <1>1, <1>2 DEF Talk!Talking!Init

\* The select loop of the server and the client's loop with recv_buf implement one talk
\* that everybody reads, whatever is cut and whoever leaves.
THEOREM TalkTold == Talk!TalkAssumption /\ Talk!Safety => Talk!ImplementsBroadcast
<1> SUFFICES ASSUME Talk!TalkAssumption PROVE Talk!Safety => Talk!ImplementsBroadcast
    OBVIOUS
<1>1. Talk!Init => TalkInv
    BY TalkInit
<1>2. TalkInv /\ [Talk!Next]_(Talk!vars) => TalkInv'
    BY TalkStep
<1>3. TalkInv /\ TalkInv' /\ [Talk!Next]_(Talk!vars) => [Talk!Talking!Next]_<<talkLog, TalkScreens>>
    BY TalkSpeaks
<1> QED BY <1>1, <1>2, <1>3, TalkBegins, PTL
    DEF Talk!Safety, Talk!ImplementsBroadcast, Talk!Talking!Spec, TalkScreens

-----------------------------------------------------------------------------
(* Msg.pm                                                                  *)

CONSTANTS MsgClients, Comes, Requests, Sizes, Cap, Splits, Stale, MsgDies

VARIABLES
    msgSrv, ready, handles, sock, err, delivered, msgConn, msgUp, msgDown, msgCl,
    sent, flushed, msgAnswers

Msg == INSTANCE Msg WITH
    Clients <- MsgClients, Dies <- MsgDies, srv <- msgSrv, conn <- msgConn, up <- msgUp,
    down <- msgDown, cl <- msgCl, answers <- msgAnswers

\* Where the server is with c.
MsgAt(c, pc) == c \in msgSrv.conn /\ msgSrv.pc = pc

MsgOpen ==
    /\ handles = {c \in MsgClients : sock[c] = "open"}
    /\ msgSrv.pc \in {"select", "serve"} => msgSrv.conn = {}
    /\ msgSrv.pc \in {"body", "finish", "write"} =>
          \E c \in MsgClients : msgSrv.conn = {c} /\ sock[c] = "open"

\* The empty message comes last; a client that has gone, or has not come, has
\* nothing to send.
MsgFine(c) ==
    /\ \A i \in 1 .. Len(delivered[c]) :
          delivered[c][i] = 0 => i = Len(delivered[c]) /\ sock[c] = "closed"
    /\ msgConn[c] \in {"closed", "hit", "reset"} => msgCl[c].pc \in {"done", "dead"}
    /\ msgCl[c].pc \in {"start", "done", "dead"} => msgCl[c].queue = <<>>
    /\ msgCl[c].pc = "write" => flushed[c] = Len(sent[c])
    /\ flushed[c] <= Len(sent[c]) /\ Len(sent[c]) <= Requests
    /\ c \in ready \/ sock[c] # "none" => msgConn[c] # "none"

\* The client is dead, and all it has sent is read.
MsgSilent(c) == msgCl[c].pc = "dead" /\ msgUp[c] = <<>>
MsgOver(c) ==
    /\ MsgSilent(c) /\ ~MsgAt(c, "body")
    /\ MsgAt(c, "finish") => msgSrv.msg = 0

\* The callback has got what was sent, and gets what was sent next.
MsgRead(c) ==
    /\ Len(Msg!Heard(c)) <= flushed[c]
    /\ \A i \in 1 .. Len(Msg!Heard(c)) :
          \/ Msg!Heard(c)[i] = sent[c][i]
          \/ i = Len(Msg!Heard(c)) /\ Msg!Heard(c)[i] < sent[c][i] /\ MsgOver(c)
    /\ MsgAt(c, "finish") /\ msgSrv.msg > 0 =>
          /\ Len(Msg!Heard(c)) + 1 <= flushed[c]
          /\ \/ msgSrv.msg = sent[c][Len(Msg!Heard(c)) + 1]
             \/ msgSrv.msg < sent[c][Len(Msg!Heard(c)) + 1] /\ MsgSilent(c)

\* What follows the first b pieces of the messages of the sizes s, of which
\* message m begins after start[m] pieces: u is under way, q waits in the queue.
MsgRow(start, s, u, q, b, f, pc) ==
    /\ start \in [1 .. Len(s) + 1 -> Nat] /\ b \in Nat
    /\ \A m \in 1 .. Len(s) : start[m + 1] = start[m] + s[m] + 2
    /\ \A m, k \in 1 .. Len(s) + 1 : m <= k => start[m] <= start[k]
    /\ b + Len(u) <= start[f + 1]
    /\ pc \notin {"write", "dead"} => b + Len(u) = start[f + 1]
    /\ pc \notin {"done", "dead"} => b + Len(u) + Len(q) = start[Len(s) + 1]
    /\ \A m \in 1 .. Len(s) : \A k \in 1 .. Len(u) : b + k = start[m] + 1 => u[k].size = s[m]
    /\ \A m \in 1 .. Len(s) : \A k \in 1 .. Len(q) :
          b + Len(u) + k = start[m] + 1 => q[k].size = s[m]

\* How many pieces the server has read.
MsgBase(c, start) ==
    IF MsgAt(c, "body") THEN start[Len(Msg!Heard(c)) + 1] + 2 + msgSrv.msg
    ELSE IF MsgAt(c, "finish") THEN start[Len(Msg!Heard(c)) + 2]
    ELSE start[Len(Msg!Heard(c)) + 1]

MsgFlow(c, start) ==
    /\ MsgRow(start, sent[c], msgUp[c], msgCl[c].queue, MsgBase(c, start), flushed[c], msgCl[c].pc)
    /\ MsgAt(c, "body") =>
          /\ Len(Msg!Heard(c)) + 1 <= flushed[c]
          /\ msgSrv.msg + msgSrv.left = sent[c][Len(Msg!Heard(c)) + 1]
    /\ MsgAt(c, "finish") =>
          /\ Len(Msg!Heard(c)) + 1 <= flushed[c]
          /\ msgSrv.msg = sent[c][Len(Msg!Heard(c)) + 1]

MsgStream(c) ==
    sock[c] # "closed" /\ msgSrv.pc # "killed" =>
        \/ MsgOver(c)
        \/ MsgAt(c, "finish") /\ (msgSrv.msg = 0 \/ MsgSilent(c))
        \/ \E start : MsgFlow(c, start)

\* The pieces of answers, all written after a message was heard: those under
\* way, in the answers returned, in the one being read and in the one written.
MsgReading(c) ==
    IF msgCl[c].pc = "body" THEN 2 + msgCl[c].msg
    ELSE IF msgCl[c].pc = "got" /\ msgCl[c].msg > 0 THEN 3 ELSE 0
MsgWriting(c) == IF MsgAt(c, "write") THEN Len(msgSrv.out) ELSE 0

MsgPaid(c) ==
    /\ \A k \in 1 .. Len(msgDown[c]) : msgDown[c][k].size = 1
    /\ MsgAt(c, "write") => \A k \in 1 .. Len(msgSrv.out) : msgSrv.out[k].size = 1
    /\ msgCl[c].pc = "body" => msgCl[c].msg + msgCl[c].left = 1
    /\ msgCl[c].pc = "got" => msgCl[c].msg <= 1
    /\ Len(msgDown[c]) + 3 * Len(msgAnswers[c]) + MsgReading(c) + MsgWriting(c)
          <= 3 * Len(Msg!Heard(c))

\* Who sends one message gets one answer, in one write.
MsgPolite(c) ==
    Requests = 1 /\ ~Splits /\ Cap >= 3 =>
        /\ msgConn[c] \in {"hit", "reset"} => Len(Msg!Heard(c)) >= 1 /\ ~MsgAt(c, "write")
        /\ MsgAt(c, "write") =>
              Len(Msg!Heard(c)) >= 1 /\ Len(msgSrv.out) = 3 /\ msgDown[c] = <<>>

MsgFor(c) == MsgFine(c) /\ MsgRead(c) /\ MsgStream(c) /\ MsgPaid(c) /\ MsgPolite(c)

MsgInv ==
    /\ Msg!TypeOK /\ MsgOpen
    /\ \A c \in MsgClients : MsgFor(c)
    /\ Requests = 1 /\ ~Splits /\ Cap >= 3 => msgSrv.pc # "killed"

\* The smaller of two.
LEMMA MinOfTwo ==
    ASSUME NEW a \in Nat, NEW b \in Nat
    PROVE  Msg!Min({a, b}) = IF a <= b THEN a ELSE b
<1>1. \E x \in {a, b} : \A y \in {a, b} : x <= y
    OBVIOUS
<1> DEFINE m == CHOOSE x \in {a, b} : \A y \in {a, b} : x <= y
<1>2. m \in {a, b} /\ \A y \in {a, b} : m <= y
    BY <1>1
<1>3. Msg!Min({a, b}) = m
    BY DEF Msg!Min
<1> HIDE DEF m
<1> QED BY <1>2, <1>3

\* What is read is taken away.
LEMMA RowTakes ==
    ASSUME NEW s \in Seq(Nat), NEW u \in Seq(Msg!Pieces), NEW q \in Seq(Msg!Pieces),
           NEW start, NEW b, NEW f \in 0 .. Len(s), NEW pc, MsgRow(start, s, u, q, b, f, pc),
           NEW k \in 0 .. Len(u)
    PROVE  MsgRow(start, s, Msg!From(u, k), q, b + k, f, pc)
<1> DEFINE v == Msg!From(u, k)
<1>1. /\ v \in Seq(Msg!Pieces) /\ Len(v) = Len(u) - k /\ Len(u) \in Nat
      /\ \A m \in 1 .. Len(u) - k : v[m] = u[k + m]
    BY Cut DEF Msg!From
<1>2. Len(s) \in Nat /\ Len(q) \in Nat /\ b \in Nat /\ start[f + 1] \in Nat /\ f + 1 \in 1 .. Len(s) + 1
    <2>1. Len(s) \in Nat /\ Len(q) \in Nat
        BY Empty
    <2>2. f + 1 \in 1 .. Len(s) + 1
        BY <2>1
    <2> QED BY <2>1, <2>2 DEF MsgRow
<1> HIDE DEF v
<1> DEFINE l == Len(u)
<1>3. l \in Nat /\ k \in Nat /\ k <= l /\ Len(v) = l - k
    BY <1>1
<1> HIDE DEF l
<1>4. b + k \in Nat /\ b + k + Len(v) = b + l
    BY <1>2, <1>3
<1>5. ASSUME NEW m \in 1 .. Len(s), NEW i \in 1 .. Len(v), b + k + i = start[m] + 1
      PROVE  v[i].size = s[m]
    <2>1. k + i \in 1 .. l /\ i \in 1 .. l - k
        BY <1>3
    <2>2. PICK j \in 1 .. l : j = k + i
        BY <2>1
    <2>3. b + j = start[m] + 1
        BY <1>2, <1>3, <1>5, <2>2
    <2>4. u[j].size = s[m]
        BY <2>3 DEF MsgRow, l
    <2> QED BY <1>1, <2>1, <2>2, <2>4 DEF l
<1>6. \A m \in 1 .. Len(s) : \A i \in 1 .. Len(q) : b + k + Len(v) + i = start[m] + 1 => q[i].size = s[m]
    BY <1>4 DEF MsgRow, l
<1>7. /\ b + l <= start[f + 1]
      /\ pc \notin {"write", "dead"} => b + l = start[f + 1]
      /\ pc \notin {"done", "dead"} => b + l + Len(q) = start[Len(s) + 1]
    BY DEF MsgRow, l
<1> QED BY <1>4, <1>5, <1>6, <1>7 DEF MsgRow, v

\* What is pushed goes from the queue under way.
LEMMA RowPushes ==
    ASSUME NEW s \in Seq(Nat), NEW u \in Seq(Msg!Pieces), NEW q \in Seq(Msg!Pieces),
           NEW start, NEW b, MsgRow(start, s, u, q, b, Len(s), "write"), NEW k \in 1 .. Len(q)
    PROVE  MsgRow(start, s, u \o SubSeq(q, 1, k), Msg!From(q, k), b, Len(s),
                  IF k < Len(q) THEN "write" ELSE "free")
<1> DEFINE h == SubSeq(q, 1, k)
           t == Msg!From(q, k)
           v == u \o h
           l == Len(u)
           n == Len(q)
           z == Len(s)
<1>1. /\ h \in Seq(Msg!Pieces) /\ Len(h) = k /\ \A m \in 1 .. k : h[m] = q[m]
      /\ t \in Seq(Msg!Pieces) /\ Len(t) = n - k /\ n \in Nat
      /\ \A m \in 1 .. n - k : t[m] = q[k + m]
    <2>1. k \in 0 .. Len(q)
        BY Empty
    <2> QED BY <2>1, Cut DEF Msg!From
<1>2. h \in Seq(Msg!Pieces)
    BY <1>1
<1> HIDE DEF h, t
<1>3. /\ Len(v) = l + Len(h) /\ l \in Nat
      /\ \A m \in 1 .. l : v[m] = u[m]
      /\ \A m \in 1 .. Len(h) : v[l + m] = h[m]
    BY <1>2, Cat
<1>4. z \in Nat
    BY Empty
<1> HIDE DEF v, l, n, z
<1>5. /\ start \in [1 .. z + 1 -> Nat] /\ b \in Nat
      /\ \A m \in 1 .. z : start[m + 1] = start[m] + s[m] + 2
      /\ \A m, i \in 1 .. z + 1 : m <= i => start[m] <= start[i]
      /\ b + l + n = start[z + 1]
      /\ \A m \in 1 .. z : \A i \in 1 .. l : b + i = start[m] + 1 => u[i].size = s[m]
      /\ \A m \in 1 .. z : \A i \in 1 .. n : b + l + i = start[m] + 1 => q[i].size = s[m]
    BY DEF MsgRow, l, n, z
<1>6. k \in Nat /\ k >= 1 /\ k <= n
    BY <1>1 DEF n
<1>7. start[z + 1] \in Nat
    BY <1>4, <1>5
<1>8. Len(v) = l + k /\ Len(t) = n - k
    BY <1>1, <1>3
<1>9. ASSUME NEW m \in 1 .. z, NEW i \in 1 .. Len(v), b + i = start[m] + 1 PROVE v[i].size = s[m]
    <2>1. i \in 1 .. l \/ \E j \in 1 .. k : i = l + j
        BY <1>3, <1>6, <1>8, Halves
    <2>2. CASE i \in 1 .. l
        BY <1>3, <1>5, <1>9, <2>2
    <2>3. ASSUME NEW j \in 1 .. k, i = l + j PROVE v[i].size = s[m]
        <3>1. j \in 1 .. n
            BY <1>1, <1>6
        <3>2. b + l + j = start[m] + 1
            BY <1>3, <1>5, <1>6, <1>9, <2>3
        <3>3. q[j].size = s[m]
            BY <1>5, <3>1, <3>2
        <3> QED BY <1>1, <1>3, <2>3, <3>3
    <2> QED BY <2>1, <2>2, <2>3
<1>10. ASSUME NEW m \in 1 .. z, NEW i \in 1 .. Len(t), b + Len(v) + i = start[m] + 1
      PROVE  t[i].size = s[m]
    <2>1. i \in 1 .. n - k /\ k + i \in 1 .. n
        BY <1>1, <1>6, <1>8
    <2>2. PICK j \in 1 .. n : j = k + i
        BY <2>1
    <2>3. b + l + j = start[m] + 1
        BY <1>1, <1>3, <1>5, <1>6, <1>8, <1>10, <2>1, <2>2
    <2>4. q[j].size = s[m]
        BY <1>5, <2>3
    <2> QED BY <1>1, <2>1, <2>2, <2>4
<1>11. k = n => b + Len(v) = start[z + 1]
    BY <1>1, <1>3, <1>5, <1>6, <1>7, <1>8
<1>12. \A m \in 1 .. z : \A i \in 1 .. Len(v) : b + i = start[m] + 1 => v[i].size = s[m]
    BY <1>9
<1>13. \A m \in 1 .. z : \A i \in 1 .. Len(t) : b + Len(v) + i = start[m] + 1 => t[i].size = s[m]
    BY <1>10
<1>14. b + Len(v) <= start[z + 1] /\ b + Len(v) + Len(t) = start[z + 1]
    <2> DEFINE e == start[z + 1]
    <2>1. b \in Nat /\ l \in Nat /\ n \in Nat /\ e \in Nat /\ b + l + n = e
        BY <1>1, <1>3, <1>5, <1>7
    <2> HIDE DEF e
    <2>2. b + (l + k) <= e /\ b + (l + k) + (n - k) = e
        BY <1>6, <2>1
    <2> QED BY <1>8, <2>2 DEF e
<1>15. z = Len(s)
    BY DEF z
<1>16. MsgRow(start, s, v, t, b, z, "write")
    BY <1>5, <1>12, <1>13, <1>14, <1>15 DEF MsgRow
<1>17. ASSUME k = n PROVE MsgRow(start, s, v, t, b, z, "free")
    <2>1. b + Len(v) = start[z + 1]
        BY <1>11, <1>17
    <2> QED BY <1>5, <1>12, <1>13, <1>14, <1>15, <2>1 DEF MsgRow
<1>18. CASE k < n
    BY <1>16, <1>18 DEF v, h, t, n, z
<1>19. CASE k = n
    <2>1. ~(k < n)
        BY <1>6, <1>19
    <2> QED BY <1>17, <1>19, <2>1 DEF v, h, t, n, z
<1> QED BY <1>1, <1>6, <1>18, <1>19

\* A message is its header and a byte for each of its size.
LEMMA MessageIs ==
    ASSUME NEW z \in Nat
    PROVE  /\ Msg!Message(z) \in Seq(Msg!Pieces) /\ Len(Msg!Message(z)) = z + 2
           /\ \A i \in 1 .. z + 2 : Msg!Message(z)[i].size = z
<1>1. \A i \in 1 .. z + 2 : [part |-> IF i <= 2 THEN "head" ELSE "body", size |-> z] \in Msg!Pieces
    BY DEF Msg!Pieces
<1>2. Msg!Message(z) \in [1 .. z + 2 -> Msg!Pieces]
    BY <1>1 DEF Msg!Message
<1>3. Msg!Message(z) \in Seq(Msg!Pieces) /\ Len(Msg!Message(z)) = z + 2
    BY <1>2
<1> QED BY <1>3 DEF Msg!Message

\* A row with one more at its end.
LEMMA Appended ==
    ASSUME NEW S, NEW s \in Seq(S), NEW x \in S
    PROVE  /\ Append(s, x) \in Seq(S) /\ Len(Append(s, x)) = Len(s) + 1 /\ Len(s) \in Nat
           /\ \A k \in 1 .. Len(s) : Append(s, x)[k] = s[k]
           /\ Append(s, x)[Len(s) + 1] = x
BY AppendProperties

\* A message more joins the queue.
LEMMA RowSends ==
    ASSUME NEW s \in Seq(Nat), NEW u \in Seq(Msg!Pieces), NEW q \in Seq(Msg!Pieces),
           NEW start, NEW b, NEW f \in 0 .. Len(s), MsgRow(start, s, u, q, b, f, "free"), NEW z \in Nat
    PROVE  \E new :
              /\ \A m \in 1 .. Len(s) + 1 : new[m] = start[m]
              /\ MsgRow(new, Append(s, z), u, q \o Msg!Message(z), b, f, "free")
              /\ MsgRow(new, Append(s, z), u, q \o Msg!Message(z), b, Len(s) + 1, "write")
<1> DEFINE e == Len(s)
           new == [m \in 1 .. e + 2 |-> IF m <= e + 1 THEN start[m] ELSE start[e + 1] + z + 2]
           y == Msg!Message(z)
           r == q \o y
           t == Append(s, z)
           l == Len(u)
           n == Len(q)
<1>1. /\ Len(t) = e + 1 /\ e \in Nat
      /\ \A m \in 1 .. e : t[m] = s[m]
      /\ t[e + 1] = z
    BY Appended
<1>2. l \in Nat /\ n \in Nat
    BY Empty
<1>3. y \in Seq(Msg!Pieces) /\ Len(y) = z + 2 /\ \A i \in 1 .. z + 2 : y[i].size = z
    BY MessageIs
<1>4. y \in Seq(Msg!Pieces)
    BY <1>3
<1> HIDE DEF y
<1>5. /\ Len(r) = n + Len(y)
      /\ \A m \in 1 .. n : r[m] = q[m]
      /\ \A m \in 1 .. Len(y) : r[n + m] = y[m]
    BY <1>4, Cat
<1> HIDE DEF t, r, l, n, e
<1>6. /\ start \in [1 .. e + 1 -> Nat] /\ b \in Nat /\ f \in Nat /\ f <= e
      /\ \A m \in 1 .. e : start[m + 1] = start[m] + s[m] + 2
      /\ \A m, i \in 1 .. e + 1 : m <= i => start[m] <= start[i]
      /\ b + l = start[f + 1]
      /\ b + l + n = start[e + 1]
      /\ \A m \in 1 .. e : \A i \in 1 .. l : b + i = start[m] + 1 => u[i].size = s[m]
      /\ \A m \in 1 .. e : \A i \in 1 .. n : b + l + i = start[m] + 1 => q[i].size = s[m]
    BY <1>1 DEF MsgRow, l, n, e
<1>7. /\ \A m \in 1 .. e + 1 : new[m] = start[m]
      /\ new[e + 2] = start[e + 1] + z + 2
      /\ e + 2 \in 1 .. e + 2 /\ e + 1 \in 1 .. e + 1 /\ f + 1 \in 1 .. e + 1
    BY <1>1, <1>6
<1>8. /\ \A m \in 1 .. e + 1 : start[m] \in Nat
      /\ \A m \in 1 .. e : s[m] \in Nat
    BY <1>6, Empty DEF e
<1>9. new \in [1 .. e + 2 -> Nat]
    BY <1>7, <1>8
<1> HIDE DEF new
<1>10. \A m \in 1 .. e + 1 : m \in 1 .. e \/ m = e + 1
    BY <1>1
<1>11. \A m \in 1 .. e + 2 : m \in 1 .. e + 1 \/ m = e + 2
    BY <1>1
<1>12. ASSUME NEW m \in 1 .. e + 1 PROVE new[m + 1] = new[m] + t[m] + 2
    <2>1. CASE m \in 1 .. e
        <3>1. m + 1 \in 1 .. e + 1
            BY <1>1, <2>1
        <3> QED BY <1>1, <1>6, <1>7, <2>1, <3>1
    <2>2. CASE m = e + 1
        <3>1. m + 1 = e + 2
            BY <1>1, <2>2
        <3> QED BY <1>1, <1>7, <2>2, <3>1
    <2> QED BY <1>10, <2>1, <2>2
<1>13. ASSUME NEW m \in 1 .. e + 2, NEW i \in 1 .. e + 2, m <= i PROVE new[m] <= new[i]
    <2>1. CASE i \in 1 .. e + 1
        <3>1. m \in 1 .. e + 1
            BY <1>1, <1>13, <2>1
        <3> QED BY <1>6, <1>7, <1>13, <2>1, <3>1
    <2>2. CASE i = e + 2 /\ m \in 1 .. e + 1
        <3>1. m <= e + 1
            BY <1>1, <2>2
        <3>2. start[m] <= start[e + 1]
            BY <1>6, <1>7, <2>2, <3>1
        <3> QED BY <1>7, <1>8, <2>2, <3>2
    <2>3. CASE i = e + 2 /\ m = e + 2
        BY <1>7, <1>8, <2>3
    <2> QED BY <1>11, <2>1, <2>2, <2>3
<1>14. ASSUME NEW m \in 1 .. e + 1, NEW i \in 1 .. l, b + i = new[m] + 1 PROVE u[i].size = t[m]
    <2>1. CASE m \in 1 .. e
        BY <1>1, <1>6, <1>7, <1>14, <2>1
    <2>2. CASE m = e + 1
        <3>1. start[f + 1] <= start[e + 1]
            BY <1>1, <1>6, <1>7
        <3>2. b + i = start[e + 1] + 1 /\ b + l <= start[e + 1]
            BY <1>6, <1>7, <1>14, <2>2, <3>1
        <3>3. b \in Nat /\ start[e + 1] \in Nat /\ i \in Nat /\ i <= l
            BY <1>2, <1>6, <1>7, <1>8
        <3> QED BY <1>2, <3>2, <3>3
    <2> QED BY <1>10, <2>1, <2>2
<1>15. ASSUME NEW m \in 1 .. e + 1, NEW i \in 1 .. Len(r), b + l + i = new[m] + 1 PROVE r[i].size = t[m]
    <2> DEFINE g == z + 2
    <2>0. g \in Nat /\ Len(r) = n + g
        BY <1>3, <1>5
    <2> HIDE DEF g
    <2>1. i \in 1 .. n \/ \E j \in 1 .. g : i = n + j
        BY <1>2, <2>0, Halves
    <2>2. CASE i \in 1 .. n /\ m \in 1 .. e
        <3>1. b + l + i = start[m] + 1 /\ r[i] = q[i] /\ t[m] = s[m]
            BY <1>1, <1>5, <1>7, <1>15, <2>2
        <3> QED BY <1>6, <2>2, <3>1
    <2>3. CASE i \in 1 .. n /\ m = e + 1
        <3>1. b + l + i = start[e + 1] + 1
            BY <1>7, <1>15, <2>3
        <3>2. b \in Nat /\ start[e + 1] \in Nat /\ i \in Nat /\ i <= n /\ b + l + n = start[e + 1]
            BY <1>2, <1>6, <1>7, <1>8, <2>3
        <3> QED BY <1>2, <3>1, <3>2
    <2>4. ASSUME NEW j \in 1 .. z + 2, i = n + j, m \in 1 .. e PROVE FALSE
        <3>1. m + 1 \in 1 .. e + 1 /\ m + 1 <= e + 1
            BY <1>1, <2>4
        <3>2. start[m] + s[m] + 2 <= start[e + 1]
            BY <1>6, <1>7, <2>4, <3>1
        <3>3. b + l + n + j = start[m] + 1
            <4>1. b + l + i = start[m] + 1
                BY <1>7, <1>15, <2>4
            <4> QED BY <1>2, <1>6, <2>4, <4>1
        <3>4. start[m] \in Nat /\ s[m] \in Nat /\ start[e + 1] \in Nat
            BY <1>7, <1>8, <2>4
        <3>5. b + l + n = start[e + 1] /\ b \in Nat
            BY <1>6
        <3>6. j \in Nat /\ j >= 1
            BY <2>4
        <3>7. start[m] + 1 = start[e + 1] + j
            BY <1>2, <3>3, <3>5, <3>6
        <3>8. start[m] < start[e + 1]
            BY <3>2, <3>4
        <3> QED BY <3>4, <3>6, <3>7, <3>8
    <2>5. ASSUME NEW j \in 1 .. z + 2, i = n + j, m = e + 1 PROVE r[i].size = t[m]
        BY <1>1, <1>3, <1>5, <2>5
    <2> QED BY <1>10, <2>1, <2>2, <2>3, <2>4, <2>5 DEF g
<1>16. b + l = new[f + 1] /\ b + l + Len(r) = new[e + 2] /\ new[f + 1] <= new[e + 2]
    <2>1. b + l = new[f + 1]
        BY <1>6, <1>7
    <2>2. b + l + Len(r) = new[e + 2]
        BY <1>2, <1>3, <1>5, <1>6, <1>7, <1>8
    <2>3. f + 1 \in 1 .. e + 2 /\ f + 1 <= e + 2
        BY <1>1, <1>6
    <2> QED BY <1>7, <1>13, <2>1, <2>2, <2>3
<1>17. /\ \A m \in 1 .. e + 1 : new[m + 1] = new[m] + t[m] + 2
       /\ \A m, i \in 1 .. e + 2 : m <= i => new[m] <= new[i]
       /\ \A m \in 1 .. e + 1 : \A i \in 1 .. l : b + i = new[m] + 1 => u[i].size = t[m]
       /\ \A m \in 1 .. e + 1 : \A i \in 1 .. Len(r) : b + l + i = new[m] + 1 => r[i].size = t[m]
    BY <1>12, <1>13, <1>14, <1>15
<1>18. Len(t) + 1 = e + 2 /\ e + 1 + 1 = e + 2
    BY <1>1
<1>19. MsgRow(new, t, u, r, b, f, "free")
    BY <1>1, <1>6, <1>9, <1>16, <1>17, <1>18 DEF MsgRow, l
<1>20. MsgRow(new, t, u, r, b, e + 1, "write")
    BY <1>1, <1>6, <1>9, <1>16, <1>17, <1>18 DEF MsgRow, l
<1> QED BY <1>7, <1>19, <1>20 DEF e, t, r, y

\* A client that ends.
LEMMA RowEnds ==
    ASSUME NEW s, NEW u, NEW q, NEW start, NEW b, NEW f, NEW pc, MsgRow(start, s, u, q, b, f, pc)
    PROVE  /\ pc \in {"free", "got"} => MsgRow(start, s, u, <<>>, b, f, "done")
           /\ MsgRow(start, s, u, <<>>, b, f, "dead")
<1>1. \A k \in 1 .. Len(<<>>) : FALSE
    OBVIOUS
<1> QED BY <1>1 DEF MsgRow

\* One that reads.
LEMMA RowGoes ==
    ASSUME NEW s, NEW u, NEW q, NEW start, NEW b, NEW f, NEW pc, MsgRow(start, s, u, q, b, f, pc),
           pc \in {"start", "free", "body", "got"}, NEW new \in {"free", "body", "got"}
    PROVE  MsgRow(start, s, u, q, b, f, new)
BY DEF MsgRow

\* What the callback heard.
LEMMA HeardIs ==
    ASSUME Msg!TypeOK, NEW c \in MsgClients
    PROVE  /\ Msg!Heard(c) \in Seq(Nat) /\ Len(Msg!Heard(c)) \in Nat
           /\ delivered[c] \in Seq(Nat) /\ Len(delivered[c]) \in Nat
           /\ (\A i \in 1 .. Len(delivered[c]) : delivered[c][i] # 0) => Msg!Heard(c) = delivered[c]
<1>1. delivered[c] \in Seq(Nat)
    BY DEF Msg!TypeOK
<1> DEFINE d == delivered[c]
<1>2. d \in Seq(Nat) /\ Len(d) \in Nat
    BY <1>1, Empty
<1> HIDE DEF d
<1>3. d # <<>> => Msg!Last(d) = d[Len(d)] /\ Len(d) \in 1 .. Len(d)
    BY <1>2, Empty DEF Msg!Last
<1>4. d # <<>> => Msg!Front(d) \in Seq(Nat)
    <2>1. SUFFICES ASSUME d # <<>> PROVE Msg!Front(d) \in Seq(Nat)
        OBVIOUS
    <2>2. Len(d) - 1 \in 0 .. Len(d)
        BY <1>2, <1>3, <2>1
    <2> QED BY <1>2, <2>2, Cut DEF Msg!Front
<1>5. Msg!Heard(c) = IF d # <<>> /\ Msg!Last(d) = 0 THEN Msg!Front(d) ELSE d
    BY DEF d, Msg!Heard
<1>6. Msg!Heard(c) \in Seq(Nat)
    BY <1>2, <1>4, <1>5
<1>7. (\A i \in 1 .. Len(d) : d[i] # 0) => Msg!Heard(c) = d
    BY <1>3, <1>5
<1> QED BY <1>2, <1>6, <1>7, Empty DEF d

\* An empty message is not heard, and another is.
LEMMA HeardMore ==
    ASSUME Msg!TypeOK, NEW c \in MsgClients, NEW m \in Nat,
           \A i \in 1 .. Len(delivered[c]) : delivered[c][i] # 0,
           delivered' = [delivered EXCEPT ![c] = Append(@, m)]
    PROVE  /\ m = 0 => Msg!Heard(c)' = Msg!Heard(c)
           /\ m # 0 => Msg!Heard(c)' = Append(Msg!Heard(c), m)
           /\ delivered'[c] = Append(delivered[c], m)
<1> DEFINE d == delivered[c]
           e == Append(d, m)
<1>1. d \in Seq(Nat) /\ Msg!Heard(c) = d
    BY HeardIs
<1>2. delivered'[c] = e
    BY DEF Msg!TypeOK
<1>3. d \in Seq(Nat)
    BY <1>1
<1> HIDE DEF d
<1>4. e \in Seq(Nat) /\ Len(e) = Len(d) + 1 /\ Len(d) \in Nat /\ e[Len(d) + 1] = m /\ e # <<>>
    BY <1>3, AppendProperties, Empty
<1>5. Msg!Front(e) = d
    <2> DEFINE n == Len(d)
               h == SubSeq(e, 1, n)
    <2>1. n \in 0 .. Len(e) /\ Len(e) - 1 = n
        BY <1>4
    <2>2. h \in Seq(Nat) /\ Len(h) = n /\ \A i \in 1 .. n : h[i] = e[i]
        BY <1>4, <2>1, Cut
    <2>3. \A i \in 1 .. n : e[i] = d[i]
        BY <1>3, AppendProperties
    <2>4. h = d
        <3> HIDE DEF h
        <3> QED BY <1>3, <2>2, <2>3, SeqEqual
    <2> QED BY <2>1, <2>4 DEF Msg!Front
<1>6. Msg!Last(e) = m
    BY <1>4 DEF Msg!Last
<1>7. Msg!Heard(c)' = IF delivered'[c] # <<>> /\ Msg!Last(delivered'[c]) = 0 THEN Msg!Front(delivered'[c]) ELSE delivered'[c]
    BY DEF Msg!Heard
<1> HIDE DEF e
<1>8. Msg!Heard(c)' = IF m = 0 THEN d ELSE e
    BY <1>2, <1>4, <1>5, <1>6, <1>7
<1> QED BY <1>1, <1>2, <1>8 DEF e, d

\* What a row has left when some of it has been read.
LEMMA RowLeaves ==
    ASSUME NEW u \in Seq(Msg!Pieces), NEW k \in 0 .. Len(u)
    PROVE  Msg!From(u, k) \in Seq(Msg!Pieces) /\ Len(Msg!From(u, k)) = Len(u) - k /\ Len(u) \in Nat
BY Cut DEF Msg!From

\* The smaller of two is one of them.
LEMMA MinWithin ==
    ASSUME NEW u \in Seq(Msg!Pieces), NEW a \in Nat
    PROVE  /\ Msg!Min({a, Len(u)}) \in 0 .. Len(u) /\ Msg!Min({a, Len(u)}) <= a
           /\ Msg!Min({a, Len(u)}) \in Nat
           /\ u # <<>> /\ a > 0 => Msg!Min({a, Len(u)}) > 0
           /\ Msg!Min({a, Len(u)}) = 0 /\ a > 0 => u = <<>>
           /\ Msg!Min({a, Len(u)}) = a \/ Msg!Min({a, Len(u)}) = Len(u)
<1> DEFINE l == Len(u)
<1>1. l \in Nat /\ (u # <<>> <=> l # 0)
    BY Empty
<1> HIDE DEF l
<1>2. Msg!Min({a, l}) = IF a <= l THEN a ELSE l
    BY <1>1, MinOfTwo
<1>3. /\ Msg!Min({a, l}) \in 0 .. l /\ Msg!Min({a, l}) <= a /\ Msg!Min({a, l}) \in Nat
      /\ u # <<>> /\ a > 0 => Msg!Min({a, l}) > 0
      /\ Msg!Min({a, l}) = 0 /\ a > 0 => u = <<>>
      /\ Msg!Min({a, l}) = a \/ Msg!Min({a, l}) = l
    BY <1>1, <1>2
<1> QED BY <1>3 DEF l

\* A client that closes.
LEMMA MsgClosed ==
    ASSUME Msg!TypeOK, NEW c \in MsgClients, Msg!Close(c)
    PROVE  /\ msgConn' \in [MsgClients -> {"none", "open", "closed", "hit", "reset"}]
           /\ msgDown' \in [MsgClients -> Seq(Msg!Pieces)]
           /\ msgDown'[c] = <<>> /\ msgConn'[c] \in {"hit", "closed"}
<1>1. <<>> \in Seq(Msg!Pieces)
    BY NoRow
<1> QED BY <1>1 DEF Msg!TypeOK, Msg!Close

\* The fields of the state a client is in.
LEMMA MsgClientTyped ==
    ASSUME Msg!TypeOK, NEW c \in MsgClients, NEW pc \in {"free", "write", "body", "got", "done", "dead"},
           NEW queue \in Seq(Msg!Pieces), NEW left \in Nat, NEW msg \in Nat, Msg!Client(c, pc, queue, left, msg)
    PROVE  /\ msgCl' \in [MsgClients -> [pc : {"start", "free", "write", "body", "got", "done", "dead"},
                              queue : Seq(Msg!Pieces), left : Nat, msg : Nat]]
           /\ msgCl'[c].pc = pc /\ msgCl'[c].queue = queue
           /\ msgCl'[c].left = left /\ msgCl'[c].msg = msg
           /\ \A d \in MsgClients \ {c} : msgCl'[d] = msgCl[d]
BY DEF Msg!TypeOK, Msg!Client

\* The fields of the state the server is in.
LEMMA MsgServerTyped ==
    ASSUME NEW c \in MsgClients, NEW pc \in {"body", "finish", "write", "killed"},
           NEW left \in Nat, NEW msg \in Nat, NEW out \in Seq(Msg!Pieces), Msg!At(pc, c, left, msg, out)
    PROVE  /\ msgSrv' \in [pc : {"select", "serve", "body", "finish", "write", "killed"},
                conn : SUBSET MsgClients, left : Nat, msg : Nat, out : Seq(Msg!Pieces)]
           /\ msgSrv'.pc = pc /\ msgSrv'.conn = {c} /\ msgSrv'.left = left
           /\ msgSrv'.msg = msg /\ msgSrv'.out = out
BY DEF Msg!At

\* The server goes to the next handle, or to select.
LEMMA MsgLoops ==
    ASSUME Msg!Loop
    PROVE  /\ msgSrv' \in [pc : {"select", "serve", "body", "finish", "write", "killed"},
                conn : SUBSET MsgClients, left : Nat, msg : Nat, out : Seq(Msg!Pieces)]
           /\ msgSrv'.pc \in {"select", "serve"} /\ msgSrv'.conn = {}
<1>1. <<>> \in Seq(Msg!Pieces)
    BY NoRow
<1> QED BY <1>1 DEF Msg!Loop

\* What a server's action leaves as it is.
LEMMA MsgServerTypes ==
    ASSUME Msg!MsgAssumption, Msg!TypeOK, NEW c \in MsgClients,
           Msg!Select \/ Msg!Serve(c)
    PROVE  Msg!TypeOK'
<1> USE DEF Msg!client
<1>1. CASE Msg!Select
    BY <1>1 DEF Msg!Select, Msg!TypeOK, Msg!Readable, Msg!Backlog
<1>2. CASE Msg!Accept(c)
    BY <1>2 DEF Msg!Accept, Msg!TypeOK
<1>3. CASE Msg!Header(c)
    <2> DEFINE k == Msg!Min({2, Len(msgUp[c])})
    <2>1. msgUp[c] \in Seq(Msg!Pieces) /\ <<>> \in Seq(Msg!Pieces)
        BY NoRow DEF Msg!TypeOK
    <2>2. k \in 0 .. Len(msgUp[c]) /\ Msg!From(msgUp[c], k) \in Seq(Msg!Pieces)
        BY <2>1, MinWithin, RowLeaves
    <2>3. k = 2 => Head(msgUp[c]).size \in Nat
        <3>1. k = 2 => msgUp[c] # <<>>
            BY <2>1, <2>2, Empty
        <3>2. msgUp[c] # <<>> => Head(msgUp[c]) \in Msg!Pieces
            BY <2>1
        <3> QED BY <3>1, <3>2 DEF Msg!Pieces
    <2> HIDE DEF k
    <2>4. /\ msgUp' = [msgUp EXCEPT ![c] = Msg!From(@, k)]
          /\ IF k = 2 /\ ~err THEN Msg!At("body", c, Head(msgUp[c]).size, 0, <<>>)
                              ELSE Msg!At("finish", c, 0, 0, <<>>)
          /\ UNCHANGED <<handles, sock, err, delivered, msgConn, msgDown, msgCl, sent, flushed, msgAnswers>>
          /\ ready' = ready \ {c}
        BY <1>3 DEF Msg!Header, k
    <2>5. msgSrv' \in [pc : {"select", "serve", "body", "finish", "write", "killed"},
                conn : SUBSET MsgClients, left : Nat, msg : Nat, out : Seq(Msg!Pieces)]
        BY <2>1, <2>3, <2>4, MsgServerTyped
    <2>6. msgUp' \in [MsgClients -> Seq(Msg!Pieces)]
        BY <2>2, <2>4 DEF Msg!TypeOK
    <2> QED BY <2>4, <2>5, <2>6 DEF Msg!TypeOK
<1>4. CASE Msg!Body(c)
    <2> DEFINE k == Msg!Min({msgSrv.left, Len(msgUp[c])})
    <2>1. msgUp[c] \in Seq(Msg!Pieces) /\ <<>> \in Seq(Msg!Pieces) /\ msgSrv.left \in Nat /\ msgSrv.msg \in Nat
        BY NoRow DEF Msg!TypeOK
    <2>2. k \in 0 .. Len(msgUp[c]) /\ k <= msgSrv.left /\ k \in Nat /\ Msg!From(msgUp[c], k) \in Seq(Msg!Pieces)
        BY <2>1, MinWithin, RowLeaves
    <2> HIDE DEF k
    <2>3. /\ \/ Msg!At("finish", c, 0, msgSrv.msg, <<>>) /\ msgUp' = msgUp
             \/ /\ msgUp' = [msgUp EXCEPT ![c] = Msg!From(@, k)]
                /\ \/ Msg!At("finish", c, 0, msgSrv.msg, <<>>)
                   \/ Msg!At("body", c, msgSrv.left - k, msgSrv.msg + k, <<>>)
          /\ UNCHANGED <<ready, handles, sock, err, delivered, msgConn, msgDown, msgCl, sent, flushed, msgAnswers>>
        BY <1>4 DEF Msg!Body, k
    <2>4. msgSrv.left - k \in Nat /\ msgSrv.msg + k \in Nat
        BY <2>1, <2>2
    <2>5. msgSrv' \in [pc : {"select", "serve", "body", "finish", "write", "killed"},
                conn : SUBSET MsgClients, left : Nat, msg : Nat, out : Seq(Msg!Pieces)]
        BY <2>1, <2>3, <2>4, MsgServerTyped
    <2>6. msgUp' \in [MsgClients -> Seq(Msg!Pieces)]
        BY <2>2, <2>3 DEF Msg!TypeOK
    <2> QED BY <2>3, <2>5, <2>6 DEF Msg!TypeOK
<1>5. CASE Msg!Finish(c)
    <2>1. Msg!Ok \in Seq(Msg!Pieces) /\ <<>> \in Seq(Msg!Pieces) /\ msgSrv.msg \in Nat
        BY NoRow, MessageIs DEF Msg!Ok, Msg!TypeOK
    <2>2. msgSrv' \in [pc : {"select", "serve", "body", "finish", "write", "killed"},
                conn : SUBSET MsgClients, left : Nat, msg : Nat, out : Seq(Msg!Pieces)]
        BY <1>5, <2>1, MsgLoops, MsgServerTyped DEF Msg!Finish
    <2>3. delivered' \in [MsgClients -> Seq(Nat)]
        BY <1>5, <2>1 DEF Msg!Finish, Msg!TypeOK
    <2>4. err' \in BOOLEAN /\ sock' \in [MsgClients -> {"none", "open", "closed"}] /\ handles' \subseteq MsgClients
        BY <1>5 DEF Msg!Finish, Msg!TypeOK, Msg!MsgAssumption
    <2>5. UNCHANGED <<ready, msgConn, msgUp, msgDown, msgCl, sent, flushed, msgAnswers>>
        BY <1>5 DEF Msg!Finish
    <2> QED BY <2>2, <2>3, <2>4, <2>5 DEF Msg!TypeOK
<1>6. CASE Msg!Write(c)
    <2>1. PICK k \in 1 .. Len(msgSrv.out) :
              /\ msgDown' = [msgDown EXCEPT ![c] = @ \o SubSeq(msgSrv.out, 1, k)]
              /\ IF k < Len(msgSrv.out) THEN Msg!At("write", c, 0, 0, Msg!From(msgSrv.out, k)) ELSE Msg!Loop
        BY <1>6 DEF Msg!Write
    <2>2. msgSrv.out \in Seq(Msg!Pieces) /\ msgDown[c] \in Seq(Msg!Pieces)
        BY DEF Msg!TypeOK
    <2>3. k \in 0 .. Len(msgSrv.out)
        BY <2>2, Empty
    <2>4. Msg!From(msgSrv.out, k) \in Seq(Msg!Pieces) /\ SubSeq(msgSrv.out, 1, k) \in Seq(Msg!Pieces)
        BY <2>2, <2>3, Cut DEF Msg!From
    <2>5. msgSrv' \in [pc : {"select", "serve", "body", "finish", "write", "killed"},
                conn : SUBSET MsgClients, left : Nat, msg : Nat, out : Seq(Msg!Pieces)]
        BY <2>1, <2>4, MsgLoops, MsgServerTyped
    <2>6. msgDown' \in [MsgClients -> Seq(Msg!Pieces)]
        <3>1. msgDown[c] \o SubSeq(msgSrv.out, 1, k) \in Seq(Msg!Pieces)
            BY <2>2, <2>4
        <3> QED BY <2>1, <3>1 DEF Msg!TypeOK
    <2>7. UNCHANGED <<ready, handles, sock, err, delivered, msgConn, msgUp, msgCl, sent, flushed, msgAnswers>>
        BY <1>6 DEF Msg!Write
    <2> QED BY <2>5, <2>6, <2>7 DEF Msg!TypeOK
<1>7. CASE Msg!WriteInVain(c)
    <2>1. PICK k \in 1 .. Len(msgSrv.out) :
              IF k < Len(msgSrv.out) THEN Msg!At("write", c, 0, 0, Msg!From(msgSrv.out, k)) ELSE Msg!Loop
        BY <1>7 DEF Msg!WriteInVain
    <2>2. msgSrv.out \in Seq(Msg!Pieces)
        BY DEF Msg!TypeOK
    <2>3. k \in 0 .. Len(msgSrv.out)
        BY <2>2, Empty
    <2>4. Msg!From(msgSrv.out, k) \in Seq(Msg!Pieces)
        BY <2>2, <2>3, RowLeaves
    <2>5. msgSrv' \in [pc : {"select", "serve", "body", "finish", "write", "killed"},
                conn : SUBSET MsgClients, left : Nat, msg : Nat, out : Seq(Msg!Pieces)]
        BY <2>1, <2>4, MsgLoops, MsgServerTyped
    <2> QED BY <1>7, <2>5 DEF Msg!TypeOK, Msg!WriteInVain
<1>8. CASE Msg!Killed(c)
    <2>1. msgSrv' \in [pc : {"select", "serve", "body", "finish", "write", "killed"},
                conn : SUBSET MsgClients, left : Nat, msg : Nat, out : Seq(Msg!Pieces)]
        BY <1>8, NoRow, MsgServerTyped DEF Msg!Killed
    <2> QED BY <1>8, <2>1 DEF Msg!TypeOK, Msg!Killed
<1> QED BY <1>1, <1>2, <1>3, <1>4, <1>5, <1>6, <1>7, <1>8 DEF Msg!Serve

\* The steps of a client keep the types.
LEMMA MsgClientTypes ==
    ASSUME Msg!MsgAssumption, Msg!TypeOK, NEW c \in MsgClients,
           Msg!Connect(c) \/ Msg!Run(c) \/ Msg!Kill(c) \/ Msg!Reset(c)
    PROVE  Msg!TypeOK'
<1> USE DEF Msg!server, Msg!client
<1>1. /\ msgCl[c].queue \in Seq(Msg!Pieces) /\ <<>> \in Seq(Msg!Pieces)
      /\ msgUp[c] \in Seq(Msg!Pieces) /\ msgDown[c] \in Seq(Msg!Pieces)
      /\ msgCl[c].left \in Nat /\ msgCl[c].msg \in Nat
      /\ sent[c] \in Seq(Nat) /\ Len(sent[c]) \in Nat /\ msgAnswers[c] \in Seq(Nat)
    BY NoRow, Empty DEF Msg!TypeOK
<1>2. CASE Msg!Connect(c)
    <2>1. msgCl' \in [MsgClients -> [pc : {"start", "free", "write", "body", "got", "done", "dead"},
                              queue : Seq(Msg!Pieces), left : Nat, msg : Nat]]
        BY <1>1, <1>2, MsgClientTyped DEF Msg!Connect
    <2> QED BY <1>2, <2>1 DEF Msg!TypeOK, Msg!Connect
<1>3. CASE Msg!SendNow(c) \/ Msg!SendLater(c)
    <2>1. PICK z \in Sizes :
              /\ \E pc \in {"free", "write"} : Msg!Client(c, pc, msgCl[c].queue \o Msg!Message(z), 0, 0)
              /\ sent' = [sent EXCEPT ![c] = Append(@, z)]
        BY <1>3 DEF Msg!SendNow, Msg!SendLater
    <2>2. z \in Nat
        BY DEF Msg!MsgAssumption
    <2>3. msgCl[c].queue \o Msg!Message(z) \in Seq(Msg!Pieces)
        <3>1. Msg!Message(z) \in Seq(Msg!Pieces)
            BY <2>2, MessageIs
        <3> QED BY <1>1, <3>1
    <2>4. msgCl' \in [MsgClients -> [pc : {"start", "free", "write", "body", "got", "done", "dead"},
                              queue : Seq(Msg!Pieces), left : Nat, msg : Nat]]
        BY <2>1, <2>3, MsgClientTyped
    <2>5. sent' \in [MsgClients -> Seq(Nat)]
        BY <1>1, <2>1, <2>2 DEF Msg!TypeOK
    <2>6. flushed' \in [MsgClients -> Nat]
        <3>1. flushed' = flushed \/ flushed' = [flushed EXCEPT ![c] = Len(sent[c]) + 1]
            BY <1>3 DEF Msg!SendNow, Msg!SendLater
        <3>2. Len(sent[c]) + 1 \in Nat
            BY <1>1
        <3> QED BY <3>1, <3>2 DEF Msg!TypeOK
    <2> QED BY <1>3, <2>4, <2>5, <2>6 DEF Msg!TypeOK, Msg!SendNow, Msg!SendLater
<1>4. CASE Msg!Push(c)
    <2> DEFINE q == msgCl[c].queue
    <2>1. PICK k \in 1 .. Len(q) :
              /\ msgUp' = [msgUp EXCEPT ![c] = @ \o SubSeq(q, 1, k)]
              /\ Msg!Client(c, IF k < Len(q) THEN "write" ELSE "free", Msg!From(q, k), 0, 0)
        BY <1>4 DEF Msg!Push
    <2>2. k \in 0 .. Len(q)
        BY <1>1, Empty
    <2>3. Msg!From(q, k) \in Seq(Msg!Pieces) /\ SubSeq(q, 1, k) \in Seq(Msg!Pieces)
        BY <1>1, <2>2, Cut DEF Msg!From
    <2>4. msgCl' \in [MsgClients -> [pc : {"start", "free", "write", "body", "got", "done", "dead"},
                              queue : Seq(Msg!Pieces), left : Nat, msg : Nat]]
        BY <2>1, <2>3, MsgClientTyped
    <2>5. msgUp' \in [MsgClients -> Seq(Msg!Pieces)]
        <3>1. msgUp[c] \o SubSeq(q, 1, k) \in Seq(Msg!Pieces)
            BY <1>1, <2>3
        <3> QED BY <2>1, <3>1 DEF Msg!TypeOK
    <2> QED BY <1>4, <2>4, <2>5 DEF Msg!TypeOK, Msg!Push
<1>5. CASE Msg!PushInVain(c)
    <2>1. msgCl' \in [MsgClients -> [pc : {"start", "free", "write", "body", "got", "done", "dead"},
                              queue : Seq(Msg!Pieces), left : Nat, msg : Nat]]
        <3>1. PICK pc \in {"free", "dead"} : Msg!Client(c, pc, <<>>, 0, 0)
            BY <1>5 DEF Msg!PushInVain
        <3>2. pc \in {"free", "write", "body", "got", "done", "dead"} /\ 0 \in Nat
            OBVIOUS
        <3> QED BY <1>1, <3>1, <3>2, MsgClientTyped
    <2> QED BY <1>5, <2>1 DEF Msg!TypeOK, Msg!PushInVain
<1>6. CASE Msg!ReadHeader(c)
    <2> DEFINE k == Msg!Min({2, Len(msgDown[c])})
    <2>1. k \in 0 .. Len(msgDown[c]) /\ Msg!From(msgDown[c], k) \in Seq(Msg!Pieces)
        BY <1>1, MinWithin, RowLeaves
    <2>2. k = 2 => Head(msgDown[c]).size \in Nat
        <3>1. k = 2 => msgDown[c] # <<>>
            BY <1>1, <2>1, Empty
        <3>2. msgDown[c] # <<>> => Head(msgDown[c]) \in Msg!Pieces
            BY <1>1
        <3> QED BY <3>1, <3>2 DEF Msg!Pieces
    <2> HIDE DEF k
    <2>3. /\ msgDown' = [msgDown EXCEPT ![c] = Msg!From(@, k)]
          /\ \/ k = 2 /\ Msg!Client(c, "body", msgCl[c].queue, Head(msgDown[c]).size, 0)
             \/ Msg!Client(c, "got", msgCl[c].queue, 0, 0)
        BY <1>6 DEF Msg!ReadHeader, k
    <2>4. msgCl' \in [MsgClients -> [pc : {"start", "free", "write", "body", "got", "done", "dead"},
                              queue : Seq(Msg!Pieces), left : Nat, msg : Nat]]
        BY <1>1, <2>2, <2>3, MsgClientTyped
    <2>5. msgDown' \in [MsgClients -> Seq(Msg!Pieces)]
        BY <2>1, <2>3 DEF Msg!TypeOK
    <2> QED BY <1>6, <2>4, <2>5 DEF Msg!TypeOK, Msg!ReadHeader
<1>7. CASE Msg!ReadBody(c)
    <2> DEFINE k == Msg!Min({msgCl[c].left, Len(msgDown[c])})
    <2>1. k \in 0 .. Len(msgDown[c]) /\ k <= msgCl[c].left /\ k \in Nat /\ Msg!From(msgDown[c], k) \in Seq(Msg!Pieces)
        BY <1>1, MinWithin, RowLeaves
    <2> HIDE DEF k
    <2>2. /\ msgDown' = [msgDown EXCEPT ![c] = Msg!From(@, k)]
          /\ Msg!Client(c, IF k \in {0, msgCl[c].left} THEN "got" ELSE "body", msgCl[c].queue,
                 msgCl[c].left - k, msgCl[c].msg + k)
        BY <1>7 DEF Msg!ReadBody, k
    <2>3. msgCl[c].left - k \in Nat /\ msgCl[c].msg + k \in Nat
        BY <1>1, <2>1
    <2>4. msgCl' \in [MsgClients -> [pc : {"start", "free", "write", "body", "got", "done", "dead"},
                              queue : Seq(Msg!Pieces), left : Nat, msg : Nat]]
        BY <1>1, <2>2, <2>3, MsgClientTyped
    <2>5. msgDown' \in [MsgClients -> Seq(Msg!Pieces)]
        BY <2>1, <2>2 DEF Msg!TypeOK
    <2> QED BY <1>7, <2>4, <2>5 DEF Msg!TypeOK, Msg!ReadBody
<1>8. CASE Msg!Got(c)
    <2>1. msgCl' \in [MsgClients -> [pc : {"start", "free", "write", "body", "got", "done", "dead"},
                              queue : Seq(Msg!Pieces), left : Nat, msg : Nat]]
        BY <1>1, <1>8, MsgClientTyped DEF Msg!Got
    <2>2. /\ msgConn' \in [MsgClients -> {"none", "open", "closed", "hit", "reset"}]
          /\ msgDown' \in [MsgClients -> Seq(Msg!Pieces)]
        BY <1>8, MsgClosed DEF Msg!Got, Msg!TypeOK
    <2>3. msgAnswers' \in [MsgClients -> Seq(Nat)]
        <3>1. msgAnswers' = msgAnswers \/ msgAnswers' = [msgAnswers EXCEPT ![c] = Append(@, msgCl[c].msg)]
            BY <1>8 DEF Msg!Got
        <3>2. Append(msgAnswers[c], msgCl[c].msg) \in Seq(Nat)
            BY <1>1
        <3> QED BY <3>1, <3>2 DEF Msg!TypeOK
    <2> QED BY <1>8, <2>1, <2>2, <2>3 DEF Msg!TypeOK, Msg!Got
<1>9. CASE Msg!Leave(c) \/ Msg!Kill(c)
    <2>1. msgCl' \in [MsgClients -> [pc : {"start", "free", "write", "body", "got", "done", "dead"},
                              queue : Seq(Msg!Pieces), left : Nat, msg : Nat]]
        BY <1>1, <1>9, MsgClientTyped DEF Msg!Leave, Msg!Kill
    <2>2. /\ msgConn' \in [MsgClients -> {"none", "open", "closed", "hit", "reset"}]
          /\ msgDown' \in [MsgClients -> Seq(Msg!Pieces)]
        BY <1>9, MsgClosed DEF Msg!Leave, Msg!Kill
    <2> QED BY <1>9, <2>1, <2>2 DEF Msg!TypeOK, Msg!Leave, Msg!Kill
<1>10. CASE Msg!Reset(c)
    BY <1>10 DEF Msg!TypeOK, Msg!Reset
<1> QED BY <1>2, <1>3, <1>4, <1>5, <1>6, <1>7, <1>8, <1>9, <1>10 DEF Msg!Run

\* Every step of Msg keeps the types.
LEMMA MsgTyped ==
    ASSUME Msg!MsgAssumption, Msg!TypeOK, [Msg!Next]_Msg!vars
    PROVE  Msg!TypeOK'
<1>1. CASE UNCHANGED Msg!vars
    <2>1. UNCHANGED <<msgSrv, ready, handles, sock, err, delivered, msgConn, msgUp, msgDown, msgCl,
                      sent, flushed, msgAnswers>>
        BY <1>1 DEF Msg!vars
    <2> QED BY <2>1 DEF Msg!TypeOK
<1>2. CASE Msg!Next
    <2>1. ASSUME NEW c \in MsgClients, Msg!Connect(c) \/ Msg!Run(c) \/ Msg!Kill(c) \/ Msg!Reset(c)
          PROVE  Msg!TypeOK'
        BY <2>1, MsgClientTypes
    <2>2. ASSUME NEW c \in MsgClients, Msg!Serve(c) PROVE Msg!TypeOK'
        BY <2>2, MsgServerTypes
    <2>3. CASE Msg!Select
        BY <2>3 DEF Msg!Select, Msg!TypeOK, Msg!Readable, Msg!Backlog, Msg!client
    <2> QED BY <1>2, <2>1, <2>2, <2>3 DEF Msg!Next
<1> QED BY <1>1, <1>2

-----------------------------------------------------------------------------
\* A step that is not about d.
MsgAway(d) == ~MsgAt(d, "body") /\ ~MsgAt(d, "finish") /\ ~MsgAt(d, "write")
MsgSame(d) ==
    /\ delivered'[d] = delivered[d] /\ sock'[d] = sock[d] /\ msgConn'[d] = msgConn[d]
    /\ msgUp'[d] = msgUp[d] /\ msgDown'[d] = msgDown[d] /\ msgCl'[d] = msgCl[d]
    /\ sent'[d] = sent[d] /\ flushed'[d] = flushed[d] /\ msgAnswers'[d] = msgAnswers[d]

\* What a step does not touch of a client remains true of it.
LEMMA MsgOthers ==
    ASSUME NEW d \in MsgClients, MsgFor(d), MsgSame(d),
           \/ msgSrv' = msgSrv
           \/ MsgAway(d) /\ MsgAway(d)' /\ msgSrv.pc # "killed",
           d \in ready' => d \in ready \/ msgConn[d] # "none"
    PROVE  MsgFor(d)'
<1>1. Msg!Heard(d)' = Msg!Heard(d)
    BY DEF MsgSame, Msg!Heard
<1>2. \A pc \in {"body", "finish", "write"} : MsgAt(d, pc)' <=> MsgAt(d, pc)
    BY DEF MsgAway, MsgAt
<1>3. MsgAt(d, "body") \/ MsgAt(d, "finish") \/ MsgAt(d, "write") => msgSrv' = msgSrv
    BY DEF MsgAway
<1>4. msgSrv'.pc # "killed" => msgSrv.pc # "killed"
    OBVIOUS
<1>5. MsgFine(d)'
    BY DEF MsgSame, MsgFine, MsgFor
<1>6. MsgSilent(d)' = MsgSilent(d)
    BY DEF MsgSame, MsgSilent
<1>7. MsgOver(d)' <=> MsgOver(d)
    BY <1>2, <1>3, <1>6 DEF MsgOver
<1>8. MsgRead(d)'
    BY <1>1, <1>2, <1>3, <1>6, <1>7 DEF MsgSame, MsgRead, MsgFor
<1>9. ASSUME NEW start PROVE MsgFlow(d, start)' <=> MsgFlow(d, start)
    <2>1. MsgBase(d, start)' = MsgBase(d, start)
        BY <1>1, <1>2, <1>3 DEF MsgBase
    <2> QED BY <1>1, <1>2, <1>3, <2>1 DEF MsgFlow, MsgSame
<1>10. MsgStream(d)'
    BY <1>2, <1>3, <1>4, <1>6, <1>7, <1>9 DEF MsgStream, MsgSame, MsgFor
<1>11. MsgPaid(d)'
    <2>1. MsgReading(d)' = MsgReading(d)
        BY DEF MsgReading, MsgSame
    <2>2. MsgWriting(d)' = MsgWriting(d)
        BY <1>2, <1>3 DEF MsgWriting
    <2> QED BY <1>1, <1>2, <1>3, <2>1, <2>2 DEF MsgPaid, MsgSame, MsgFor
<1>12. MsgPolite(d)'
    BY <1>1, <1>2, <1>3 DEF MsgPolite, MsgSame, MsgFor
<1> QED BY <1>5, <1>8, <1>10, <1>11, <1>12 DEF MsgFor

\* The steps the event loop makes, and those of its clients.
LEMMA MsgKinds ==
    ASSUME Msg!MsgAssumption, Msg!TypeOK, NEW c \in MsgClients
    PROVE  /\ msgCl[c].queue \in Seq(Msg!Pieces) /\ Len(msgCl[c].queue) \in Nat
           /\ msgUp[c] \in Seq(Msg!Pieces) /\ Len(msgUp[c]) \in Nat
           /\ msgDown[c] \in Seq(Msg!Pieces) /\ Len(msgDown[c]) \in Nat
           /\ msgSrv.out \in Seq(Msg!Pieces) /\ Len(msgSrv.out) \in Nat
           /\ msgCl[c].left \in Nat /\ msgCl[c].msg \in Nat
           /\ msgSrv.left \in Nat /\ msgSrv.msg \in Nat
           /\ sent[c] \in Seq(Nat) /\ Len(sent[c]) \in Nat
           /\ msgAnswers[c] \in Seq(Nat) /\ Len(msgAnswers[c]) \in Nat
           /\ Msg!Heard(c) \in Seq(Nat) /\ Len(Msg!Heard(c)) \in Nat
           /\ flushed[c] \in Nat /\ Requests \in Nat
BY HeardIs, Empty DEF Msg!TypeOK, Msg!MsgAssumption

\* select.
LEMMA MsgSelects ==
    ASSUME Msg!MsgAssumption, MsgInv, Msg!Select
    PROVE  MsgInv'
<1>1. Msg!TypeOK'
    BY MsgTyped DEF MsgInv, Msg!Next
<1>2. /\ msgSrv.pc = "select" /\ msgSrv'.pc = "serve" /\ msgSrv'.conn = msgSrv.conn /\ msgSrv.conn = {}
      /\ \A d \in ready' : (d \in handles \/ msgConn[d] # "none") /\ d \in MsgClients
      /\ UNCHANGED <<handles, sock, err, delivered, msgConn, msgUp, msgDown, msgCl, sent, flushed, msgAnswers>>
    BY DEF MsgInv, MsgOpen, Msg!Select, Msg!Readable, Msg!Backlog, Msg!TypeOK, Msg!client
<1>3. ASSUME NEW d \in MsgClients PROVE MsgFor(d)'
    <2>1. MsgAway(d) /\ MsgAway(d)'
        BY <1>2 DEF MsgAway, MsgAt
    <2>2. MsgSame(d)
        BY <1>2 DEF MsgSame
    <2>3. d \in ready' => msgConn[d] # "none"
        BY <1>2 DEF MsgInv, MsgOpen, MsgFor, MsgFine
    <2> QED BY <1>2, <2>1, <2>2, <2>3, MsgOthers DEF MsgInv
<1>4. MsgOpen'
    BY <1>2 DEF MsgInv, MsgOpen
<1> QED BY <1>1, <1>2, <1>3, <1>4 DEF MsgInv

\* A step of the server that serves c: the others are not concerned.
LEMMA MsgOthersServed ==
    ASSUME Msg!MsgAssumption, MsgInv, NEW c \in MsgClients, Msg!Serve(c),
           MsgFor(c)', MsgOpen', Requests = 1 /\ ~Splits /\ Cap >= 3 => msgSrv'.pc # "killed"
    PROVE  MsgInv'
<1> USE DEF Msg!client
<1>1. Msg!TypeOK'
    BY MsgTyped DEF MsgInv, Msg!Next
<1>2. ASSUME NEW d \in MsgClients \ {c} PROVE MsgFor(d)'
    <2>1. MsgSame(d)
        <3> USE DEF MsgInv, Msg!TypeOK, MsgSame
        <3>1. CASE Msg!Accept(c)
            BY <3>1 DEF Msg!Accept
        <3>2. CASE Msg!Header(c)
            BY <3>2 DEF Msg!Header
        <3>3. CASE Msg!Body(c)
            BY <3>3 DEF Msg!Body
        <3>4. CASE Msg!Finish(c)
            BY <3>4 DEF Msg!Finish
        <3>5. CASE Msg!Write(c)
            BY <3>5 DEF Msg!Write
        <3>6. CASE Msg!WriteInVain(c)
            BY <3>6 DEF Msg!WriteInVain
        <3>7. CASE Msg!Killed(c)
            BY <3>7 DEF Msg!Killed
        <3> QED BY <3>1, <3>2, <3>3, <3>4, <3>5, <3>6, <3>7 DEF Msg!Serve
    <2>2. ready' \subseteq ready
        BY DEF Msg!Serve, Msg!Accept, Msg!Header, Msg!Body, Msg!Finish, Msg!Write, Msg!WriteInVain, Msg!Killed
    <2>3. /\ msgSrv.pc \in {"serve", "body", "finish", "write"}
          /\ msgSrv.pc \in {"body", "finish", "write"} => c \in msgSrv.conn
        BY DEF Msg!Serve, Msg!Accept, Msg!Header, Msg!Body, Msg!Finish, Msg!Write, Msg!WriteInVain, Msg!Killed
    <2>4. MsgAway(d)
        BY <2>3 DEF MsgAway, MsgAt, MsgInv, MsgOpen
    <2>5. MsgAway(d)'
        <3>1. msgSrv'.conn = {c} \/ msgSrv'.pc \in {"select", "serve"}
            <4>1. CASE Msg!Accept(c)
                BY <4>1 DEF Msg!Accept, MsgInv, Msg!TypeOK
            <4>2. CASE Msg!Header(c) \/ Msg!Body(c) \/ Msg!Killed(c)
                BY <4>2 DEF Msg!Header, Msg!Body, Msg!Killed, Msg!At
            <4>3. CASE Msg!Finish(c) \/ Msg!Write(c) \/ Msg!WriteInVain(c)
                <5>1. Msg!Loop \/ \E pc, left, msg, out : Msg!At(pc, c, left, msg, out)
                    BY <4>3 DEF Msg!Finish, Msg!Write, Msg!WriteInVain
                <5> QED BY <5>1 DEF Msg!At, Msg!Loop
            <4> QED BY <4>1, <4>2, <4>3 DEF Msg!Serve
        <3> QED BY <3>1 DEF MsgAway, MsgAt
    <2> QED BY <2>1, <2>2, <2>3, <2>4, <2>5, MsgOthers DEF MsgInv
<1> QED BY <1>1, <1>2 DEF MsgInv

\* A step of a client: the others are not concerned, nor is the server.
LEMMA MsgOthersRun ==
    ASSUME Msg!MsgAssumption, MsgInv, NEW c \in MsgClients,
           Msg!Connect(c) \/ Msg!Run(c) \/ Msg!Kill(c) \/ Msg!Reset(c), MsgFor(c)'
    PROVE  MsgInv'
<1> USE DEF Msg!client, Msg!server
<1>1. Msg!TypeOK'
    BY MsgTyped DEF MsgInv, Msg!Next
<1>2. msgSrv' = msgSrv /\ ready' = ready /\ handles' = handles /\ sock' = sock /\ delivered' = delivered
    BY DEF Msg!Connect, Msg!Run, Msg!SendNow, Msg!SendLater, Msg!Push, Msg!PushInVain, Msg!ReadHeader,
           Msg!ReadBody, Msg!Got, Msg!Leave, Msg!Kill, Msg!Reset
<1>3. ASSUME NEW d \in MsgClients \ {c} PROVE MsgFor(d)'
    <2>1. MsgSame(d)
        <3> USE <1>2 DEF MsgInv, Msg!TypeOK, MsgSame, Msg!Client, Msg!Close
        <3>1. CASE Msg!Connect(c)
            BY <3>1 DEF Msg!Connect
        <3>2. CASE Msg!SendNow(c)
            BY <3>2 DEF Msg!SendNow
        <3>3. CASE Msg!SendLater(c)
            BY <3>3 DEF Msg!SendLater
        <3>4. CASE Msg!Push(c)
            BY <3>4 DEF Msg!Push
        <3>5. CASE Msg!PushInVain(c)
            BY <3>5 DEF Msg!PushInVain
        <3>6. CASE Msg!ReadHeader(c)
            BY <3>6 DEF Msg!ReadHeader
        <3>7. CASE Msg!ReadBody(c)
            BY <3>7 DEF Msg!ReadBody
        <3>8. CASE Msg!Got(c)
            BY <3>8 DEF Msg!Got
        <3>9. CASE Msg!Leave(c) \/ Msg!Kill(c)
            BY <3>9 DEF Msg!Leave, Msg!Kill
        <3>10. CASE Msg!Reset(c)
            BY <3>10 DEF Msg!Reset
        <3> QED BY <3>1, <3>2, <3>3, <3>4, <3>5, <3>6, <3>7, <3>8, <3>9, <3>10 DEF Msg!Run
    <2> QED BY <1>2, <2>1, MsgOthers DEF MsgInv
<1>4. MsgOpen'
    BY <1>2 DEF MsgInv, MsgOpen
<1> QED BY <1>1, <1>2, <1>3, <1>4 DEF MsgInv

\* Nothing cut is heard but of a client that is dead.
LEMMA MsgAccepts ==
    ASSUME Msg!MsgAssumption, MsgInv, NEW c \in MsgClients, Msg!Accept(c)
    PROVE  MsgInv'
<1> USE DEF Msg!client
<1>1. /\ msgSrv.pc = "serve" /\ c \in ready /\ sock[c] = "none" /\ sock'[c] = "open"
      /\ handles' = handles \cup {c} /\ sock' = [sock EXCEPT ![c] = "open"]
      /\ msgSrv'.pc \in {"select", "serve"} /\ msgSrv'.conn = msgSrv.conn /\ msgSrv.conn = {}
      /\ UNCHANGED <<err, delivered, msgConn, msgUp, msgDown, msgCl, sent, flushed, msgAnswers>>
    BY DEF MsgInv, MsgOpen, Msg!Accept, Msg!TypeOK
<1>2. MsgAway(c) /\ MsgAway(c)'
    BY <1>1 DEF MsgAway, MsgAt
<1>3. Msg!Heard(c)' = Msg!Heard(c)
    BY <1>1 DEF Msg!Heard
<1>4. MsgFor(c)
    BY DEF MsgInv
<1>5. MsgFine(c)'
    BY <1>1, <1>4 DEF MsgFor, MsgFine
<1>6. MsgSilent(c)' = MsgSilent(c)
    BY <1>1 DEF MsgSilent
<1>7. MsgOver(c)' <=> MsgOver(c)
    BY <1>2, <1>6 DEF MsgOver, MsgAway
<1>8. MsgRead(c)'
    BY <1>1, <1>2, <1>3, <1>4, <1>6, <1>7 DEF MsgRead, MsgFor, MsgAway
<1>9. ASSUME NEW start PROVE MsgFlow(c, start)' <=> MsgFlow(c, start)
    BY <1>1, <1>2, <1>3 DEF MsgFlow, MsgAway, MsgBase
<1>10. MsgStream(c)'
    BY <1>1, <1>2, <1>4, <1>7, <1>9 DEF MsgStream, MsgFor, MsgAway
<1>11. MsgPaid(c)'
    BY <1>1, <1>2, <1>3, <1>4 DEF MsgPaid, MsgFor, MsgAway, MsgReading, MsgWriting
<1>12. MsgPolite(c)'
    BY <1>1, <1>2, <1>3, <1>4 DEF MsgPolite, MsgFor, MsgAway
<1>13. MsgOpen'
    BY <1>1 DEF MsgOpen, MsgInv, Msg!TypeOK
<1> QED BY <1>1, <1>5, <1>8, <1>10, <1>11, <1>12, <1>13, MsgOthersServed DEF MsgFor, Msg!Serve

\* _recv reads of a header.
LEMMA MsgReadsHeader ==
    ASSUME Msg!MsgAssumption, MsgInv, NEW c \in MsgClients, Msg!Header(c)
    PROVE  MsgInv'
<1> USE DEF Msg!client
<1> DEFINE u == msgUp[c]
           k == Msg!Min({2, Len(u)})
           H == Len(Msg!Heard(c))
           s == sent[c]
           f == flushed[c]
<1>1. /\ u \in Seq(Msg!Pieces) /\ H \in Nat /\ s \in Seq(Nat) /\ f \in Nat /\ Len(s) \in Nat
      /\ msgCl[c].queue \in Seq(Msg!Pieces)
    BY MsgKinds DEF MsgInv
<1>2. k \in 0 .. Len(u) /\ Len(u) \in Nat /\ k <= 2 /\ k \in Nat
    BY <1>1, MinWithin, Empty
<1>3. u = <<>> => k = 0
    BY <1>2, Empty
<1>4. k = 2 => Head(u) = u[1] /\ 1 \in 1 .. Len(u) /\ 2 <= Len(u) /\ Head(u) \in Msg!Pieces
    <2>1. k = 2 => u # <<>> /\ 1 \in 1 .. Len(u) /\ 2 <= Len(u)
        BY <1>1, <1>2, Empty
    <2>2. u # <<>> => Head(u) = u[1] /\ Head(u) \in Msg!Pieces
        BY <1>1
    <2> QED BY <2>1, <2>2
<1> HIDE DEF k
<1>5. /\ msgSrv.pc = "serve" /\ c \in ready /\ sock[c] = "open" /\ msgSrv.conn = {}
      /\ UNCHANGED <<handles, sock, err, delivered, msgConn, msgDown, msgCl, sent, flushed, msgAnswers>>
      /\ msgUp' = [msgUp EXCEPT ![c] = Msg!From(u, k)] /\ ready' \subseteq ready
      /\ \/ k = 2 /\ Msg!At("body", c, Head(u).size, 0, <<>>)
         \/ Msg!At("finish", c, 0, 0, <<>>)
    BY DEF Msg!Header, MsgInv, MsgOpen, k
<1>6. msgUp'[c] = Msg!From(u, k)
    BY <1>5 DEF MsgInv, Msg!TypeOK
<1>7. /\ msgSrv'.conn = {c}
      /\ \/ k = 2 /\ msgSrv'.pc = "body" /\ msgSrv'.left = Head(u).size /\ msgSrv'.msg = 0
         \/ msgSrv'.pc = "finish" /\ msgSrv'.msg = 0
    BY <1>5 DEF Msg!At
<1>8. MsgAway(c) /\ ~MsgAt(c, "write")'
    BY <1>5, <1>7 DEF MsgAway, MsgAt
<1>9. Msg!Heard(c)' = Msg!Heard(c)
    BY <1>5 DEF Msg!Heard
<1>10. MsgFor(c)
    BY DEF MsgInv
<1>11. MsgFine(c)'
    BY <1>5, <1>10 DEF MsgFor, MsgFine
<1>12. MsgOver(c) => MsgOver(c)'
    <2>1. SUFFICES ASSUME MsgOver(c) PROVE MsgOver(c)'
        OBVIOUS
    <2>2. u = <<>>
        BY <2>1 DEF MsgOver, MsgSilent
    <2>3. Msg!From(u, k) = <<>>
        <3>1. k = Len(u)
            BY <1>1, <1>3, <2>2, Empty
        <3>2. Msg!From(u, k) \in Seq(Msg!Pieces) /\ Len(Msg!From(u, k)) = 0
            <4>1. Msg!From(u, k) \in Seq(Msg!Pieces) /\ Len(Msg!From(u, k)) = Len(u) - k
                BY <1>1, <1>2, RowLeaves
            <4> QED BY <1>2, <3>1, <4>1
        <3> QED BY <3>2, Empty
    <2> QED BY <1>3, <1>5, <1>6, <1>7, <2>1, <2>2, <2>3 DEF MsgOver, MsgSilent, MsgAt
<1>13. MsgRead(c)'
    BY <1>5, <1>7, <1>9, <1>10, <1>12 DEF MsgRead, MsgFor, MsgAt
<1>14. MsgStream(c)'
    <2>1. CASE MsgOver(c)
        BY <1>12, <2>1 DEF MsgStream
    <2>2. CASE msgSrv'.pc = "finish"
        BY <1>7, <2>2 DEF MsgStream, MsgAt
    <2>3. CASE ~MsgOver(c) /\ msgSrv'.pc = "body"
        <3>1. PICK start : MsgFlow(c, start)
            BY <1>5, <1>8, <1>10, <2>3 DEF MsgFor, MsgStream, MsgAway
        <3>2. MsgBase(c, start) = start[H + 1]
            BY <1>8 DEF MsgBase, MsgAway
        <3> DEFINE b == start[H + 1]
        <3>3. MsgRow(start, s, u, msgCl[c].queue, b, f, msgCl[c].pc)
            BY <3>1, <3>2 DEF MsgFlow
        <3>4. H <= f /\ f <= Len(s)
            BY <1>10 DEF MsgFor, MsgRead, MsgFine
        <3>5. /\ start \in [1 .. Len(s) + 1 -> Nat] /\ b + Len(u) <= start[f + 1]
              /\ \A i, m \in 1 .. Len(s) + 1 : i <= m => start[i] <= start[m]
            BY <3>3 DEF MsgRow
        <3>6. H + 1 \in 1 .. Len(s) + 1 /\ f + 1 \in 1 .. Len(s) + 1
            BY <1>1, <3>4
        <3>7. H + 1 <= f
            <4>1. CASE f = H
                <5>1. b \in Nat
                    BY <3>5, <3>6
                <5> QED BY <1>2, <1>4, <1>7, <2>3, <3>5, <4>1, <5>1
            <4> QED BY <1>1, <3>4, <4>1
        <3>8. k = 2 /\ msgSrv'.left = Head(u).size
            BY <1>7, <2>3
        <3>9. Head(u).size = s[H + 1]
            <4>1. H + 1 \in 1 .. Len(s) /\ b + 1 = start[H + 1] + 1
                BY <1>1, <3>4, <3>7
            <4> HIDE DEF b
            <4> QED BY <1>4, <3>3, <3>8, <4>1 DEF MsgRow
        <3>10. s[H + 1] \in Nat
            BY <1>1, <3>4, <3>7, Empty
        <3>11. f \in 0 .. Len(s)
            BY <1>1, <3>4
        <3>12. MsgRow(start, s, Msg!From(u, k), msgCl[c].queue, b + k, f, msgCl[c].pc)
            <4> HIDE DEF b
            <4> QED BY <1>1, <1>2, <3>3, <3>11, RowTakes
        <3>13. MsgAt(c, "body")' /\ ~MsgAt(c, "finish")'
            BY <1>7, <2>3 DEF MsgAt
        <3>14. MsgBase(c, start)' = b + k
            <4>1. MsgBase(c, start)' = start[H + 1] + 2 + 0
                BY <1>7, <1>9, <2>3, <3>13 DEF MsgBase
            <4>2. b \in Nat
                BY <3>5, <3>6
            <4> QED BY <3>8, <4>1, <4>2
        <3>15. MsgFlow(c, start)'
            <4>1. msgSrv'.msg + msgSrv'.left = s[H + 1]
                BY <1>7, <2>3, <3>8, <3>9, <3>10
            <4> QED BY <1>5, <1>6, <1>9, <3>7, <3>12, <3>13, <3>14, <4>1 DEF MsgFlow
        <3> QED BY <3>15 DEF MsgStream
    <2> QED BY <1>7, <2>1, <2>2, <2>3
<1>15. MsgPaid(c)'
    BY <1>5, <1>8, <1>9, <1>10 DEF MsgPaid, MsgFor, MsgAway, MsgReading, MsgWriting
<1>16. MsgPolite(c)'
    BY <1>5, <1>8, <1>9, <1>10 DEF MsgPolite, MsgFor, MsgAway
<1>17. MsgOpen'
    BY <1>5, <1>7 DEF MsgOpen, MsgInv, Msg!TypeOK
<1> QED BY <1>7, <1>11, <1>13, <1>14, <1>15, <1>16, <1>17, MsgOthersServed DEF MsgFor, Msg!Serve

\* _recv reads of a body.
LEMMA MsgReadsBody ==
    ASSUME Msg!MsgAssumption, MsgInv, NEW c \in MsgClients, Msg!Body(c)
    PROVE  MsgInv'
<1> USE DEF Msg!client
<1> DEFINE u == msgUp[c]
           k == Msg!Min({msgSrv.left, Len(u)})
           H == Len(Msg!Heard(c))
           s == sent[c]
           f == flushed[c]
<1>1. /\ u \in Seq(Msg!Pieces) /\ H \in Nat /\ s \in Seq(Nat) /\ f \in Nat /\ Len(s) \in Nat
      /\ msgCl[c].queue \in Seq(Msg!Pieces) /\ msgSrv.left \in Nat /\ msgSrv.msg \in Nat
    BY MsgKinds DEF MsgInv
<1>2. k \in 0 .. Len(u) /\ Len(u) \in Nat /\ k \in Nat /\ k <= msgSrv.left
      /\ (k = 0 /\ msgSrv.left > 0 => u = <<>>)
    BY <1>1, MinWithin, Empty
<1> HIDE DEF k
<1>3. /\ msgSrv.pc = "body" /\ c \in msgSrv.conn /\ ready' = ready
      /\ UNCHANGED <<handles, sock, err, delivered, msgConn, msgDown, msgCl, sent, flushed, msgAnswers>>
      /\ \/ msgSrv.left = 0 /\ Msg!At("finish", c, 0, msgSrv.msg, <<>>) /\ msgUp' = msgUp
         \/ /\ msgSrv.left # 0 /\ (u # <<>> \/ msgConn[c] # "open")
            /\ msgUp' = [msgUp EXCEPT ![c] = Msg!From(u, k)]
            /\ \/ k = 0 /\ Msg!At("finish", c, 0, msgSrv.msg, <<>>)
               \/ k # 0 /\ Msg!At("body", c, msgSrv.left - k, msgSrv.msg + k, <<>>)
    BY DEF Msg!Body, k
<1>4. sock[c] = "open" /\ msgSrv.conn = {c}
    BY <1>3 DEF MsgInv, MsgOpen
<1>5. MsgAt(c, "body") /\ ~MsgAt(c, "finish") /\ ~MsgAt(c, "write")
    BY <1>3 DEF MsgAt
<1>6. msgSrv'.conn = {c} /\ ~MsgAt(c, "write")'
    BY <1>3 DEF Msg!At, MsgAt
<1>7. Msg!Heard(c)' = Msg!Heard(c)
    BY <1>3 DEF Msg!Heard
<1>8. MsgFor(c)
    BY DEF MsgInv
<1>9. ~MsgOver(c)
    BY <1>5 DEF MsgOver
<1>10. PICK start : MsgFlow(c, start)
    BY <1>3, <1>4, <1>5, <1>8, <1>9 DEF MsgFor, MsgStream
<1> DEFINE b == start[H + 1] + 2 + msgSrv.msg
<1>11. /\ MsgRow(start, s, u, msgCl[c].queue, b, f, msgCl[c].pc)
       /\ H + 1 <= f /\ msgSrv.msg + msgSrv.left = s[H + 1]
    BY <1>5, <1>10 DEF MsgFlow, MsgBase
<1>12. f <= Len(s)
    BY <1>8 DEF MsgFor, MsgFine
<1>13. /\ H + 1 \in 1 .. Len(s) /\ H + 1 \in 1 .. Len(s) + 1 /\ H + 2 \in 1 .. Len(s) + 1
       /\ f + 1 \in 1 .. Len(s) + 1 /\ H + 2 <= f + 1 /\ f \in 0 .. Len(s) /\ (H + 1) + 1 = H + 2
    <2> DEFINE l == Len(s)
    <2>1. H \in Nat /\ f \in Nat /\ l \in Nat /\ H + 1 <= f /\ f <= l
        BY <1>1, <1>11, <1>12
    <2>2. /\ H + 1 \in 1 .. l /\ H + 1 \in 1 .. l + 1 /\ H + 2 \in 1 .. l + 1
          /\ f + 1 \in 1 .. l + 1 /\ H + 2 <= f + 1 /\ f \in 0 .. l /\ (H + 1) + 1 = H + 2
        <3> HIDE DEF H, f, l
        <3> QED BY <2>1
    <2> QED BY <2>2
<1>14. /\ start[H + 1] \in Nat /\ start[H + 2] \in Nat /\ start[f + 1] \in Nat /\ s[H + 1] \in Nat
       /\ start[H + 2] = start[H + 1] + s[H + 1] + 2 /\ start[H + 2] <= start[f + 1]
       /\ msgCl[c].pc \notin {"write", "dead"} => b + Len(u) = start[f + 1]
    <2>1. /\ start \in [1 .. Len(s) + 1 -> Nat]
          /\ \A m \in 1 .. Len(s) : start[m + 1] = start[m] + s[m] + 2
          /\ \A m, i \in 1 .. Len(s) + 1 : m <= i => start[m] <= start[i]
          /\ msgCl[c].pc \notin {"write", "dead"} => b + Len(u) = start[f + 1]
        BY <1>11 DEF MsgRow
    <2>2. s[H + 1] \in Nat
        BY <1>1, <1>13, Empty
    <2> QED BY <1>13, <2>1, <2>2
<1>15. \A i \in 1 .. H : Msg!Heard(c)[i] = s[i]
    BY <1>8, <1>9 DEF MsgFor, MsgRead
<1>16. H <= f
    BY <1>8 DEF MsgFor, MsgRead
<1>17. MsgFine(c)'
    BY <1>3, <1>8 DEF MsgFor, MsgFine
<1>18. MsgPaid(c)'
    BY <1>3, <1>5, <1>6, <1>7, <1>8 DEF MsgPaid, MsgFor, MsgReading, MsgWriting
<1>19. MsgPolite(c)'
    BY <1>3, <1>5, <1>6, <1>7, <1>8 DEF MsgPolite, MsgFor
<1>20. MsgRead(c)' /\ MsgStream(c)'
    <2>1. CASE msgSrv.left = 0
        <3>1. msgSrv'.pc = "finish" /\ msgSrv'.msg = msgSrv.msg /\ msgUp' = msgUp
            BY <1>3, <2>1 DEF Msg!At
        <3>2. MsgAt(c, "finish")' /\ ~MsgAt(c, "body")'
            BY <1>6, <3>1 DEF MsgAt
        <3>3. msgSrv.msg = s[H + 1]
            <4>1. msgSrv.msg + 0 = s[H + 1]
                BY <1>11, <2>1
            <4>2. msgSrv.msg \in Nat
                BY <1>1
            <4> QED BY <4>1, <4>2
        <3>4. MsgRead(c)'
            BY <1>3, <1>7, <1>11, <1>15, <1>16, <3>1, <3>3 DEF MsgRead
        <3>5. MsgBase(c, start)' = start[H + 2]
            BY <1>7, <3>2 DEF MsgBase
        <3>6. b = start[H + 2]
            BY <1>1, <1>14, <3>3
        <3>7. MsgFlow(c, start)'
            <4> HIDE DEF b
            <4> QED BY <1>3, <1>7, <1>11, <3>1, <3>2, <3>3, <3>5, <3>6 DEF MsgFlow
        <3> QED BY <3>4, <3>7 DEF MsgStream
    <2>2. CASE msgSrv.left # 0 /\ k = 0
        <3>1. msgSrv'.pc = "finish" /\ msgSrv'.msg = msgSrv.msg /\ msgUp' = [msgUp EXCEPT ![c] = Msg!From(u, k)]
            BY <1>3, <2>2 DEF Msg!At
        <3>2. MsgAt(c, "finish")' /\ ~MsgAt(c, "body")'
            BY <1>6, <3>1 DEF MsgAt
        <3>3. u = <<>> /\ Len(u) = 0
            BY <1>1, <1>2, <2>2, Empty
        <3>4. msgUp'[c] = <<>>
            <4>1. Msg!From(u, k) \in Seq(Msg!Pieces) /\ Len(Msg!From(u, k)) = Len(u) - k
                BY <1>1, <1>2, RowLeaves
            <4>2. Len(Msg!From(u, k)) = 0
                BY <1>2, <2>2, <3>3, <4>1
            <4>3. Msg!From(u, k) = <<>>
                BY <4>1, <4>2, Empty
            <4> QED BY <3>1, <4>3 DEF MsgInv, Msg!TypeOK
        <3>5. msgConn[c] \in {"closed", "hit", "reset"}
            <4>1. msgConn[c] # "open"
                BY <1>3, <2>2, <3>3
            <4>2. msgConn[c] # "none"
                BY <1>4, <1>8 DEF MsgFor, MsgFine
            <4>3. msgConn[c] \in {"none", "open", "closed", "hit", "reset"}
                BY DEF MsgInv, Msg!TypeOK
            <4> QED BY <4>1, <4>2, <4>3
        <3>6. msgCl[c].pc \in {"done", "dead"}
            BY <1>8, <3>5 DEF MsgFor, MsgFine
        <3>7. msgSrv.msg < s[H + 1]
            <4> DEFINE x == s[H + 1]
            <4>1. x \in Nat /\ msgSrv.msg \in Nat /\ msgSrv.left \in Nat
                BY <1>1, <1>14
            <4>2. msgSrv.msg + msgSrv.left = x /\ msgSrv.left # 0
                BY <1>11, <2>2
            <4> HIDE DEF x
            <4>3. msgSrv.msg < x
                BY <4>1, <4>2
            <4> QED BY <4>3 DEF x
        <3>8. msgCl[c].pc = "dead"
            <4>1. CASE msgCl[c].pc = "done"
                <5> DEFINE l == Len(u)
                           x == s[H + 1]
                           e == start[f + 1]
                           g == start[H + 1]
                <5>1. b + l = e /\ l = 0
                    BY <1>14, <3>3, <4>1
                <5>2. /\ g + x + 2 <= e /\ msgSrv.msg < x /\ b = g + 2 + msgSrv.msg
                      /\ g \in Nat /\ x \in Nat /\ msgSrv.msg \in Nat /\ e \in Nat
                    BY <1>1, <1>14, <3>7
                <5> HIDE DEF l, x, e, g
                <5>3. b \in Nat
                    BY <5>2
                <5> HIDE DEF b
                <5> QED BY <5>1, <5>2, <5>3
            <4> QED BY <3>6, <4>1
        <3>9. MsgSilent(c)'
            BY <1>3, <3>4, <3>8 DEF MsgSilent
        <3>10. MsgRead(c)'
            BY <1>3, <1>7, <1>11, <1>15, <1>16, <3>1, <3>7, <3>9 DEF MsgRead
        <3> QED BY <3>2, <3>9, <3>10 DEF MsgStream
    <2>3. CASE msgSrv.left # 0 /\ k # 0
        <3>1. /\ msgSrv'.pc = "body" /\ msgSrv'.msg = msgSrv.msg + k /\ msgSrv'.left = msgSrv.left - k
              /\ msgUp' = [msgUp EXCEPT ![c] = Msg!From(u, k)]
            BY <1>3, <2>3 DEF Msg!At
        <3>2. ~MsgAt(c, "finish")' /\ MsgAt(c, "body")'
            BY <1>6, <3>1 DEF MsgAt
        <3>3. msgUp'[c] = Msg!From(u, k)
            BY <3>1 DEF MsgInv, Msg!TypeOK
        <3>4. MsgRead(c)'
            BY <1>3, <1>7, <1>15, <1>16, <3>2 DEF MsgRead
        <3>5. MsgBase(c, start)' = b + k
            <4>1. MsgBase(c, start)' = start[H + 1] + 2 + (msgSrv.msg + k)
                BY <1>7, <3>1, <3>2 DEF MsgBase
            <4> QED BY <1>1, <1>2, <1>14, <4>1
        <3>6. msgSrv'.msg + msgSrv'.left = s[H + 1]
            BY <1>1, <1>2, <1>11, <1>14, <3>1
        <3>7. MsgRow(start, s, Msg!From(u, k), msgCl[c].queue, b + k, f, msgCl[c].pc)
            <4> HIDE DEF b
            <4> QED BY <1>1, <1>2, <1>11, <1>13, RowTakes
        <3>8. MsgFlow(c, start)'
            <4> HIDE DEF b
            <4> QED BY <1>3, <1>7, <1>11, <3>2, <3>3, <3>5, <3>6, <3>7 DEF MsgFlow
        <3> QED BY <3>4, <3>8 DEF MsgStream
    <2> QED BY <2>1, <2>2, <2>3
<1>21. MsgOpen'
    BY <1>3, <1>4, <1>6 DEF MsgOpen, MsgInv, Msg!At
<1> QED BY <1>3, <1>17, <1>18, <1>19, <1>20, <1>21, MsgOthersServed DEF MsgFor, Msg!Serve, Msg!At

\* The empty message: the end.
LEMMA MsgEnds ==
    ASSUME Msg!MsgAssumption, MsgInv, NEW c \in MsgClients, Msg!Finish(c), msgSrv.msg = 0
    PROVE  MsgInv'
<1> USE DEF Msg!client
<1>1. /\ msgSrv.pc = "finish" /\ c \in msgSrv.conn /\ ready' = ready
      /\ UNCHANGED <<msgConn, msgUp, msgDown, msgCl, sent, flushed, msgAnswers>>
      /\ sock' = [sock EXCEPT ![c] = "closed"] /\ handles' = handles \ {c} /\ Msg!Loop
      /\ delivered' = [delivered EXCEPT ![c] = Append(@, 0)]
    BY DEF Msg!Finish
<1>2. sock[c] = "open" /\ msgSrv.conn = {c} /\ sock'[c] = "closed"
    BY <1>1 DEF MsgInv, MsgOpen, Msg!TypeOK
<1>3. MsgFor(c)
    BY DEF MsgInv
<1>4. \A i \in 1 .. Len(delivered[c]) : delivered[c][i] # 0
    BY <1>2, <1>3 DEF MsgFor, MsgFine
<1>5. Msg!Heard(c)' = Msg!Heard(c) /\ delivered'[c] = Append(delivered[c], 0)
    <2> DEFINE x == msgSrv.msg
    <2>1. x \in Nat /\ x = 0
        BY MsgKinds DEF MsgInv
    <2>2. delivered' = [delivered EXCEPT ![c] = Append(@, x)]
        BY <1>1
    <2> HIDE DEF x
    <2>3. Msg!Heard(c)' = Msg!Heard(c) /\ delivered'[c] = Append(delivered[c], x)
        BY <1>4, <2>1, <2>2, HeardMore DEF MsgInv
    <2> QED BY <2>1, <2>3
<1>6. msgSrv'.pc \in {"select", "serve"} /\ msgSrv'.conn = {}
    BY <1>1, MsgLoops
<1>7. MsgAway(c)' /\ MsgAt(c, "finish") /\ ~MsgAt(c, "body") /\ ~MsgAt(c, "write")
    BY <1>1, <1>6 DEF MsgAway, MsgAt
<1>8. MsgFine(c)'
    <2> DEFINE d == delivered[c]
               e == Append(d, 0)
    <2>1. d \in Seq(Nat)
        BY DEF MsgInv, Msg!TypeOK
    <2> HIDE DEF d
    <2>2. Len(e) = Len(d) + 1 /\ Len(d) \in Nat /\ \A i \in 1 .. Len(d) : e[i] = d[i]
        BY <2>1, Appended
    <2> HIDE DEF e
    <2>3. \A i \in 1 .. Len(d) : d[i] # 0
        BY <1>4 DEF d
    <2>4. \A i \in 1 .. Len(e) : e[i] = 0 => i = Len(e)
        <3>1. \A i \in 1 .. Len(e) : i # Len(e) => i \in 1 .. Len(d)
            BY <2>2
        <3> QED BY <2>2, <2>3, <3>1
    <2>5. delivered'[c] = e
        BY <1>5 DEF d, e
    <2> QED BY <1>1, <1>2, <1>3, <2>4, <2>5 DEF MsgFor, MsgFine
<1>9. MsgOver(c) => MsgOver(c)'
    BY <1>1, <1>7 DEF MsgOver, MsgSilent, MsgAway
<1>10. MsgRead(c)'
    BY <1>1, <1>3, <1>5, <1>7, <1>9 DEF MsgRead, MsgFor, MsgAway
<1>11. MsgStream(c)'
    BY <1>2 DEF MsgStream
<1>12. MsgPaid(c)'
    BY <1>1, <1>3, <1>5, <1>7 DEF MsgPaid, MsgFor, MsgAway, MsgReading, MsgWriting
<1>13. MsgPolite(c)'
    BY <1>1, <1>3, <1>5, <1>7 DEF MsgPolite, MsgFor, MsgAway
<1>14. MsgOpen'
    <2>1. handles' = {d \in MsgClients : sock'[d] = "open"}
        BY <1>1 DEF MsgOpen, MsgInv, Msg!TypeOK
    <2> QED BY <1>6, <2>1 DEF MsgOpen
<1> QED BY <1>6, <1>8, <1>10, <1>11, <1>12, <1>13, <1>14, MsgOthersServed DEF MsgFor, Msg!Serve

\* A message is heard, and answered.
LEMMA MsgHears ==
    ASSUME Msg!MsgAssumption, MsgInv, NEW c \in MsgClients, Msg!Finish(c), msgSrv.msg # 0
    PROVE  MsgInv'
<1> USE DEF Msg!client
<1> DEFINE h == Msg!Heard(c)
           H == Len(h)
           s == sent[c]
           f == flushed[c]
           x == msgSrv.msg
<1>1. /\ H \in Nat /\ s \in Seq(Nat) /\ f \in Nat /\ Len(s) \in Nat /\ h \in Seq(Nat) /\ x \in Nat
      /\ Requests \in Nat /\ Len(msgDown[c]) \in Nat /\ Len(msgAnswers[c]) \in Nat
      /\ msgDown[c] \in Seq(Msg!Pieces) /\ msgCl[c].msg \in Nat
    BY MsgKinds DEF MsgInv
<1>2. /\ msgSrv.pc = "finish" /\ c \in msgSrv.conn /\ ready' = ready
      /\ UNCHANGED <<sock, handles, msgConn, msgUp, msgDown, msgCl, sent, flushed, msgAnswers>>
      /\ Msg!At("write", c, 0, 0, Msg!Ok)
      /\ delivered' = [delivered EXCEPT ![c] = Append(@, x)]
    BY DEF Msg!Finish
<1>3. sock[c] = "open" /\ msgSrv.conn = {c}
    BY <1>2 DEF MsgInv, MsgOpen
<1>4. MsgFor(c)
    BY DEF MsgInv
<1>5. \A i \in 1 .. Len(delivered[c]) : delivered[c][i] # 0
    BY <1>3, <1>4 DEF MsgFor, MsgFine
<1>6. Msg!Heard(c)' = Append(h, x) /\ delivered'[c] = Append(delivered[c], x)
    BY <1>1, <1>2, <1>5, HeardMore DEF MsgInv
<1>7. Len(Append(h, x)) = H + 1 /\ Append(h, x)[H + 1] = x /\ \A i \in 1 .. H : Append(h, x)[i] = h[i]
    BY <1>1, Appended
<1>8. msgSrv'.pc = "write" /\ msgSrv'.conn = {c} /\ msgSrv'.out = Msg!Ok
    BY <1>2 DEF Msg!At
<1>9. /\ MsgAt(c, "finish") /\ ~MsgAt(c, "body") /\ ~MsgAt(c, "write")
      /\ ~MsgAt(c, "finish")' /\ ~MsgAt(c, "body")' /\ MsgAt(c, "write")'
    BY <1>2, <1>8 DEF MsgAt
<1>10. MsgFine(c)'
    <2> DEFINE d == delivered[c]
               e == Append(d, x)
    <2>1. d \in Seq(Nat)
        BY DEF MsgInv, Msg!TypeOK
    <2> HIDE DEF d
    <2>2. Len(e) = Len(d) + 1 /\ Len(d) \in Nat /\ e[Len(d) + 1] = x /\ \A i \in 1 .. Len(d) : e[i] = d[i]
        BY <1>1, <2>1, Appended
    <2> HIDE DEF e
    <2>3. \A i \in 1 .. Len(d) : d[i] # 0
        BY <1>5 DEF d
    <2>4. \A i \in 1 .. Len(e) : e[i] # 0
        <3>1. \A i \in 1 .. Len(e) : i = Len(d) + 1 \/ i \in 1 .. Len(d)
            BY <2>2
        <3> QED BY <2>2, <2>3, <3>1
    <2>5. delivered'[c] = e
        BY <1>6 DEF d, e
    <2> QED BY <1>2, <1>4, <2>4, <2>5 DEF MsgFor, MsgFine
<1>11. ~MsgOver(c)
    BY <1>9 DEF MsgOver
<1>12. /\ H + 1 <= f /\ (x = s[H + 1] \/ (x < s[H + 1] /\ MsgSilent(c)))
       /\ \A i \in 1 .. H : h[i] = s[i]
    BY <1>1, <1>4, <1>9, <1>11 DEF MsgFor, MsgRead
<1>13. MsgSilent(c) => MsgOver(c)'
    BY <1>2, <1>9 DEF MsgOver, MsgSilent
<1>14. MsgRead(c)'
    <2>1. Len(Msg!Heard(c)') = H + 1 /\ H + 1 <= flushed'[c]
        BY <1>2, <1>6, <1>7, <1>12
    <2>2. ASSUME NEW i \in 1 .. H + 1
          PROVE  \/ Msg!Heard(c)'[i] = sent'[c][i]
                 \/ i = H + 1 /\ Msg!Heard(c)'[i] < sent'[c][i] /\ MsgOver(c)'
        <3>1. i \in 1 .. H \/ i = H + 1
            BY <1>1
        <3> QED BY <1>2, <1>6, <1>7, <1>12, <1>13, <3>1
    <2> QED BY <1>9, <2>1, <2>2 DEF MsgRead
<1>15. MsgStream(c)'
    <2>1. CASE MsgSilent(c)
        BY <1>13, <2>1 DEF MsgStream
    <2>2. CASE ~MsgSilent(c)
        <3>1. PICK start : MsgFlow(c, start)
            BY <1>2, <1>3, <1>4, <1>11, <2>2 DEF MsgFor, MsgStream
        <3>2. MsgBase(c, start) = start[H + 2]
            BY <1>9 DEF MsgBase
        <3>3. MsgBase(c, start)' = start[H + 2]
            <4>1. Len(Msg!Heard(c)') + 1 = H + 2
                BY <1>1, <1>6, <1>7
            <4> QED BY <1>9, <4>1 DEF MsgBase
        <3>4. MsgFlow(c, start)'
            BY <1>2, <1>9, <3>1, <3>2, <3>3 DEF MsgFlow
        <3> QED BY <3>4 DEF MsgStream
    <2> QED BY <2>1, <2>2
<1>16. Len(Msg!Ok) = 3 /\ \A i \in 1 .. Len(Msg!Ok) : Msg!Ok[i].size = 1
    <2>1. Len(Msg!Message(1)) = 1 + 2 /\ \A i \in 1 .. 1 + 2 : Msg!Message(1)[i].size = 1
        BY MessageIs
    <2> QED BY <2>1 DEF Msg!Ok
<1>17. MsgReading(c) \in Nat /\ MsgReading(c)' = MsgReading(c)
    BY <1>1, <1>2 DEF MsgReading
<1>18. MsgPaid(c)'
    <2>1. MsgWriting(c) = 0 /\ MsgWriting(c)' = 3
        BY <1>8, <1>9, <1>16 DEF MsgWriting
    <2> DEFINE a == Len(msgDown[c])
               n == Len(msgAnswers[c])
               r == MsgReading(c)
    <2>2. a + 3 * n + r + 0 <= 3 * H
        BY <1>4, <2>1 DEF MsgFor, MsgPaid
    <2>3. a \in Nat /\ n \in Nat /\ r \in Nat /\ H \in Nat
        BY <1>1, <1>17
    <2> HIDE DEF a, n, r, H
    <2>4. a + 3 * n + r + 3 <= 3 * (H + 1)
        BY <2>2, <2>3
    <2>5. Len(Msg!Heard(c)') = H + 1
        BY <1>6, <1>7
    <2>6. Len(msgDown'[c]) = a /\ Len(msgAnswers'[c]) = n /\ MsgReading(c)' = r
        BY <1>2, <1>17 DEF a, n, r
    <2>7. Len(msgDown[c])' + 3 * Len(msgAnswers[c])' + MsgReading(c)' + MsgWriting(c)' <= 3 * Len(Msg!Heard(c)')
        BY <2>1, <2>4, <2>5, <2>6
    <2> QED BY <1>2, <1>4, <1>8, <1>16, <2>7 DEF MsgFor, MsgPaid
<1>19. MsgPolite(c)'
    <2>1. SUFFICES ASSUME Requests = 1, ~Splits, Cap >= 3
                   PROVE  /\ msgConn'[c] \notin {"hit", "reset"}
                          /\ Len(Msg!Heard(c)') >= 1 /\ Len(msgSrv'.out) = 3 /\ msgDown'[c] = <<>>
        BY <1>9 DEF MsgPolite
    <2>2. f <= Len(s) /\ Len(s) <= Requests
        BY <1>4 DEF MsgFor, MsgFine
    <2>3. H = 0
        BY <1>1, <1>12, <2>1, <2>2
    <2>4. msgConn[c] \notin {"hit", "reset"}
        BY <1>4, <2>1, <2>3 DEF MsgFor, MsgPolite
    <2>5. msgDown[c] = <<>>
        <3> DEFINE a == Len(msgDown[c])
                   n == Len(msgAnswers[c])
                   r == MsgReading(c)
        <3>1. a + 3 * n + r + 0 <= 3 * H
            BY <1>4, <1>9 DEF MsgFor, MsgPaid, MsgWriting
        <3>2. a \in Nat /\ n \in Nat /\ r \in Nat
            BY <1>1, <1>17
        <3> HIDE DEF a, n, r, H
        <3>3. a = 0
            BY <2>3, <3>1, <3>2
        <3> QED BY <1>1, <3>3, Empty DEF a
    <2> QED BY <1>1, <1>2, <1>6, <1>7, <1>8, <1>16, <2>4, <2>5
<1>20. MsgOpen'
    BY <1>2, <1>3, <1>8 DEF MsgOpen, MsgInv
<1> QED BY <1>8, <1>10, <1>14, <1>15, <1>18, <1>19, <1>20, MsgOthersServed DEF MsgFor, Msg!Serve

\* What an answer leaves as it is.
LEMMA MsgWrites ==
    ASSUME Msg!MsgAssumption, MsgInv, NEW c \in MsgClients, Msg!Write(c) \/ Msg!WriteInVain(c) \/ Msg!Killed(c)
    PROVE  /\ msgSrv.pc = "write" /\ msgSrv.conn = {c} /\ sock[c] = "open"
           /\ UNCHANGED <<ready, handles, sock, err, delivered, msgUp, msgCl, sent, flushed, msgAnswers>>
           /\ Msg!Heard(c)' = Msg!Heard(c)
           /\ MsgAt(c, "write") /\ ~MsgAt(c, "finish") /\ ~MsgAt(c, "body")
           /\ ~MsgAt(c, "finish")' /\ ~MsgAt(c, "body")'
           /\ MsgRead(c)' /\ MsgStream(c)' /\ MsgOpen'
<1> USE DEF Msg!client
<1>1. /\ msgSrv.pc = "write" /\ c \in msgSrv.conn
      /\ UNCHANGED <<ready, handles, sock, err, delivered, msgUp, msgCl, sent, flushed, msgAnswers>>
    BY DEF Msg!Write, Msg!WriteInVain, Msg!Killed
<1>2. \/ Msg!Loop
      \/ \E out : Msg!At("write", c, 0, 0, out) \/ Msg!At("killed", c, 0, 0, out)
    BY DEF Msg!Write, Msg!WriteInVain, Msg!Killed
<1>3. \/ msgSrv'.conn = {} /\ msgSrv'.pc \in {"select", "serve"}
      \/ msgSrv'.conn = {c} /\ msgSrv'.pc \in {"write", "killed"}
    BY <1>2 DEF Msg!Loop, Msg!At
<1>4. msgSrv.conn = {c} /\ sock[c] = "open"
    BY <1>1 DEF MsgInv, MsgOpen
<1>5. Msg!Heard(c)' = Msg!Heard(c)
    BY <1>1 DEF Msg!Heard
<1>6. /\ MsgAt(c, "write") /\ ~MsgAt(c, "finish") /\ ~MsgAt(c, "body")
      /\ ~MsgAt(c, "finish")' /\ ~MsgAt(c, "body")'
    BY <1>1, <1>3 DEF MsgAt
<1>7. MsgSilent(c)' = MsgSilent(c)
    BY <1>1 DEF MsgSilent
<1>8. MsgOver(c)' <=> MsgOver(c)
    BY <1>6, <1>7 DEF MsgOver
<1>9. MsgFor(c)
    BY DEF MsgInv
<1>10. MsgRead(c)'
    BY <1>1, <1>5, <1>6, <1>8, <1>9 DEF MsgRead, MsgFor
<1>11. ASSUME NEW start PROVE MsgFlow(c, start)' <=> MsgFlow(c, start)
    BY <1>1, <1>5, <1>6 DEF MsgFlow, MsgBase
<1>12. MsgStream(c)'
    BY <1>1, <1>6, <1>8, <1>9, <1>11 DEF MsgStream, MsgFor
<1>13. MsgOpen'
    BY <1>1, <1>3, <1>4 DEF MsgOpen, MsgInv
<1> QED BY <1>1, <1>4, <1>5, <1>6, <1>10, <1>12, <1>13

\* What is left to write.
LEMMA MsgWritesMore ==
    ASSUME Msg!MsgAssumption, MsgInv, NEW c \in MsgClients, msgSrv.pc = "write", msgSrv.conn = {c},
           NEW k \in 1 .. Len(msgSrv.out),
           IF k < Len(msgSrv.out) THEN Msg!At("write", c, 0, 0, Msg!From(msgSrv.out, k)) ELSE Msg!Loop
    PROVE  /\ MsgWriting(c)' + k = Len(msgSrv.out) /\ MsgWriting(c)' \in Nat
           /\ MsgAt(c, "write")' => \A i \in 1 .. Len(msgSrv'.out) : msgSrv'.out[i].size = 1
           /\ k = Len(msgSrv.out) => ~MsgAt(c, "write")'
           /\ msgSrv'.pc # "killed" /\ k \in Nat /\ k >= 1
<1> DEFINE o == msgSrv.out
           n == Len(o)
           v == Msg!From(o, k)
<1>1. o \in Seq(Msg!Pieces) /\ n \in Nat
    BY MsgKinds DEF MsgInv
<1>2. k \in 0 .. Len(o) /\ k \in 0 .. n /\ k \in Nat /\ k >= 1 /\ k <= n
    BY <1>1
<1>3. v \in Seq(Msg!Pieces) /\ Len(v) = n - k /\ \A i \in 1 .. n - k : v[i] = o[k + i]
    BY <1>1, <1>2, Cut DEF Msg!From
<1>4. \A i \in 1 .. n : o[i].size = 1
    <2>1. MsgAt(c, "write")
        BY DEF MsgAt
    <2> QED BY <2>1 DEF MsgInv, MsgFor, MsgPaid
<1>5. CASE k < n
    <2>1. msgSrv'.pc = "write" /\ msgSrv'.conn = {c} /\ msgSrv'.out = v
        BY <1>5 DEF Msg!At
    <2>2. MsgAt(c, "write")'
        BY <2>1 DEF MsgAt
    <2>3. MsgWriting(c)' = Len(v)
        BY <2>1, <2>2 DEF MsgWriting
    <2> HIDE DEF v, n
    <2>4. \A i \in 1 .. Len(v) : v[i].size = 1
        <3>1. \A i \in 1 .. n - k : k + i \in 1 .. n
            BY <1>1, <1>2
        <3> QED BY <1>3, <1>4, <3>1
    <2>5. Len(v) + k = n /\ Len(v) \in Nat /\ k # n
        BY <1>1, <1>2, <1>3, <1>5
    <2> QED BY <1>2, <2>1, <2>2, <2>3, <2>4, <2>5 DEF n
<1>6. CASE k = n
    <2>1. ~(k < n)
        BY <1>2, <1>6
    <2>2. msgSrv'.pc \in {"select", "serve"} /\ msgSrv'.conn = {}
        BY <2>1, MsgLoops
    <2>3. ~MsgAt(c, "write")' /\ MsgWriting(c)' = 0
        BY <2>2 DEF MsgAt, MsgWriting
    <2> QED BY <1>2, <1>6, <2>2, <2>3
<1> QED BY <1>1, <1>2, <1>5, <1>6

\* A syswrite.
LEMMA MsgOneWrite ==
    ASSUME Msg!MsgAssumption, ~Splits, Cap >= 3, NEW b, b = <<>>, NEW s \in Seq(Msg!Pieces), Len(s) = 3,
           NEW k, Msg!Takes(b, s, k)
    PROVE  k = Len(s)
<1>1. Cap \in Nat /\ Len(b) = 0 /\ Cap - 0 = Cap
    BY DEF Msg!MsgAssumption
<1>2. k = Msg!Min({3, Cap})
    BY <1>1 DEF Msg!Takes
<1>3. Msg!Min({3, Cap}) = IF 3 <= Cap THEN 3 ELSE Cap
    BY <1>1, MinOfTwo
<1> QED BY <1>1, <1>2, <1>3

\* The server has written one answer more.
LEMMA MsgAnswersMore ==
    ASSUME Msg!MsgAssumption, MsgInv, NEW c \in MsgClients, Msg!Write(c) \/ Msg!WriteInVain(c)
    PROVE  MsgInv'
<1> USE DEF Msg!client
<1> DEFINE o == msgSrv.out
           d == msgDown[c]
<1>1. PICK k \in 1 .. Len(o) :
          /\ IF k < Len(o) THEN Msg!At("write", c, 0, 0, Msg!From(o, k)) ELSE Msg!Loop
          /\ \/ /\ Msg!Takes(d, o, k) /\ msgDown' = [msgDown EXCEPT ![c] = @ \o SubSeq(o, 1, k)]
                /\ msgConn' = msgConn /\ msgConn[c] = "open"
             \/ /\ Msg!Takes(<<>>, o, k) /\ msgDown' = msgDown
                /\ msgConn' = [msgConn EXCEPT ![c] = "hit"] /\ msgConn[c] \in {"closed", "hit"}
    BY DEF Msg!Write, Msg!WriteInVain
<1>2. /\ msgSrv.pc = "write" /\ msgSrv.conn = {c} /\ sock[c] = "open"
      /\ UNCHANGED <<ready, handles, sock, err, delivered, msgUp, msgCl, sent, flushed, msgAnswers>>
      /\ Msg!Heard(c)' = Msg!Heard(c)
      /\ MsgAt(c, "write")
      /\ MsgRead(c)' /\ MsgStream(c)' /\ MsgOpen'
    BY MsgWrites
<1>3. /\ MsgWriting(c)' + k = Len(o) /\ MsgWriting(c)' \in Nat
      /\ MsgAt(c, "write")' => \A i \in 1 .. Len(msgSrv'.out) : msgSrv'.out[i].size = 1
      /\ k = Len(o) => ~MsgAt(c, "write")'
      /\ msgSrv'.pc # "killed" /\ k \in Nat /\ k >= 1
    BY <1>1, <1>2, MsgWritesMore
<1>4. MsgFor(c)
    BY DEF MsgInv
<1>5. MsgFine(c)'
    <2>1. msgConn'[c] = msgConn[c] \/ (msgConn'[c] = "hit" /\ msgConn[c] \in {"closed", "hit"})
        BY <1>1 DEF MsgInv, Msg!TypeOK
    <2> QED BY <1>2, <1>4, <2>1 DEF MsgFor, MsgFine
<1>6. /\ o \in Seq(Msg!Pieces) /\ d \in Seq(Msg!Pieces) /\ Len(o) \in Nat /\ Len(d) \in Nat
      /\ Len(msgAnswers[c]) \in Nat /\ Len(Msg!Heard(c)) \in Nat /\ msgCl[c].msg \in Nat
    BY MsgKinds DEF MsgInv
<1>7. /\ \A i \in 1 .. Len(d) : d[i].size = 1
      /\ \A i \in 1 .. Len(o) : o[i].size = 1
    BY <1>2, <1>4 DEF MsgFor, MsgPaid
<1>8. /\ Len(msgDown'[c]) <= Len(d) + k /\ Len(msgDown'[c]) \in Nat
      /\ \A i \in 1 .. Len(msgDown'[c]) : msgDown'[c][i].size = 1
    <2>1. CASE msgDown' = msgDown
        BY <1>3, <1>6, <1>7, <2>1
    <2>2. CASE msgDown' = [msgDown EXCEPT ![c] = @ \o SubSeq(o, 1, k)]
        <3> DEFINE h == SubSeq(o, 1, k)
                   v == d \o h
        <3>1. k \in 0 .. Len(o)
            BY <1>3, <1>6
        <3>2. h \in Seq(Msg!Pieces) /\ Len(h) = k /\ \A i \in 1 .. k : h[i] = o[i]
            BY <1>6, <3>1, Cut
        <3>3. h \in Seq(Msg!Pieces) /\ d \in Seq(Msg!Pieces)
            BY <1>6, <3>2
        <3>4. msgDown'[c] = v
            BY <2>2 DEF MsgInv, Msg!TypeOK
        <3>5. \A i \in 1 .. k : h[i].size = 1
            BY <1>3, <1>6, <1>7, <3>2
        <3> HIDE DEF h, d
        <3>6. /\ Len(v) = Len(d) + Len(h)
              /\ \A i \in 1 .. Len(d) : v[i] = d[i]
              /\ \A i \in 1 .. Len(h) : v[Len(d) + i] = h[i]
            BY <3>3, Cat
        <3> DEFINE a == Len(d)
        <3>7. a \in Nat /\ \A i \in 1 .. a : d[i].size = 1
            BY <1>6, <1>7 DEF d
        <3> HIDE DEF v
        <3>8. Len(v) = a + k /\ \A i \in 1 .. k : v[a + i] = h[i]
            BY <3>2, <3>6
        <3>9. \A i \in 1 .. a : v[i] = d[i]
            BY <3>6
        <3> HIDE DEF a
        <3>10. ASSUME NEW i \in 1 .. a + k PROVE v[i].size = 1
            <4>1. i \in 1 .. a \/ \E m \in 1 .. k : i = a + m
                BY <1>3, <3>7, Halves
            <4> QED BY <3>5, <3>7, <3>8, <3>9, <4>1
        <3> QED BY <1>3, <3>4, <3>7, <3>8, <3>10 DEF a, d
    <2> QED BY <1>1, <2>1, <2>2
<1>9. MsgPaid(c)'
    <2> DEFINE a == Len(d)
               n == Len(msgAnswers[c])
               r == MsgReading(c)
               w == Len(o)
               H == Len(Msg!Heard(c))
               a2 == Len(msgDown'[c])
               w2 == MsgWriting(c)'
    <2>1. a + 3 * n + r + w <= 3 * H
        BY <1>2, <1>4 DEF MsgFor, MsgPaid, MsgWriting
    <2>2. a \in Nat /\ n \in Nat /\ r \in Nat /\ H \in Nat /\ w \in Nat /\ w2 + k = w /\ w2 \in Nat
        BY <1>3, <1>6 DEF MsgReading
    <2>3. a2 <= a + k /\ a2 \in Nat /\ k \in Nat
        BY <1>3, <1>8
    <2>4. Len(msgAnswers'[c]) = n /\ MsgReading(c)' = r /\ Len(Msg!Heard(c)') = H
        BY <1>2 DEF MsgReading
    <2> HIDE DEF a, n, r, w, H, a2, w2
    <2>5. a2 + 3 * n + r + w2 <= 3 * H
        BY <2>1, <2>2, <2>3
    <2>6. Len(msgDown'[c]) + 3 * Len(msgAnswers'[c]) + MsgReading(c)' + MsgWriting(c)' <= 3 * Len(Msg!Heard(c)')
        BY <2>4, <2>5 DEF a2, w2
    <2> QED BY <1>2, <1>3, <1>4, <1>8, <2>6 DEF MsgFor, MsgPaid
<1>10. MsgPolite(c)'
    <2>1. SUFFICES ASSUME Requests = 1, ~Splits, Cap >= 3
                   PROVE  Len(Msg!Heard(c)') >= 1 /\ ~MsgAt(c, "write")'
        BY DEF MsgPolite
    <2>2. Len(Msg!Heard(c)) >= 1 /\ Len(o) = 3 /\ d = <<>>
        BY <1>2, <1>4, <2>1 DEF MsgFor, MsgPolite
    <2>3. \E b : b = <<>> /\ Msg!Takes(b, o, k)
        BY <1>1, <2>2
    <2>4. k = Len(o)
        BY <1>6, <2>1, <2>2, <2>3, MsgOneWrite
    <2> QED BY <1>2, <1>3, <2>2, <2>4
<1> QED BY <1>2, <1>3, <1>5, <1>9, <1>10, MsgOthersServed DEF MsgFor, Msg!Serve

\* A client is killed.
LEMMA MsgKilled ==
    ASSUME Msg!MsgAssumption, MsgInv, NEW c \in MsgClients, Msg!Killed(c)
    PROVE  MsgInv'
<1> USE DEF Msg!client
<1>1. /\ msgSrv.pc = "write" /\ msgSrv.conn = {c} /\ sock[c] = "open"
      /\ UNCHANGED <<ready, handles, sock, err, delivered, msgUp, msgCl, sent, flushed, msgAnswers>>
      /\ Msg!Heard(c)' = Msg!Heard(c)
      /\ MsgAt(c, "write")
      /\ MsgRead(c)' /\ MsgStream(c)' /\ MsgOpen'
    BY MsgWrites
<1>2. /\ msgConn[c] = "reset" /\ msgConn' = msgConn /\ msgDown' = msgDown /\ msgSrv'.pc = "killed"
    BY DEF Msg!Killed, Msg!At
<1>3. MsgFor(c)
    BY DEF MsgInv
<1>4. MsgFine(c)'
    BY <1>1, <1>2, <1>3 DEF MsgFor, MsgFine
<1>5. ~MsgAt(c, "write")'
    BY <1>2 DEF MsgAt
<1>6. MsgPaid(c)'
    <2>1. Len(msgSrv.out) \in Nat /\ Len(msgDown[c]) \in Nat /\ Len(msgAnswers[c]) \in Nat
          /\ Len(Msg!Heard(c)) \in Nat /\ msgCl[c].msg \in Nat
        BY MsgKinds DEF MsgInv
    <2> DEFINE a == Len(msgDown[c])
               n == Len(msgAnswers[c])
               r == MsgReading(c)
               w == Len(msgSrv.out)
               H == Len(Msg!Heard(c))
    <2>2. a + 3 * n + r + w <= 3 * H
        BY <1>1, <1>3 DEF MsgFor, MsgPaid, MsgWriting
    <2>3. a \in Nat /\ n \in Nat /\ r \in Nat /\ H \in Nat /\ w \in Nat
        BY <2>1 DEF MsgReading
    <2>4. Len(msgDown'[c]) = a /\ Len(msgAnswers'[c]) = n /\ MsgReading(c)' = r /\ Len(Msg!Heard(c)') = H
          /\ MsgWriting(c)' = 0
        BY <1>1, <1>2, <1>5 DEF MsgReading, MsgWriting
    <2> HIDE DEF a, n, r, w, H
    <2>5. a + 3 * n + r + 0 <= 3 * H
        BY <2>2, <2>3
    <2>6. Len(msgDown'[c]) + 3 * Len(msgAnswers'[c]) + MsgReading(c)' + MsgWriting(c)' <= 3 * Len(Msg!Heard(c)')
        BY <2>4, <2>5
    <2> QED BY <1>1, <1>2, <1>3, <1>5, <2>6 DEF MsgFor, MsgPaid
<1>7. ~(Requests = 1 /\ ~Splits /\ Cap >= 3)
    BY <1>1, <1>2, <1>3 DEF MsgFor, MsgPolite
<1>8. MsgPolite(c)'
    BY <1>7 DEF MsgPolite
<1> QED BY <1>1, <1>4, <1>6, <1>7, <1>8, MsgOthersServed DEF MsgFor, Msg!Serve

\* What a client's step leaves as it is.
LEMMA MsgRuns ==
    ASSUME Msg!MsgAssumption, MsgInv, NEW c \in MsgClients,
           Msg!Connect(c) \/ Msg!Run(c) \/ Msg!Kill(c) \/ Msg!Reset(c)
    PROVE  /\ UNCHANGED <<msgSrv, ready, handles, sock, err, delivered>>
           /\ Msg!Heard(c)' = Msg!Heard(c) /\ \A pc : MsgAt(c, pc)' <=> MsgAt(c, pc)
           /\ \A start : MsgBase(c, start)' = MsgBase(c, start)
           /\ MsgWriting(c)' = MsgWriting(c)
           /\ MsgFor(c)
<1> USE DEF Msg!server
<1>1. UNCHANGED <<msgSrv, ready, handles, sock, err, delivered>>
    BY DEF Msg!Connect, Msg!Run, Msg!SendNow, Msg!SendLater, Msg!Push, Msg!PushInVain, Msg!ReadHeader,
           Msg!ReadBody, Msg!Got, Msg!Leave, Msg!Kill, Msg!Reset
<1>2. Msg!Heard(c)' = Msg!Heard(c) /\ \A pc : MsgAt(c, pc)' <=> MsgAt(c, pc)
    BY <1>1 DEF Msg!Heard, MsgAt
<1>3. \A start : MsgBase(c, start)' = MsgBase(c, start)
    BY <1>1, <1>2 DEF MsgBase
<1>4. MsgWriting(c)' = MsgWriting(c)
    BY <1>1, <1>2 DEF MsgWriting
<1> QED BY <1>1, <1>2, <1>3, <1>4 DEF MsgInv

\* The rest follows, when the client is not dead, and was not ...
LEMMA MsgReadsOn ==
    ASSUME NEW c \in MsgClients, MsgFor(c), msgCl[c].pc # "dead",
           UNCHANGED <<msgSrv, sock, delivered>>, flushed'[c] = flushed[c], sent'[c] = sent[c],
           Msg!Heard(c)' = Msg!Heard(c), \A pc : MsgAt(c, pc)' <=> MsgAt(c, pc)
    PROVE  MsgRead(c)'
<1>1. ~MsgSilent(c) /\ ~MsgOver(c)
    BY DEF MsgSilent, MsgOver
<1> QED BY <1>1 DEF MsgFor, MsgRead

\* ... and it is only with its answers.
LEMMA MsgStreams ==
    ASSUME NEW c \in MsgClients, MsgFor(c), msgCl[c].pc # "dead",
           UNCHANGED <<msgSrv, sock, delivered>>, flushed'[c] = flushed[c], sent'[c] = sent[c],
           msgUp'[c] = msgUp[c],
           Msg!Heard(c)' = Msg!Heard(c), \A pc : MsgAt(c, pc)' <=> MsgAt(c, pc),
           \A start : MsgBase(c, start)' = MsgBase(c, start),
           \A start, b : MsgRow(start, sent[c], msgUp[c], msgCl[c].queue, b, flushed[c], msgCl[c].pc)
                            => MsgRow(start, sent[c], msgUp[c], msgCl'[c].queue, b, flushed[c], msgCl'[c].pc)
    PROVE  MsgStream(c)'
<1>1. ~MsgSilent(c) /\ ~MsgOver(c)
    BY DEF MsgSilent, MsgOver
<1>2. ASSUME NEW start, MsgFlow(c, start) PROVE MsgFlow(c, start)'
    BY <1>2 DEF MsgFlow
<1> QED BY <1>1, <1>2 DEF MsgFor, MsgStream

\* A client connects.
LEMMA MsgConnects ==
    ASSUME Msg!MsgAssumption, MsgInv, NEW c \in MsgClients, Msg!Connect(c)
    PROVE  MsgInv'
<1>1. /\ UNCHANGED <<msgSrv, ready, handles, sock, err, delivered>>
      /\ Msg!Heard(c)' = Msg!Heard(c) /\ \A pc : MsgAt(c, pc)' <=> MsgAt(c, pc)
      /\ \A start : MsgBase(c, start)' = MsgBase(c, start)
      /\ MsgWriting(c)' = MsgWriting(c)
      /\ MsgFor(c)
    BY MsgRuns
<1>2. /\ msgCl[c].pc = "start" /\ UNCHANGED <<msgUp, msgDown, sent, flushed, msgAnswers>>
      /\ msgConn'[c] = "open" /\ msgCl[c].queue = <<>>
      /\ msgCl'[c].pc = "free" /\ msgCl'[c].queue = <<>>
    BY <1>1 DEF Msg!Connect, Msg!Client, MsgInv, Msg!TypeOK, MsgFor, MsgFine
<1>3. MsgFine(c)'
    BY <1>1, <1>2 DEF MsgFor, MsgFine
<1>4. MsgRead(c)'
    BY <1>1, <1>2, MsgReadsOn
<1>5. MsgStream(c)'
    <2>1. \A start, b : MsgRow(start, sent[c], msgUp[c], msgCl[c].queue, b, flushed[c], msgCl[c].pc)
                    => MsgRow(start, sent[c], msgUp[c], msgCl'[c].queue, b, flushed[c], msgCl'[c].pc)
        BY <1>2, RowGoes
    <2> QED BY <1>1, <1>2, <2>1, MsgStreams
<1>6. MsgReading(c) = 0 /\ MsgReading(c)' = 0
    BY <1>2 DEF MsgReading
<1>7. MsgPaid(c)'
    BY <1>1, <1>2, <1>6 DEF MsgFor, MsgPaid
<1>8. MsgPolite(c)'
    BY <1>1, <1>2 DEF MsgFor, MsgPolite
<1> QED BY <1>3, <1>4, <1>5, <1>7, <1>8, MsgOthersRun DEF MsgFor

\* A client queues a message.
LEMMA MsgSends ==
    ASSUME Msg!MsgAssumption, MsgInv, NEW c \in MsgClients, Msg!SendNow(c) \/ Msg!SendLater(c)
    PROVE  MsgInv'
<1> DEFINE s == sent[c]
           f == flushed[c]
           q == msgCl[c].queue
           u == msgUp[c]
           h == Msg!Heard(c)
           H == Len(h)
           e == Len(s)
<1>1. /\ UNCHANGED <<msgSrv, ready, handles, sock, err, delivered>>
      /\ h' = h /\ \A pc : MsgAt(c, pc)' <=> MsgAt(c, pc)
      /\ MsgWriting(c)' = MsgWriting(c)
      /\ MsgFor(c)
    BY MsgRuns DEF Msg!Run
<1>2. /\ s \in Seq(Nat) /\ e \in Nat /\ f \in Nat /\ q \in Seq(Msg!Pieces) /\ u \in Seq(Msg!Pieces)
      /\ H \in Nat /\ h \in Seq(Nat) /\ Requests \in Nat
    BY MsgKinds DEF MsgInv
<1>3. PICK z \in Nat :
          /\ msgCl[c].pc = "free" /\ e < Requests /\ UNCHANGED <<msgConn, msgUp, msgDown, msgAnswers>>
          /\ sent'[c] = Append(s, z) /\ msgCl'[c].queue = q \o Msg!Message(z)
          /\ \/ msgCl'[c].pc = "free" /\ flushed'[c] = f
             \/ msgCl'[c].pc = "write" /\ flushed'[c] = e + 1
    <2>1. PICK z \in Sizes :
              /\ msgCl[c].pc = "free" /\ e < Requests /\ UNCHANGED <<msgConn, msgUp, msgDown, msgAnswers>>
              /\ sent' = [sent EXCEPT ![c] = Append(@, z)]
              /\ \/ Msg!Client(c, "free", q \o Msg!Message(z), 0, 0) /\ flushed' = flushed
                 \/ Msg!Client(c, "write", q \o Msg!Message(z), 0, 0) /\ flushed' = [flushed EXCEPT ![c] = e + 1]
        BY DEF Msg!SendNow, Msg!SendLater
    <2>2. z \in Nat
        BY DEF Msg!MsgAssumption
    <2>3. sent'[c] = Append(s, z)
        BY <2>1 DEF MsgInv, Msg!TypeOK
    <2>4. /\ msgCl'[c].queue = q \o Msg!Message(z)
          /\ \/ msgCl'[c].pc = "free" /\ flushed'[c] = f
             \/ msgCl'[c].pc = "write" /\ flushed'[c] = e + 1
        BY <2>1 DEF MsgInv, Msg!TypeOK, Msg!Client
    <2> QED BY <2>1, <2>2, <2>3, <2>4
<1>4. /\ Len(Append(s, z)) = e + 1 /\ \A i \in 1 .. e : Append(s, z)[i] = s[i]
    BY <1>2, Appended
<1>5. f <= e
    BY <1>1 DEF MsgFor, MsgFine
<1>6. H <= f
    BY <1>1 DEF MsgFor, MsgRead
<1>7. f <= flushed'[c] /\ flushed'[c] <= e + 1 /\ flushed'[c] \in Nat
    BY <1>2, <1>3, <1>5
<1>8. MsgFine(c)'
    <2>1. flushed'[c] <= Len(sent'[c]) /\ Len(sent'[c]) <= Requests
        BY <1>2, <1>3, <1>4, <1>7
    <2>2. msgCl'[c].pc = "write" => flushed'[c] = Len(sent'[c])
        BY <1>3, <1>4
    <2> QED BY <1>1, <1>3, <2>1, <2>2 DEF MsgFor, MsgFine
<1>9. ~MsgSilent(c) /\ ~MsgOver(c)
    BY <1>3 DEF MsgSilent, MsgOver
<1>10. /\ \A i \in 1 .. H : h[i] = sent'[c][i]
       /\ MsgAt(c, "finish") /\ msgSrv.msg > 0 => H + 1 <= f /\ msgSrv.msg = sent'[c][H + 1]
    <2>1. /\ \A i \in 1 .. H : h[i] = s[i]
          /\ MsgAt(c, "finish") /\ msgSrv.msg > 0 => H + 1 <= f /\ msgSrv.msg = s[H + 1]
        BY <1>1, <1>9 DEF MsgFor, MsgRead
    <2>2. \A i \in 1 .. H : i \in 1 .. e
        BY <1>2, <1>5, <1>6
    <2>3. H + 1 <= f => H + 1 \in 1 .. e
        BY <1>2, <1>5
    <2> QED BY <1>3, <1>4, <2>1, <2>2, <2>3
<1>11. MsgRead(c)'
    <2>1. H <= flushed'[c] /\ (H + 1 <= f => H + 1 <= flushed'[c])
        BY <1>2, <1>6, <1>7
    <2> QED BY <1>1, <1>10, <2>1 DEF MsgRead
<1>12. MsgStream(c)'
    <2>1. SUFFICES ASSUME sock[c] # "closed", msgSrv.pc # "killed", ~(MsgAt(c, "finish") /\ msgSrv.msg = 0)
                   PROVE  \E start : MsgFlow(c, start)'
        BY <1>1 DEF MsgStream
    <2>2. PICK start : MsgFlow(c, start)
        BY <1>1, <1>9, <2>1 DEF MsgFor, MsgStream
    <2> DEFINE b == MsgBase(c, start)
    <2>3. MsgRow(start, s, u, q, b, f, "free")
        BY <1>3, <2>2 DEF MsgFlow
    <2>4. f \in 0 .. e
        BY <1>2, <1>5
    <2> HIDE DEF b
    <2>5. PICK new : /\ \A m \in 1 .. e + 1 : new[m] = start[m]
                     /\ MsgRow(new, Append(s, z), u, q \o Msg!Message(z), b, f, "free")
                     /\ MsgRow(new, Append(s, z), u, q \o Msg!Message(z), b, e + 1, "write")
        <3>1. s \in Seq(Nat) /\ u \in Seq(Msg!Pieces) /\ q \in Seq(Msg!Pieces)
            BY <1>2
        <3>2. f \in 0 .. Len(s)
            BY <2>4
        <3> HIDE DEF s, u, q, f
        <3>3. \E new :
                 /\ \A m \in 1 .. Len(s) + 1 : new[m] = start[m]
                 /\ MsgRow(new, Append(s, z), u, q \o Msg!Message(z), b, f, "free")
                 /\ MsgRow(new, Append(s, z), u, q \o Msg!Message(z), b, Len(s) + 1, "write")
            BY <2>3, <3>1, <3>2, RowSends
        <3> QED BY <3>3
    <2>6. /\ MsgAt(c, "body") => H + 1 <= f /\ msgSrv.msg + msgSrv.left = s[H + 1]
          /\ MsgAt(c, "finish") => H + 1 <= f /\ msgSrv.msg = s[H + 1]
        BY <2>2 DEF MsgFlow
    <2>7. H + 1 <= f => H + 1 \in 1 .. e /\ H + 2 \in 1 .. e + 1
        BY <1>2, <1>5
    <2>8. H + 1 \in 1 .. e + 1
        BY <1>2, <1>5, <1>6
    <2>9. MsgBase(c, new)' = b
        BY <1>1, <2>5, <2>6, <2>7, <2>8 DEF b, MsgBase
    <2>10. MsgRow(new, sent'[c], msgUp'[c], msgCl'[c].queue, b, flushed'[c], msgCl'[c].pc)
        BY <1>3, <2>5
    <2>11. H + 1 <= f => H + 1 <= flushed'[c] /\ sent'[c][H + 1] = s[H + 1]
        BY <1>2, <1>3, <1>4, <1>7, <2>7
    <2>12. MsgFlow(c, new)'
        BY <1>1, <2>6, <2>9, <2>10, <2>11 DEF MsgFlow
    <2> QED BY <2>12
<1>13. MsgReading(c) = 0 /\ MsgReading(c)' = 0
    BY <1>3 DEF MsgReading
<1>14. MsgPaid(c)'
    BY <1>1, <1>3, <1>13 DEF MsgFor, MsgPaid
<1>15. MsgPolite(c)'
    BY <1>1, <1>3 DEF MsgFor, MsgPolite
<1> QED BY <1>8, <1>11, <1>12, <1>14, <1>15, MsgOthersRun DEF MsgFor, Msg!Run

\* A client flushes its queue.
LEMMA MsgPushes ==
    ASSUME Msg!MsgAssumption, MsgInv, NEW c \in MsgClients, Msg!Push(c)
    PROVE  MsgInv'
<1> DEFINE s == sent[c]
           q == msgCl[c].queue
           u == msgUp[c]
<1>1. /\ UNCHANGED <<msgSrv, ready, handles, sock, err, delivered>>
      /\ Msg!Heard(c)' = Msg!Heard(c) /\ \A pc : MsgAt(c, pc)' <=> MsgAt(c, pc)
      /\ \A start : MsgBase(c, start)' = MsgBase(c, start)
      /\ MsgWriting(c)' = MsgWriting(c)
      /\ MsgFor(c)
    BY MsgRuns DEF Msg!Run
<1>2. s \in Seq(Nat) /\ q \in Seq(Msg!Pieces) /\ u \in Seq(Msg!Pieces)
    BY MsgKinds DEF MsgInv
<1>3. PICK k \in 1 .. Len(q) :
          /\ msgCl[c].pc = "write" /\ UNCHANGED <<msgConn, msgDown, sent, flushed, msgAnswers>>
          /\ msgUp'[c] = u \o SubSeq(q, 1, k) /\ msgCl'[c].queue = Msg!From(q, k)
          /\ msgCl'[c].pc = IF k < Len(q) THEN "write" ELSE "free"
    <2>1. PICK k \in 1 .. Len(q) :
              /\ msgCl[c].pc = "write" /\ UNCHANGED <<msgConn, msgDown, sent, flushed, msgAnswers>>
              /\ msgUp' = [msgUp EXCEPT ![c] = @ \o SubSeq(q, 1, k)]
              /\ Msg!Client(c, IF k < Len(q) THEN "write" ELSE "free", Msg!From(q, k), 0, 0)
        BY DEF Msg!Push
    <2>2. msgUp'[c] = u \o SubSeq(q, 1, k)
        BY <2>1 DEF MsgInv, Msg!TypeOK
    <2>3. msgCl'[c].queue = Msg!From(q, k) /\ msgCl'[c].pc = IF k < Len(q) THEN "write" ELSE "free"
        BY <2>1 DEF MsgInv, Msg!TypeOK, Msg!Client
    <2> QED BY <2>1, <2>2, <2>3
<1>4. MsgFine(c)'
    <2>1. msgCl'[c].pc \in {"write", "free"} /\ flushed[c] = Len(sent[c])
        BY <1>1, <1>3 DEF MsgFor, MsgFine
    <2> QED BY <1>1, <1>3, <2>1 DEF MsgFor, MsgFine
<1>5. MsgRead(c)'
    BY <1>1, <1>3, MsgReadsOn
<1>6. MsgStream(c)'
    <2>1. ~MsgSilent(c) /\ ~MsgOver(c)
        BY <1>3 DEF MsgSilent, MsgOver
    <2>2. ASSUME NEW start, MsgFlow(c, start) PROVE MsgFlow(c, start)'
        <3> DEFINE b == MsgBase(c, start)
        <3>1. flushed[c] = Len(s)
            BY <1>1, <1>3 DEF MsgFor, MsgFine
        <3>2. MsgRow(start, s, u, q, b, Len(s), "write")
            BY <1>3, <2>2, <3>1 DEF MsgFlow
        <3>3. MsgBase(c, start)' = b
            BY <1>1
        <3> HIDE DEF b
        <3>4. MsgRow(start, s, u \o SubSeq(q, 1, k), Msg!From(q, k), b, Len(s),
                     IF k < Len(q) THEN "write" ELSE "free")
            BY <1>2, <3>2, RowPushes
        <3>5. MsgRow(start, sent'[c], msgUp'[c], msgCl'[c].queue, b, flushed'[c], msgCl'[c].pc)
            BY <1>3, <3>1, <3>4
        <3> QED BY <1>1, <1>3, <2>2, <3>3, <3>5 DEF MsgFlow
    <2> QED BY <1>1, <2>1, <2>2 DEF MsgFor, MsgStream
<1>7. MsgReading(c) = 0 /\ MsgReading(c)' = 0
    BY <1>3 DEF MsgReading
<1>8. msgCl'[c].pc \notin {"body", "got"}
    BY <1>3
<1>9. MsgPaid(c)'
    BY <1>1, <1>3, <1>7, <1>8 DEF MsgFor, MsgPaid
<1>10. MsgPolite(c)'
    BY <1>1, <1>3 DEF MsgFor, MsgPolite
<1> QED BY <1>4, <1>5, <1>6, <1>9, <1>10, MsgOthersRun DEF MsgFor, Msg!Run

\* A client flushes its queue to nobody.
LEMMA MsgPushesInVain ==
    ASSUME Msg!MsgAssumption, MsgInv, NEW c \in MsgClients, Msg!PushInVain(c)
    PROVE  MsgInv'
<1>1. /\ UNCHANGED <<msgSrv, ready, handles, sock, err, delivered>>
      /\ Msg!Heard(c)' = Msg!Heard(c) /\ \A pc : MsgAt(c, pc)' <=> MsgAt(c, pc)
      /\ MsgWriting(c)' = MsgWriting(c)
      /\ MsgFor(c)
    BY MsgRuns DEF Msg!Run
<1>2. /\ msgCl[c].pc = "write" /\ UNCHANGED <<msgConn, msgUp, msgDown, sent, flushed, msgAnswers>>
      /\ msgCl'[c].pc \in {"free", "dead"} /\ msgCl'[c].queue = <<>>
      /\ sock[c] = "closed" \/ msgSrv.pc = "killed"
    BY DEF Msg!PushInVain, Msg!Client, MsgInv, Msg!TypeOK
<1>3. MsgFine(c)'
    BY <1>1, <1>2 DEF MsgFor, MsgFine
<1>4. MsgRead(c)'
    BY <1>1, <1>2, MsgReadsOn
<1>5. MsgStream(c)'
    BY <1>1, <1>2 DEF MsgStream
<1>6. MsgReading(c) = 0 /\ MsgReading(c)' = 0
    BY <1>2 DEF MsgReading
<1>7. MsgPaid(c)'
    BY <1>1, <1>2, <1>6 DEF MsgFor, MsgPaid
<1>8. MsgPolite(c)'
    BY <1>1, <1>2 DEF MsgFor, MsgPolite
<1> QED BY <1>3, <1>4, <1>5, <1>7, <1>8, MsgOthersRun DEF MsgFor, Msg!Run

\* What the client reads and does not read yet: nothing but this changes.
LEMMA MsgClientReads ==
    ASSUME Msg!MsgAssumption, MsgInv, NEW c \in MsgClients, Msg!Run(c),
           msgCl[c].pc \in {"free", "body", "got"}, msgCl'[c].pc \in {"free", "body", "got"},
           msgCl'[c].queue = msgCl[c].queue, UNCHANGED <<msgConn, msgUp, sent, flushed>>,
           NEW k \in 0 .. Len(msgDown[c]), msgDown'[c] = Msg!From(msgDown[c], k),
           NEW r \in Nat, MsgReading(c)' = r,
           NEW n \in Nat, Len(msgAnswers'[c]) = n,
           r + 3 * n <= MsgReading(c) + k + 3 * Len(msgAnswers[c]),
           msgCl'[c].pc = "body" => msgCl'[c].msg + msgCl'[c].left = 1,
           msgCl'[c].pc = "got" => msgCl'[c].msg <= 1
    PROVE  MsgInv'
<1> DEFINE d == msgDown[c]
           h == Msg!Heard(c)
<1>1. /\ UNCHANGED <<msgSrv, ready, handles, sock, err, delivered>>
      /\ Msg!Heard(c)' = Msg!Heard(c) /\ \A pc : MsgAt(c, pc)' <=> MsgAt(c, pc)
      /\ \A start : MsgBase(c, start)' = MsgBase(c, start)
      /\ MsgWriting(c)' = MsgWriting(c)
      /\ MsgFor(c)
    BY MsgRuns
<1>2. MsgFine(c)'
    BY <1>1 DEF MsgFor, MsgFine
<1>3. MsgRead(c)'
    BY <1>1, MsgReadsOn
<1>4. MsgStream(c)'
    <2>1. \A start, b : MsgRow(start, sent[c], msgUp[c], msgCl[c].queue, b, flushed[c], msgCl[c].pc)
                    => MsgRow(start, sent[c], msgUp[c], msgCl'[c].queue, b, flushed[c], msgCl'[c].pc)
        BY RowGoes
    <2> QED BY <1>1, <2>1, MsgStreams
<1>5. /\ d \in Seq(Msg!Pieces) /\ Len(d) \in Nat /\ Len(msgAnswers[c]) \in Nat /\ Len(h) \in Nat
      /\ msgCl[c].msg \in Nat /\ Len(msgSrv.out) \in Nat
    BY MsgKinds DEF MsgInv
<1>6. d \in Seq(Msg!Pieces)
    BY <1>5
<1>7. /\ Len(Msg!From(d, k)) = Len(d) - k
      /\ \A i \in 1 .. Len(d) - k : Msg!From(d, k)[i] = d[k + i]
    <2> HIDE DEF d
    <2>1. k \in 0 .. Len(d)
        BY DEF d
    <2> QED BY <1>6, <2>1, Cut DEF Msg!From
<1>8. \A i \in 1 .. Len(d) : d[i].size = 1
    BY <1>1 DEF MsgFor, MsgPaid
<1> DEFINE a == Len(d)
           r0 == MsgReading(c)
           w == MsgWriting(c)
           n0 == Len(msgAnswers[c])
           H == Len(h)
           v == Msg!From(d, k)
<1>9. a \in Nat /\ r0 \in Nat /\ w \in Nat /\ n0 \in Nat /\ H \in Nat /\ k \in 0 .. a
    BY <1>5 DEF MsgReading, MsgWriting
<1>10. a + 3 * n0 + r0 + w <= 3 * H
    BY <1>1 DEF MsgFor, MsgPaid
<1>11. r + 3 * n <= r0 + k + 3 * n0
    OBVIOUS
<1>12. Len(v) = a - k /\ \A i \in 1 .. a - k : v[i] = d[k + i]
    BY <1>7
<1>13. \A i \in 1 .. a : d[i].size = 1
    BY <1>8
<1>14. msgDown'[c] = v /\ MsgWriting(c)' = w /\ Len(Msg!Heard(c)') = H
    BY <1>1
<1> HIDE DEF v, a, r0, w, n0, H, d
<1>15. Len(v) + 3 * n + r + w <= 3 * H
    <2>1. k \in Nat /\ k <= a /\ Len(v) = a - k
        BY <1>9, <1>12
    <2>2. n \in Nat /\ r \in Nat
        OBVIOUS
    <2>3. (a - k) + 3 * n + r + w <= 3 * H
        BY <1>9, <1>10, <1>11, <2>1, <2>2
    <2> QED BY <2>1, <2>3
<1>16. \A i \in 1 .. Len(v) : v[i].size = 1
    <2>1. \A i \in 1 .. a - k : k + i \in 1 .. a
        BY <1>9
    <2> QED BY <1>12, <1>13, <2>1
<1>17. Len(msgDown'[c]) + 3 * Len(msgAnswers'[c]) + MsgReading(c)' + MsgWriting(c)' <= 3 * Len(Msg!Heard(c)')
    BY <1>14, <1>15
<1>18. MsgPaid(c)'
    BY <1>1, <1>14, <1>16, <1>17 DEF MsgFor, MsgPaid
<1>19. MsgPolite(c)'
    <2>1. msgDown[c] = <<>> => msgDown'[c] = <<>>
        <3>1. SUFFICES ASSUME msgDown[c] = <<>> PROVE msgDown'[c] = <<>>
            OBVIOUS
        <3>2. a = 0
            BY <1>6, <3>1, Empty DEF a, d
        <3>3. Len(v) = 0
            <4>1. k \in Nat /\ k <= a /\ Len(v) = a - k
                BY <1>9, <1>12
            <4> QED BY <3>2, <4>1
        <3>4. v \in Seq(Msg!Pieces)
            BY <1>6, <1>9, RowLeaves DEF v, a
        <3> QED BY <1>14, <3>3, <3>4, Empty
    <2> QED BY <1>1, <2>1 DEF MsgFor, MsgPolite
<1> QED BY <1>2, <1>3, <1>4, <1>18, <1>19, MsgOthersRun DEF MsgFor

\* A client reads of the header of an answer.
LEMMA MsgGetsHeader ==
    ASSUME Msg!MsgAssumption, MsgInv, NEW c \in MsgClients, Msg!ReadHeader(c)
    PROVE  MsgInv'
<1> USE DEF Msg!server
<1> DEFINE d == msgDown[c]
           k == Msg!Min({2, Len(d)})
           q == msgCl[c].queue
<1>1. d \in Seq(Msg!Pieces) /\ Len(msgAnswers[c]) \in Nat /\ Len(d) \in Nat
    BY MsgKinds DEF MsgInv
<1>2. k \in 0 .. Len(d) /\ k \in Nat
    BY <1>1, MinWithin
<1>3. k = 2 => Head(d) = d[1] /\ 1 \in 1 .. Len(d)
    BY <1>1, <1>2, Empty
<1> HIDE DEF k
<1>4. /\ msgCl[c].pc = "free" /\ UNCHANGED <<msgConn, msgUp, sent, flushed, msgAnswers>>
      /\ msgDown' = [msgDown EXCEPT ![c] = Msg!From(d, k)]
      /\ \/ k = 2 /\ Msg!Client(c, "body", q, Head(d).size, 0)
         \/ Msg!Client(c, "got", q, 0, 0)
    BY DEF Msg!ReadHeader, k
<1>5. /\ msgDown'[c] = Msg!From(d, k) /\ msgCl'[c].queue = q /\ msgCl'[c].msg = 0
      /\ \/ k = 2 /\ msgCl'[c].pc = "body" /\ msgCl'[c].left = Head(d).size
         \/ msgCl'[c].pc = "got"
    BY <1>4 DEF MsgInv, Msg!TypeOK, Msg!Client
<1>6. \A i \in 1 .. Len(d) : d[i].size = 1
    BY DEF MsgInv, MsgFor, MsgPaid
<1>7. msgCl'[c].pc = "body" => msgCl'[c].msg + msgCl'[c].left = 1
    BY <1>3, <1>5, <1>6
<1>8. MsgReading(c) = 0
    BY <1>4 DEF MsgReading
<1> DEFINE r == IF msgCl'[c].pc = "body" THEN 2 ELSE 0
           n == Len(msgAnswers[c])
<1>9. MsgReading(c)' = r
    BY <1>5 DEF MsgReading
<1>10. r \in Nat /\ r <= k
    BY <1>2, <1>5
<1> HIDE DEF r, n
<1>11. n \in Nat /\ Len(msgAnswers'[c]) = n
    BY <1>1, <1>4 DEF n
<1>12. r + 3 * n <= 0 + k + 3 * n
    BY <1>2, <1>10, <1>11
<1>13. r + 3 * n <= MsgReading(c) + k + 3 * Len(msgAnswers[c])
    BY <1>8, <1>12 DEF n
<1>14. msgCl'[c].pc = "got" => msgCl'[c].msg <= 1
    BY <1>5
<1>15. msgCl[c].pc \in {"free", "body", "got"} /\ msgCl'[c].pc \in {"free", "body", "got"}
    BY <1>4, <1>5
<1>16. UNCHANGED <<msgConn, msgUp, sent, flushed>>
    BY <1>4
<1>17. Msg!Run(c)
    BY DEF Msg!Run
<1> QED BY <1>2, <1>5, <1>7, <1>9, <1>10, <1>11, <1>13, <1>14, <1>15, <1>16, <1>17, MsgClientReads

\* A client reads of the body of an answer.
LEMMA MsgGetsBody ==
    ASSUME Msg!MsgAssumption, MsgInv, NEW c \in MsgClients, Msg!ReadBody(c)
    PROVE  MsgInv'
<1> USE DEF Msg!server
<1> DEFINE d == msgDown[c]
           l == msgCl[c].left
           m == msgCl[c].msg
           k == Msg!Min({l, Len(d)})
           q == msgCl[c].queue
<1>1. d \in Seq(Msg!Pieces) /\ Len(msgAnswers[c]) \in Nat /\ Len(d) \in Nat /\ l \in Nat /\ m \in Nat
    BY MsgKinds DEF MsgInv
<1>2. k \in 0 .. Len(d) /\ k \in Nat /\ k <= l
    BY <1>1, MinWithin
<1> HIDE DEF k
<1>3. /\ msgCl[c].pc = "body" /\ UNCHANGED <<msgConn, msgUp, sent, flushed, msgAnswers>>
      /\ msgDown' = [msgDown EXCEPT ![c] = Msg!From(d, k)]
      /\ Msg!Client(c, IF k \in {0, l} THEN "got" ELSE "body", q, l - k, m + k)
    BY DEF Msg!ReadBody, k
<1>4. /\ msgDown'[c] = Msg!From(d, k) /\ msgCl'[c].queue = q /\ msgCl'[c].msg = m + k
      /\ msgCl'[c].left = l - k /\ msgCl'[c].pc = IF k \in {0, l} THEN "got" ELSE "body"
    BY <1>3 DEF MsgInv, Msg!TypeOK, Msg!Client
<1>5. m + l = 1
    BY <1>3 DEF MsgInv, MsgFor, MsgPaid
<1>6. MsgReading(c) = 2 + m
    BY <1>3 DEF MsgReading
<1> DEFINE r == IF msgCl'[c].pc = "body" THEN 2 + (m + k) ELSE IF m + k > 0 THEN 3 ELSE 0
           n == Len(msgAnswers[c])
<1>7. MsgReading(c)' = r
    BY <1>4 DEF MsgReading
<1> HIDE DEF l, m
<1>8. m \in Nat /\ l \in Nat
    BY <1>1
<1>9. r \in Nat /\ r <= 2 + m + k
    BY <1>2, <1>8
<1> HIDE DEF r, n
<1>10. n \in Nat /\ Len(msgAnswers'[c]) = n
    BY <1>1, <1>3 DEF n
<1>11. r + 3 * n <= 2 + m + k + 3 * n
    BY <1>2, <1>8, <1>9, <1>10
<1>12. r + 3 * n <= MsgReading(c) + k + 3 * Len(msgAnswers[c])
    BY <1>6, <1>11 DEF n
<1>13. m + k <= 1 /\ m + k + (l - k) = 1
    BY <1>2, <1>5, <1>8
<1>14. /\ msgCl'[c].pc = "body" => msgCl'[c].msg + msgCl'[c].left = 1
       /\ msgCl'[c].pc = "got" => msgCl'[c].msg <= 1
    BY <1>4, <1>13
<1>15. msgCl[c].pc \in {"free", "body", "got"} /\ msgCl'[c].pc \in {"free", "body", "got"}
    BY <1>3, <1>4
<1>16. UNCHANGED <<msgConn, msgUp, sent, flushed>>
    BY <1>3
<1>17. Msg!Run(c)
    BY DEF Msg!Run
<1> QED BY <1>2, <1>4, <1>7, <1>9, <1>10, <1>12, <1>14, <1>15, <1>16, <1>17, MsgClientReads

\* A client reads of an answer.
LEMMA MsgGets ==
    ASSUME Msg!MsgAssumption, MsgInv, NEW c \in MsgClients, Msg!Got(c), msgCl[c].msg # 0
    PROVE  MsgInv'
<1> USE DEF Msg!server
<1> DEFINE d == msgDown[c]
           m == msgCl[c].msg
           s == msgAnswers[c]
           n0 == Len(s)
           n == n0 + 1
<1>1. d \in Seq(Msg!Pieces) /\ n0 \in Nat /\ Len(d) \in Nat /\ m \in Nat /\ s \in Seq(Nat)
    BY MsgKinds DEF MsgInv
<1>2. /\ msgCl[c].pc = "got" /\ UNCHANGED <<msgConn, msgDown, msgUp, sent, flushed>>
      /\ msgAnswers'[c] = Append(s, m)
      /\ msgCl'[c].pc = "free" /\ msgCl'[c].queue = msgCl[c].queue
    BY DEF Msg!Got, MsgInv, Msg!TypeOK, Msg!Client
<1>3. Len(msgAnswers'[c]) = n
    BY <1>1, <1>2, Appended
<1>4. 0 \in 0 .. Len(d) /\ msgDown'[c] = Msg!From(d, 0)
    <2>1. 0 \in 0 .. Len(d)
        BY <1>1
    <2>2. /\ Msg!From(d, 0) \in Seq(Msg!Pieces) /\ Len(Msg!From(d, 0)) = Len(d) - 0
          /\ \A i \in 1 .. Len(d) - 0 : Msg!From(d, 0)[i] = d[0 + i]
        BY <1>1, <2>1, Cut DEF Msg!From
    <2>3. Msg!From(d, 0) = d
        BY <1>1, <2>2, SeqEqual
    <2> QED BY <1>2, <2>1, <2>3
<1>5. MsgReading(c) = 3 /\ MsgReading(c)' = 0
    BY <1>1, <1>2 DEF MsgReading
<1>6. n \in Nat /\ 0 \in Nat
    BY <1>1
<1>7. 0 + 3 * n <= MsgReading(c) + 0 + 3 * Len(msgAnswers[c])
    <2> HIDE DEF s
    <2>1. 0 + 3 * n <= 3 + 0 + 3 * n0
        BY <1>1
    <2> QED BY <1>5, <2>1 DEF s
<1>8. msgCl'[c].pc \in {"free", "body", "got"} /\ msgCl[c].pc \in {"free", "body", "got"}
    BY <1>2
<1>9. msgCl'[c].pc # "body" /\ msgCl'[c].pc # "got"
    BY <1>2
<1>10. Msg!Run(c)
    BY DEF Msg!Run
<1> HIDE DEF n
<1> QED BY <1>2, <1>3, <1>4, <1>5, <1>6, <1>7, <1>8, <1>9, <1>10, MsgClientReads

\* The client closes.
LEMMA MsgCloses ==
    ASSUME Msg!MsgAssumption, MsgInv, NEW c \in MsgClients, Msg!Run(c) \/ Msg!Kill(c),
           Msg!Close(c), NEW pc \in {"done", "dead"}, Msg!Client(c, pc, <<>>, 0, 0),
           msgCl[c].pc \in {"free", "write", "body", "got"},
           pc = "done" => msgCl[c].pc \in {"free", "got"},
           UNCHANGED <<msgUp, sent, flushed, msgAnswers>>
    PROVE  MsgInv'
<1>1. /\ UNCHANGED <<msgSrv, ready, handles, sock, err, delivered>>
      /\ Msg!Heard(c)' = Msg!Heard(c) /\ \A p : MsgAt(c, p)' <=> MsgAt(c, p)
      /\ \A start : MsgBase(c, start)' = MsgBase(c, start)
      /\ MsgWriting(c)' = MsgWriting(c)
      /\ MsgFor(c)
    BY MsgRuns
<1>2. msgDown'[c] = <<>> /\ msgConn'[c] = IF msgDown[c] # <<>> THEN "hit" ELSE "closed"
    BY DEF Msg!Close, MsgInv, Msg!TypeOK
<1>3. msgCl'[c].pc = pc /\ msgCl'[c].queue = <<>>
    BY DEF Msg!Client, MsgInv, Msg!TypeOK
<1>4. MsgFine(c)'
    BY <1>1, <1>2, <1>3 DEF MsgFor, MsgFine
<1>5. MsgRead(c)'
    BY <1>1, MsgReadsOn
<1>6. MsgStream(c)'
    <2>1. \A start, b : MsgRow(start, sent[c], msgUp[c], msgCl[c].queue, b, flushed[c], msgCl[c].pc)
                    => MsgRow(start, sent[c], msgUp[c], msgCl'[c].queue, b, flushed[c], msgCl'[c].pc)
        BY <1>3, RowEnds
    <2> QED BY <1>1, <2>1, MsgStreams
<1>7. /\ Len(msgDown[c]) \in Nat /\ Len(msgAnswers[c]) \in Nat /\ Len(Msg!Heard(c)) \in Nat
      /\ msgCl[c].msg \in Nat /\ Len(msgSrv.out) \in Nat /\ msgDown[c] \in Seq(Msg!Pieces)
    BY MsgKinds DEF MsgInv
<1> DEFINE a == Len(msgDown[c])
           r == MsgReading(c)
           w == MsgWriting(c)
           n == Len(msgAnswers[c])
           H == Len(Msg!Heard(c))
<1>8. a \in Nat /\ r \in Nat /\ w \in Nat /\ n \in Nat /\ H \in Nat /\ a + 3 * n + r + w <= 3 * H
    <2>1. a \in Nat /\ r \in Nat /\ w \in Nat /\ n \in Nat /\ H \in Nat
        BY <1>7 DEF MsgReading, MsgWriting
    <2>2. a + 3 * n + r + w <= 3 * H
        BY <1>1 DEF MsgFor, MsgPaid
    <2> QED BY <2>1, <2>2
<1>9. MsgReading(c)' = 0 /\ MsgWriting(c)' = w /\ Len(Msg!Heard(c)') = H /\ Len(msgAnswers'[c]) = n
      /\ Len(msgDown'[c]) = 0
    BY <1>1, <1>2, <1>3 DEF MsgReading
<1>10. msgDown[c] # <<>> => a >= 1
    BY <1>7, Empty
<1> HIDE DEF a, r, w, n, H
<1>11. 0 + 3 * n + 0 + w <= 3 * H
    BY <1>8
<1>12. MsgPaid(c)'
    <2>1. Len(msgDown'[c]) + 3 * Len(msgAnswers'[c]) + MsgReading(c)' + MsgWriting(c)' <= 3 * Len(Msg!Heard(c)')
        BY <1>9, <1>11
    <2>2. \A k \in 1 .. Len(msgDown'[c]) : FALSE
        BY <1>9
    <2> QED BY <1>1, <1>3, <2>1, <2>2 DEF MsgFor, MsgPaid
<1>13. MsgPolite(c)'
    <2>1. SUFFICES ASSUME Requests = 1, ~Splits, Cap >= 3 PROVE MsgPolite(c)'
        BY DEF MsgPolite
    <2>2. CASE msgDown[c] # <<>>
        <3>1. H >= 1
            BY <1>8, <1>10, <2>2
        <3>2. ~MsgAt(c, "write")
            BY <1>1, <2>1, <2>2 DEF MsgFor, MsgPolite
        <3> QED BY <1>1, <3>1, <3>2 DEF MsgPolite, H
    <2>3. CASE msgDown[c] = <<>>
        BY <1>1, <1>2, <2>3 DEF MsgFor, MsgPolite
    <2> QED BY <2>2, <2>3
<1> QED BY <1>4, <1>5, <1>6, <1>12, <1>13, MsgOthersRun DEF MsgFor

\* A client finds the connection reset.
LEMMA MsgResets ==
    ASSUME Msg!MsgAssumption, MsgInv, NEW c \in MsgClients, Msg!Reset(c)
    PROVE  MsgInv'
<1>1. /\ UNCHANGED <<msgSrv, ready, handles, sock, err, delivered>>
      /\ Msg!Heard(c)' = Msg!Heard(c) /\ \A p : MsgAt(c, p)' <=> MsgAt(c, p)
      /\ \A start : MsgBase(c, start)' = MsgBase(c, start)
      /\ MsgWriting(c)' = MsgWriting(c)
      /\ MsgFor(c)
    BY MsgRuns
<1>2. /\ msgConn[c] = "hit" /\ msgConn'[c] = "reset"
      /\ UNCHANGED <<msgUp, msgDown, msgCl, sent, flushed, msgAnswers>>
    BY DEF Msg!Reset, MsgInv, Msg!TypeOK, Msg!client
<1>3. MsgFine(c)'
    BY <1>1, <1>2 DEF MsgFor, MsgFine
<1>4. MsgSilent(c)' = MsgSilent(c)
    BY <1>2 DEF MsgSilent
<1>5. MsgOver(c)' <=> MsgOver(c)
    BY <1>1, <1>4 DEF MsgOver
<1>6. MsgRead(c)'
    BY <1>1, <1>2, <1>4, <1>5 DEF MsgFor, MsgRead
<1>7. \A start : MsgFlow(c, start)' <=> MsgFlow(c, start)
    BY <1>1, <1>2 DEF MsgFlow
<1>8. MsgStream(c)'
    BY <1>1, <1>4, <1>5, <1>7 DEF MsgFor, MsgStream
<1>9. MsgReading(c)' = MsgReading(c)
    BY <1>2 DEF MsgReading
<1>10. MsgPaid(c)'
    BY <1>1, <1>2, <1>9 DEF MsgFor, MsgPaid
<1>11. MsgPolite(c)'
    BY <1>1, <1>2 DEF MsgFor, MsgPolite
<1> QED BY <1>3, <1>6, <1>8, <1>10, <1>11, MsgOthersRun DEF MsgFor

\* Every step of Msg keeps MsgInv.
LEMMA MsgGoesOn ==
    ASSUME Msg!MsgAssumption, MsgInv, [Msg!Next]_Msg!vars
    PROVE  MsgInv'
<1>1. CASE UNCHANGED Msg!vars
    <2>1. UNCHANGED <<msgSrv, ready, handles, sock, err, delivered, msgConn, msgUp, msgDown, msgCl,
                      sent, flushed, msgAnswers>>
        BY <1>1 DEF Msg!vars
    <2>2. ASSUME NEW d \in MsgClients PROVE MsgFor(d)'
        <3>1. MsgSame(d)
            BY <2>1 DEF MsgSame
        <3>2. d \in ready' => d \in ready
            BY <2>1
        <3> QED BY <2>1, <3>1, <3>2, MsgOthers DEF MsgInv
    <2>3. MsgOpen'
        BY <2>1 DEF MsgOpen, MsgInv
    <2>4. Msg!TypeOK'
        BY <2>1 DEF MsgInv, Msg!TypeOK
    <2> QED BY <2>1, <2>2, <2>3, <2>4 DEF MsgInv
<1>2. CASE Msg!Select
    BY <1>2, MsgSelects
<1>3. ASSUME NEW c \in MsgClients, Msg!Serve(c) PROVE MsgInv'
    BY <1>3, MsgAccepts, MsgReadsHeader, MsgReadsBody, MsgEnds, MsgHears, MsgAnswersMore, MsgKilled DEF Msg!Serve
<1>4. ASSUME NEW c \in MsgClients, Msg!Got(c), msgCl[c].msg = 0 PROVE MsgInv'
    <2>1. /\ Msg!Close(c) /\ Msg!Client(c, "done", <<>>, 0, 0) /\ msgCl[c].pc = "got"
          /\ UNCHANGED <<msgUp, sent, flushed, msgAnswers>>
        BY <1>4 DEF Msg!Got
    <2> QED BY <1>4, <2>1, MsgCloses DEF Msg!Run
<1>5. ASSUME NEW c \in MsgClients, Msg!Leave(c) PROVE MsgInv'
    <2>1. /\ Msg!Close(c) /\ Msg!Client(c, "done", <<>>, 0, 0) /\ msgCl[c].pc = "free"
          /\ UNCHANGED <<msgUp, sent, flushed, msgAnswers>>
        BY <1>5 DEF Msg!Leave
    <2> QED BY <1>5, <2>1, MsgCloses DEF Msg!Run
<1>6. ASSUME NEW c \in MsgClients, Msg!Kill(c) PROVE MsgInv'
    <2>1. /\ Msg!Close(c) /\ Msg!Client(c, "dead", <<>>, 0, 0)
          /\ msgCl[c].pc \in {"free", "write", "body", "got"}
          /\ UNCHANGED <<msgUp, sent, flushed, msgAnswers>>
        BY <1>6 DEF Msg!Kill
    <2> QED BY <1>6, <2>1, MsgCloses
<1>7. ASSUME NEW c \in MsgClients, Msg!Run(c) PROVE MsgInv'
    BY <1>4, <1>5, <1>7, MsgSends, MsgPushes, MsgPushesInVain, MsgGetsHeader, MsgGetsBody, MsgGets DEF Msg!Run
<1> QED BY <1>1, <1>2, <1>3, <1>6, <1>7, MsgConnects, MsgResets DEF Msg!Next

\* MsgInv holds when nobody has come.
LEMMA MsgStarts ==
    ASSUME Msg!MsgAssumption, Msg!Init
    PROVE  MsgInv
<1> USE DEF Msg!Init
<1>1. <<>> \in Seq(Msg!Pieces) /\ <<>> \in Seq(Nat) /\ Len(<<>>) = 0 /\ \A i \in 1 .. Len(<<>>) : FALSE
    BY NoRow
<1>2. Msg!TypeOK
    BY <1>1 DEF Msg!TypeOK, Msg!MsgAssumption
<1>3. MsgOpen
    BY DEF MsgOpen
<1>4. ASSUME NEW c \in MsgClients PROVE MsgFor(c)
    <2>1. /\ delivered[c] = <<>> /\ sent[c] = <<>> /\ flushed[c] = 0 /\ msgUp[c] = <<>> /\ msgDown[c] = <<>>
          /\ msgCl[c] = [pc |-> "start", queue |-> <<>>, left |-> 0, msg |-> 0] /\ msgAnswers[c] = <<>>
          /\ sock[c] = "none" /\ msgConn[c] = "none" /\ ready = {}
        OBVIOUS
    <2>2. Msg!Heard(c) = <<>>
        BY <2>1 DEF Msg!Heard
    <2>3. \A pc : ~MsgAt(c, pc)
        BY DEF MsgAt
    <2>4. MsgFine(c)
        BY <1>1, <2>1 DEF MsgFine, Msg!MsgAssumption
    <2>5. MsgRead(c)
        BY <1>1, <2>1, <2>2, <2>3 DEF MsgRead
    <2>6. MsgStream(c)
        <3> DEFINE start == [m \in 1 .. 1 |-> 0]
        <3>1. start \in [1 .. 1 -> Nat] /\ start[1] = 0 /\ \A m \in 1 .. 1 : m = 1
            OBVIOUS
        <3>2. MsgRow(start, <<>>, <<>>, <<>>, 0, 0, "start")
            <4> HIDE DEF start
            <4>1. Len(<<>>) = 0 /\ Len(<<>>) + 1 = 1 /\ (\A m \in 1 .. 0 : FALSE) /\ 0 + 1 = 1
                OBVIOUS
            <4>2. \A m, k \in 1 .. 1 : start[m] <= start[k]
                BY <3>1
            <4> QED BY <3>1, <4>1, <4>2 DEF MsgRow
        <3>3. MsgBase(c, start) = 0
            BY <2>2, <2>3, <3>1 DEF MsgBase
        <3> HIDE DEF start
        <3>4. MsgFlow(c, start)
            BY <2>1, <2>3, <3>2, <3>3 DEF MsgFlow
        <3> QED BY <3>4 DEF MsgStream
    <2>7. MsgReading(c) = 0 /\ MsgWriting(c) = 0
        BY <2>1, <2>3 DEF MsgReading, MsgWriting
    <2>8. MsgPaid(c)
        BY <1>1, <2>1, <2>2, <2>3, <2>7 DEF MsgPaid
    <2>9. MsgPolite(c)
        BY <2>1, <2>3 DEF MsgPolite
    <2> QED BY <2>4, <2>5, <2>6, <2>8, <2>9 DEF MsgFor
<1> QED BY <1>2, <1>3, <1>4 DEF MsgInv

\* What the invariant is for.
LEMMA MsgShows ==
    ASSUME Msg!MsgAssumption, MsgInv
    PROVE  Msg!TypeOK /\ Msg!Delivery /\ Msg!Farewell /\ Msg!Earned /\ Msg!OutlivesPolite
<1>1. Msg!Delivery
    BY DEF MsgInv, MsgFor, MsgRead, MsgOver, MsgSilent, Msg!Delivery
<1>2. Msg!Farewell
    <2>1. ASSUME NEW c \in MsgClients PROVE DOMAIN delivered[c] = 1 .. Len(delivered[c])
        <3>1. delivered[c] \in Seq(Nat)
            BY DEF MsgInv, Msg!TypeOK
        <3> QED BY <3>1, LenProperties
    <2> QED BY <2>1 DEF MsgInv, MsgOpen, MsgFor, MsgFine, Msg!Farewell
<1>3. Msg!Earned
    <2>1. ASSUME NEW c \in MsgClients PROVE Len(msgAnswers[c]) <= Len(Msg!Heard(c))
        <3>1. /\ Len(msgDown[c]) \in Nat /\ Len(msgAnswers[c]) \in Nat /\ Len(Msg!Heard(c)) \in Nat
              /\ msgCl[c].msg \in Nat /\ Len(msgSrv.out) \in Nat
            BY MsgKinds DEF MsgInv
        <3> DEFINE a == Len(msgDown[c])
                   r == MsgReading(c)
                   w == MsgWriting(c)
                   n == Len(msgAnswers[c])
                   H == Len(Msg!Heard(c))
        <3>2. a \in Nat /\ r \in Nat /\ w \in Nat /\ n \in Nat /\ H \in Nat /\ a + 3 * n + r + w <= 3 * H
            <4>1. a \in Nat /\ r \in Nat /\ w \in Nat /\ n \in Nat /\ H \in Nat
                BY <3>1 DEF MsgReading, MsgWriting
            <4>2. a + 3 * n + r + w <= 3 * H
                BY DEF MsgInv, MsgFor, MsgPaid
            <4> QED BY <4>1, <4>2
        <3> HIDE DEF a, r, w, n, H
        <3>3. n <= H
            BY <3>2
        <3> QED BY <3>3 DEF n, H
    <2> QED BY <2>1 DEF Msg!Earned
<1>4. Msg!OutlivesPolite
    <2>1. Len(Msg!Ok) = 3
        <3>1. Len(Msg!Message(1)) = 1 + 2
            BY MessageIs
        <3> QED BY <3>1 DEF Msg!Ok
    <2> QED BY <2>1 DEF MsgInv, Msg!OutlivesPolite
<1> QED BY <1>1, <1>2, <1>3, <1>4 DEF MsgInv

\* MsgInv holds in every run of a program on Msg.pm, for any clients, messages, splits and deaths.
THEOREM MsgSafe == Msg!MsgAssumption /\ Msg!Safety => []MsgInv
<1> SUFFICES ASSUME Msg!MsgAssumption PROVE Msg!Safety => []MsgInv
    OBVIOUS
<1>1. Msg!Init => MsgInv
    BY MsgStarts
<1>2. MsgInv /\ [Msg!Next]_Msg!vars => MsgInv'
    BY MsgGoesOn
<1> QED BY <1>1, <1>2, PTL DEF Msg!Safety
=============================================================================
