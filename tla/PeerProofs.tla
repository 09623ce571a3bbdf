------------------------------ MODULE PeerProofs ------------------------------
(***************************************************************************)
(* Proofs about the programs of which two talk over one connection.        *)
(*                                                                         *)
(* Sanmoku, for any board and any number of moves: one player has the move *)
(* or one stone is under way, and so the planes agree, nobody waits for    *)
(* one who waits, and without kills the two programs implement Board.      *)
(*                                                                         *)
(* SimpleChat, for any number of lines: the two take turns when lines come *)
(* whole, neither waits for one who waits, and the server leaves last.     *)
(*                                                                         *)
(* Tag, on a field of any size and for any keys: nobody is sent away by a  *)
(* player who has not quit, and when messages come whole the reports under *)
(* way lead from where a player is shown to where he is.                   *)
(***************************************************************************)
EXTENDS Sanmoku, TLAPS, SequenceTheorems, FiniteSetTheorems, FunctionTheorems

CONSTANTS
    Splits,                                 (* of both SimpleChat and Tag  *)
    Rounds, ChatDies,                       (* SimpleChat                  *)
    MaxX, MaxY, ClientX, ClientY, Keys, Presses, Interrupts, Losses   (* Tag *)

VARIABLES
    chatPc, chatBuf, said, quit, chatLink, chatTie,
    run, me, peer, buf, ready, typed, ahead, presses, tagLink, tagTie

chatVars == <<chatPc, chatBuf, said, quit, chatLink, chatTie>>
tagVars == <<run, me, peer, buf, ready, typed, ahead, presses, tagLink, tagTie>>

Chat == INSTANCE SimpleChat WITH
    Dies <- ChatDies, pc <- chatPc, buf <- chatBuf, link <- chatLink, tie <- chatTie

Tag == INSTANCE Tag WITH link <- tagLink, tie <- tagTie

-----------------------------------------------------------------------------
(* Sequences                                                               *)

LEMMA Pair == ASSUME NEW S, NEW x \in S, NEW y \in S PROVE <<x, y>> \in [1 .. 2 -> S]
OBVIOUS

\* What is written behind what is under way.
LEMMA Joined ==
    ASSUME NEW S, NEW s \in Seq(S), NEW t \in Seq(S), Len(t) = 2
    PROVE  /\ s \o t \in Seq(S) /\ s \o t # <<>>
           /\ \A k \in 1 .. Len(s \o t) :
                 \/ k \in 1 .. Len(s) /\ (s \o t)[k] = s[k]
                 \/ (s \o t)[k] = t[1]
                 \/ (s \o t)[k] = t[2]
<1>1. Len(s) \in Nat
    BY LenProperties
<1>2. /\ s \o t \in Seq(S) /\ Len(s \o t) = Len(s) + 2
      /\ \A k \in 1 .. Len(s) + 2 : (s \o t)[k] = IF k <= Len(s) THEN s[k] ELSE t[k - Len(s)]
    <2>1. /\ s \o t \in Seq(S) /\ Len(s \o t) = Len(s) + Len(t)
          /\ \A k \in 1 .. Len(s) + Len(t) : (s \o t)[k] = IF k <= Len(s) THEN s[k] ELSE t[k - Len(s)]
        BY ConcatProperties, Zenon
    <2> QED BY <2>1
<1>3. s \o t # <<>>
    BY <1>1, <1>2
<1>4. ASSUME NEW k \in 1 .. Len(s \o t)
      PROVE  \/ k \in 1 .. Len(s) /\ (s \o t)[k] = s[k]
             \/ (s \o t)[k] = t[1]
             \/ (s \o t)[k] = t[2]
    <2>1. CASE k <= Len(s)
        BY <1>1, <1>2, <1>4, <2>1
    <2>2. CASE k = Len(s) + 1
        <3>1. k - Len(s) = 1
            BY <1>1, <2>2
        <3> QED BY <1>1, <1>2, <1>4, <2>2, <3>1
    <2>3. CASE k = Len(s) + 2
        <3>1. k - Len(s) = 2
            BY <1>1, <2>3
        <3> QED BY <1>1, <1>2, <1>4, <2>3, <3>1
    <2> QED BY <1>1, <1>2, <1>4, <2>1, <2>2, <2>3
<1> QED BY <1>2, <1>3, <1>4

\* What is read of it, and what is left.
LEMMA Parted ==
    ASSUME NEW S, NEW s \in Seq(S), NEW k \in 0 .. Len(s)
    PROVE  LET h == SubSeq(s, 1, k)
               t == SubSeq(s, k + 1, Len(s))
           IN  /\ h \in Seq(S) /\ Len(h) = k /\ (h = <<>> <=> k = 0)
               /\ \A i \in 1 .. k : h[i] = s[i]
               /\ t \in Seq(S) /\ Len(t) = Len(s) - k /\ (t = <<>> <=> k = Len(s))
               /\ \A i \in 1 .. Len(s) - k : t[i] = s[k + i]
<1> DEFINE h == SubSeq(s, 1, k)
           t == SubSeq(s, k + 1, Len(s))
<1>1. Len(s) \in Nat /\ k \in Nat /\ \A i \in 1 .. Len(s) : s[i] \in S
    BY LenProperties, ElementOfSeq
<1>2. /\ h \in Seq(S) /\ Len(h) = (IF 1 <= k THEN k - 1 + 1 ELSE 0)
      /\ \A i \in 1 .. k - 1 + 1 : h[i] = s[1 + i - 1]
    <2>1. 1 \in Int /\ k \in Int /\ \A i \in 1 .. k : s[i] \in S
        BY <1>1
    <2> QED BY <2>1, SubSeqProperties
<1>3. /\ t \in Seq(S) /\ Len(t) = (IF k + 1 <= Len(s) THEN Len(s) - (k + 1) + 1 ELSE 0)
      /\ \A i \in 1 .. Len(s) - (k + 1) + 1 : t[i] = s[(k + 1) + i - 1]
    <2>1. k + 1 \in Int /\ Len(s) \in Int /\ \A i \in k + 1 .. Len(s) : s[i] \in S
        BY <1>1
    <2> QED BY <2>1, SubSeqProperties
<1> HIDE DEF h, t
<1>4. Len(h) = k /\ \A i \in 1 .. k : h[i] = s[i]
    BY <1>1, <1>2
<1>5. Len(t) = Len(s) - k /\ \A i \in 1 .. Len(s) - k : t[i] = s[k + i]
    BY <1>1, <1>3
<1>6. h = <<>> <=> k = 0
    BY <1>2, <1>4, EmptySeq, LenProperties
<1>7. t = <<>> <=> k = Len(s)
    BY <1>1, <1>3, <1>5, EmptySeq, LenProperties
<1> QED BY <1>2, <1>3, <1>4, <1>5, <1>6, <1>7 DEF h, t

LEMMA Whole == ASSUME NEW S, NEW s \in Seq(S) PROVE SubSeq(s, 1, Len(s)) = s
<1>1. Len(s) \in 0 .. Len(s)
    BY LenProperties
<1> DEFINE h == SubSeq(s, 1, Len(s))
<1>2. h \in Seq(S) /\ Len(h) = Len(s) /\ \A i \in 1 .. Len(s) : h[i] = s[i]
    BY <1>1, Parted
<1> HIDE DEF h
<1>3. h = s
    BY <1>2, SeqEqual
<1> QED BY <1>3 DEF h

\* A buffer of two that starts with what has been read: the rest is what it held.
LEMMA ReadInto ==
    ASSUME NEW S, NEW b \in [1 .. 2 -> S], NEW s \in Seq(S)
    PROVE  LET t == s \o SubSeq(b, Len(s) + 1, 2) IN
           /\ t \in Seq(S) /\ Len(t) = (IF Len(s) < 2 THEN 2 ELSE Len(s))
           /\ t[1] = (IF s = <<>> THEN b[1] ELSE s[1])
           /\ t[2] = (IF Len(s) < 2 THEN b[2] ELSE s[2])
<1> DEFINE u == SubSeq(b, Len(s) + 1, 2)
           t == s \o u
<1>1. Len(s) \in Nat /\ (s = <<>> <=> Len(s) = 0)
    BY EmptySeq, LenProperties
<1>2. /\ u \in Seq(S)
      /\ Len(u) = (IF Len(s) < 2 THEN 2 - Len(s) ELSE 0)
      /\ \A i \in 1 .. 2 - Len(s) : u[i] = b[Len(s) + i]
    <2>1. Len(s) + 1 \in Int /\ 2 \in Int /\ \A i \in Len(s) + 1 .. 2 : b[i] \in S
        BY <1>1
    <2>2. /\ u \in Seq(S)
          /\ Len(u) = IF Len(s) + 1 <= 2 THEN 2 - (Len(s) + 1) + 1 ELSE 0
          /\ \A i \in 1 .. 2 - (Len(s) + 1) + 1 : u[i] = b[(Len(s) + 1) + i - 1]
        BY <2>1, SubSeqProperties
    <2> HIDE DEF u
    <2> QED BY <1>1, <2>2
<1>3. /\ t \in Seq(S) /\ Len(t) = Len(s) + Len(u)
      /\ \A i \in 1 .. Len(s) + Len(u) : t[i] = IF i <= Len(s) THEN s[i] ELSE u[i - Len(s)]
    <2> HIDE DEF u
    <2> QED BY <1>2, ConcatProperties
<1> HIDE DEF u, t
<1>4. Len(t) = IF Len(s) < 2 THEN 2 ELSE Len(s)
    BY <1>1, <1>2, <1>3
<1>5. t[1] = IF s = <<>> THEN b[1] ELSE s[1]
    BY <1>1, <1>2, <1>3
<1>6. t[2] = IF Len(s) < 2 THEN b[2] ELSE s[2]
    BY <1>1, <1>2, <1>3
<1> QED BY <1>3, <1>4, <1>5, <1>6 DEF t, u

LEMMA NoneOfNone == \A s : s = <<>> => 1 .. Len(s) = {}
<1>1. 1 .. Len(<<>>) = {}
    OBVIOUS
<1> QED BY <1>1

\* A function on the numbers up to n is a sequence of that length.
LEMMA Sized ==
    ASSUME NEW S, NEW n \in Nat, NEW f \in [1 .. n -> S]
    PROVE  f \in Seq(S) /\ Len(f) = n
<1>1. f \in Seq(S)
    BY SeqDef, Zenon
<1>2. 1 .. Len(f) = 1 .. n /\ Len(f) \in Nat
    BY <1>1, LenProperties
<1> QED BY <1>1, <1>2

-----------------------------------------------------------------------------
(* Sanmoku                                                                 *)


\* The client or the server has the move, and all is read; or the one's stone
\* is on its way to the other, and is all that keeps the planes apart.
HasMove(p) ==
    /\ pc[p] = "mine" /\ pc[Other(p)] = "theirs"
    /\ link[p] = <<>> /\ link[Other(p)] = <<>>
    /\ plane[p] = plane[Other(p)]
HasMoved(p) ==
    /\ pc[p] = "theirs" /\ pc[Other(p)] = "theirs"
    /\ link[Other(p)] = <<>>
    /\ \E c \in Cells : link[p] = <<c>> /\ plane[p] = Marked(plane[Other(p)], c, p)
Playing ==
    /\ \A p \in Players : tie[p] = "open"
    /\ \E p \in Players : HasMove(p) \/ HasMoved(p)

\* One has quit, and the other knows or is about to.
HasQuit(p) ==
    /\ pc[p] = "quit"
    /\ link[Other(p)] = <<>>
    /\ plane[p] = plane[Other(p)]
    /\ \/ pc[Other(p)] = "theirs" /\ link[p] = <<"q">>
       \/ pc[Other(p)] = "told" /\ link[p] = <<>>

NoKill == \A p \in Players : pc[p] # "killed"

IInv ==
    /\ TypeOK
    /\ \A p \in Players : pc[p] \notin Live => tie[Other(p)] # "open"
    /\ (\A p \in Players : pc[p] \in Live) => Playing
    /\ NoKill => Playing \/ \E p \in Players : HasQuit(p)
    /\ Dies = {} => NoKill

LEMMA Two ==
    /\ \A p \in Players : Other(p) \in Players /\ Other(p) # p /\ Other(Other(p)) = p
    /\ \A p, q \in Players : q = p \/ q = Other(p)
BY DEF Players, Other

\* What Marked returns is a plane.
LEMMA MarkedPlane ==
    ASSUME NEW pl \in Plane, NEW d, NEW p \in Players
    PROVE  Marked(pl, d, p) \in Plane
BY DEF Marked, Plane, Stone, Players

LEMMA InitInv == Init => IInv
<1> SUFFICES ASSUME Init PROVE IInv
    OBVIOUS
<1>1. TypeOK
    BY DEF Init, TypeOK, Plane, Live, Players
<1>2. Playing
    <2>1. HasMove("client")
        BY DEF Init, HasMove, Players, Other
    <2> QED BY <2>1 DEF Playing, Init, Players
<1>3. \A p \in Players : pc[p] \in Live /\ pc[p] # "killed"
    BY DEF Init, Live
<1> QED BY <1>1, <1>2, <1>3 DEF IInv, NoKill

LEMMA CloseTypes ==
    ASSUME TypeOK, NEW p \in Players, NEW why \in {"quit", "told", "killed"},
           NEW l \in Seq(Cells \cup {"q"}), Close(p, why, l)
    PROVE  /\ pc' \in [Players -> Live \cup {"quit", "told", "killed"}]
           /\ link' \in [Players -> Seq(Cells \cup {"q"})]
           /\ tie' \in [Players -> {"open", "shut", "reset"}]
           /\ pc' = [pc EXCEPT ![p] = why]
           /\ tie'[Other(p)] # "open" /\ tie'[p] = tie[p]
           /\ link[Other(p)] = <<>> =>
                link'[p] = l /\ link'[Other(p)] = <<>>
<1> USE Two
<1>1. <<>> \in Seq(Cells \cup {"q"})
    OBVIOUS
<1>2. pc' = [pc EXCEPT ![p] = why] /\ pc' \in [Players -> Live \cup {"quit", "told", "killed"}]
    BY DEF Close, TypeOK
<1>3. tie' \in [Players -> {"open", "shut", "reset"}] /\ tie'[Other(p)] # "open" /\ tie'[p] = tie[p]
    BY DEF Close, TypeOK
<1>4. link' \in [Players -> Seq(Cells \cup {"q"})]
    BY <1>1 DEF Close, TypeOK
<1>5. link[Other(p)] = <<>> => link'[p] = l /\ link'[Other(p)] = <<>>
    BY DEF Close, TypeOK
<1> QED BY <1>2, <1>3, <1>4, <1>5

LEMMA SentTypes ==
    ASSUME TypeOK, NEW p \in Players, NEW d \in Cells \cup {"q"}
    PROVE  Sent(p, d) \in Seq(Cells \cup {"q"})
BY DEF Sent, TypeOK

LEMMA NextTypes == TypeOK /\ [Next]_vars => TypeOK'
<1> SUFFICES ASSUME TypeOK, [Next]_vars PROVE TypeOK'
    OBVIOUS
<1> USE Two
<1>1. ASSUME NEW p \in Players, Quit(p) PROVE TypeOK'
    BY <1>1, SentTypes, CloseTypes DEF Quit, TypeOK
<1>2. ASSUME NEW p \in Players, Kill(p) PROVE TypeOK'
    <2>1. link[p] \in Seq(Cells \cup {"q"})
        BY DEF TypeOK
    <2> QED BY <1>2, <2>1, CloseTypes DEF Kill, TypeOK
<1>3. ASSUME NEW p \in Players, NEW d \in Cells, Move(p, d) PROVE TypeOK'
    <2>1. plane' \in [Players -> Plane]
        BY <1>3, MarkedPlane DEF Move, TypeOK
    <2>2. link[p] \in Seq(Cells \cup {"q"}) /\ Sent(p, d) \in Seq(Cells \cup {"q"})
        BY SentTypes DEF TypeOK
    <2>3. CASE tie[p] = "reset"
        <3>1. Close(p, "killed", link[p])
            BY <1>3, <2>3 DEF Move
        <3> QED BY <3>1, <2>1, <2>2, CloseTypes DEF TypeOK
    <2>4. CASE tie[p] # "reset"
        <3>1. /\ pc' = [pc EXCEPT ![p] = "theirs"]
              /\ link' = [link EXCEPT ![p] = Sent(p, d)]
              /\ tie' = [tie EXCEPT ![p] = IF @ = "open" THEN @ ELSE "reset"]
            BY <1>3, <2>4 DEF Move
        <3>2. pc' \in [Players -> Live \cup {"quit", "told", "killed"}]
            BY <3>1 DEF TypeOK, Live
        <3>3. link' \in [Players -> Seq(Cells \cup {"q"})]
            BY <3>1, <2>2 DEF TypeOK
        <3>4. tie' \in [Players -> {"open", "shut", "reset"}]
            BY <3>1 DEF TypeOK
        <3> QED BY <2>1, <3>2, <3>3, <3>4 DEF TypeOK
    <2> QED BY <2>3, <2>4
<1>4. ASSUME NEW p \in Players, PeerTurn(p) PROVE TypeOK'
    <2>1. PICK d : /\ d \in IF link[Other(p)] # <<>> THEN {Head(link[Other(p)])} ELSE Data
                   /\ IF d = "q" THEN Close(p, "told", link[p]) /\ UNCHANGED plane
                      ELSE /\ plane' = [plane EXCEPT ![p] = Marked(@, d, Other(p))]
                           /\ pc' = [pc EXCEPT ![p] = "mine"]
                           /\ link' = IF link[Other(p)] # <<>>
                                      THEN [link EXCEPT ![Other(p)] = Tail(@)] ELSE link
                           /\ UNCHANGED tie
        BY <1>4 DEF PeerTurn
    <2>2. link[p] \in Seq(Cells \cup {"q"}) /\ link[Other(p)] \in Seq(Cells \cup {"q"})
        BY DEF TypeOK
    <2>3. CASE d = "q"
        BY <2>1, <2>2, <2>3, CloseTypes DEF TypeOK
    <2>4. CASE d # "q"
        <3>1. plane' \in [Players -> Plane]
            BY <2>1, <2>4, MarkedPlane DEF TypeOK
        <3>2. link[Other(p)] # <<>> => Tail(link[Other(p)]) \in Seq(Cells \cup {"q"})
            BY <2>2
        <3>3. link' \in [Players -> Seq(Cells \cup {"q"})]
            BY <2>1, <2>4, <3>2 DEF TypeOK
        <3>4. pc' \in [Players -> Live \cup {"quit", "told", "killed"}]
            BY <2>1, <2>4 DEF TypeOK, Live
        <3> QED BY <2>1, <2>4, <3>1, <3>3, <3>4 DEF TypeOK
    <2> QED BY <2>3, <2>4
<1>5. CASE UNCHANGED vars
    BY <1>5 DEF vars, TypeOK
<1> QED BY <1>1, <1>2, <1>3, <1>4, <1>5 DEF Next

\* TypeOK, for every set of cells.
THEOREM Typing == Safety => []TypeOK
<1>1. Init => TypeOK
    BY InitInv DEF IInv
<1> QED BY <1>1, NextTypes, PTL DEF Safety

-----------------------------------------------------------------------------
(* The invariant                                                           *)

\* Who has the move, while the other is there or nobody was killed.
LEMMA MineHasMove ==
    ASSUME IInv, NEW p \in Players, pc[p] = "mine", NoKill \/ pc[Other(p)] \in Live
    PROVE  HasMove(p) /\ \A r \in Players : tie[r] = "open"
<1> USE Two
<1>1. Playing
    <2>1. ASSUME NEW r \in Players, HasQuit(r) PROVE pc[Other(p)] \notin Live /\ FALSE
        BY <2>1 DEF HasQuit, Live
    <2>2. CASE pc[Other(p)] \in Live
        BY <2>2 DEF IInv, Live
    <2> QED BY <2>1, <2>2 DEF IInv
<1>2. PICK r \in Players : HasMove(r) \/ HasMoved(r)
    BY <1>1 DEF Playing
<1>3. r = p /\ HasMove(p)
    BY <1>2 DEF HasMove, HasMoved
<1> QED BY <1>1, <1>3 DEF Playing

\* What a player may be waiting for.
LEMMA TheirsWaits ==
    ASSUME IInv, NEW p \in Players, pc[p] = "theirs", NoKill \/ pc[Other(p)] \in Live
    PROVE  \/ /\ \A r \in Players : tie[r] = "open"
              /\ HasMove(Other(p)) \/ HasMoved(p) \/ HasMoved(Other(p))
           \/ HasQuit(Other(p)) /\ pc[Other(p)] = "quit"
<1> USE Two
<1>1. CASE Playing
    <2>1. PICK r \in Players : HasMove(r) \/ HasMoved(r)
        BY <1>1 DEF Playing
    <2>2. HasMove(r) => r = Other(p)
        BY DEF HasMove
    <2> QED BY <1>1, <2>1, <2>2 DEF Playing
<1>2. CASE ~Playing
    <2>1. ~ \A r \in Players : pc[r] \in Live
        BY <1>2 DEF IInv
    <2>2. pc[Other(p)] \notin Live /\ NoKill
        BY <2>1 DEF Live
    <2>3. PICK r \in Players : HasQuit(r)
        BY <1>2, <2>2 DEF IInv
    <2>4. r = Other(p)
        BY <2>3 DEF HasQuit
    <2> QED BY <2>3, <2>4 DEF HasQuit
<1> QED BY <1>1, <1>2

\* What Close does to IInv when it is a kill.
LEMMA KilledInv ==
    ASSUME IInv, TypeOK', NEW p \in Players, NEW l \in Seq(Cells \cup {"q"}),
           Close(p, "killed", l), pc[p] \in Live, Dies # {}
    PROVE  IInv'
<1> USE Two
<1>1. pc' = [pc EXCEPT ![p] = "killed"] /\ tie'[Other(p)] # "open" /\ tie'[p] = tie[p]
    BY CloseTypes DEF IInv
<1>2. pc'[p] = "killed" /\ pc'[Other(p)] = pc[Other(p)]
    BY <1>1 DEF IInv, TypeOK
<1>3. \A r \in Players : pc'[r] \notin Live => tie'[Other(r)] # "open"
    BY <1>1, <1>2 DEF IInv
<1>4. ~ \A r \in Players : pc'[r] \in Live
    BY <1>2 DEF Live
<1>5. ~NoKill'
    BY <1>2 DEF NoKill
<1> QED BY <1>3, <1>4, <1>5 DEF IInv

\* A player who writes to a connection that was reset was not alone to begin with.
LEMMA ResetKills ==
    ASSUME IInv, NEW p \in Players, pc[p] = "mine", tie[p] = "reset"
    PROVE  Dies # {} /\ ~NoKill
BY MineHasMove, Two DEF IInv

LEMMA MoveInv ==
    ASSUME IInv, TypeOK', NEW p \in Players, NEW d \in Cells, Move(p, d)
    PROVE  IInv'
<1> USE Two
<1>1. pc[p] = "mine" /\ pc[p] \in Live
    BY DEF Move, Live
<1>2. CASE tie[p] = "reset"
    <2>1. Close(p, "killed", link[p]) /\ link[p] \in Seq(Cells \cup {"q"})
        BY <1>2 DEF Move, IInv, TypeOK
    <2> QED BY <1>1, <1>2, <2>1, ResetKills, KilledInv
<1>3. CASE tie[p] # "reset"
    <2>1. /\ pc' = [pc EXCEPT ![p] = "theirs"]
          /\ link' = [link EXCEPT ![p] = Sent(p, d)]
          /\ tie' = [tie EXCEPT ![p] = IF @ = "open" THEN @ ELSE "reset"]
          /\ plane' = [plane EXCEPT ![p] = Marked(@, d, p)]
        BY <1>3 DEF Move
    <2>2. /\ pc'[p] = "theirs" /\ pc'[Other(p)] = pc[Other(p)]
          /\ link'[p] = Sent(p, d) /\ link'[Other(p)] = link[Other(p)]
          /\ tie'[p] = (IF tie[p] = "open" THEN "open" ELSE "reset")
          /\ tie'[Other(p)] = tie[Other(p)]
          /\ plane'[p] = Marked(plane[p], d, p) /\ plane'[Other(p)] = plane[Other(p)]
        BY <2>1 DEF IInv, TypeOK
    <2>3. \A r \in Players : pc'[r] \notin Live => tie'[Other(r)] # "open"
        BY <1>1, <2>2 DEF IInv, Live
    <2>4. ASSUME NoKill \/ pc[Other(p)] \in Live PROVE Playing'
        <3>1. HasMove(p) /\ tie[p] = "open" /\ tie[Other(p)] = "open"
            BY <1>1, <2>4, MineHasMove
        <3>2. Sent(p, d) = <<d>>
            BY <3>1 DEF Sent, HasMove
        <3>3. HasMoved(p)'
            BY <2>2, <3>1, <3>2 DEF HasMoved, HasMove, Marked
        <3> QED BY <2>2, <3>1, <3>3 DEF Playing
    <2>5. NoKill' => NoKill
        BY <1>1, <2>2 DEF NoKill
    <2>6. Dies = {} => NoKill'
        BY <2>2 DEF NoKill, IInv
    <2> QED BY <2>2, <2>3, <2>4, <2>5, <2>6 DEF IInv
<1> QED BY <1>2, <1>3

LEMMA QuitInv ==
    ASSUME IInv, TypeOK', NEW p \in Players, Quit(p)
    PROVE  IInv'
<1> USE Two
<1>1. pc[p] = "mine" /\ pc[p] \in Live /\ Sent(p, "q") \in Seq(Cells \cup {"q"})
    BY SentTypes DEF Quit, Live, IInv
<1>2. CASE tie[p] = "reset"
    <2>1. Close(p, "killed", Sent(p, "q"))
        BY <1>2 DEF Quit
    <2> QED BY <1>1, <1>2, <2>1, ResetKills, KilledInv
<1>3. CASE tie[p] # "reset"
    <2>1. Close(p, "quit", Sent(p, "q")) /\ plane' = plane
        BY <1>3 DEF Quit
    <2>2. /\ pc' = [pc EXCEPT ![p] = "quit"]
          /\ tie'[Other(p)] # "open" /\ tie'[p] = tie[p]
          /\ link[Other(p)] = <<>> => link'[p] = Sent(p, "q") /\ link'[Other(p)] = <<>>
        BY <1>1, <2>1, CloseTypes DEF IInv
    <2>3. pc'[p] = "quit" /\ pc'[Other(p)] = pc[Other(p)]
        BY <2>2 DEF IInv, TypeOK
    <2>4. \A r \in Players : pc'[r] \notin Live => tie'[Other(r)] # "open"
        BY <2>2, <2>3 DEF IInv
    <2>5. ~ \A r \in Players : pc'[r] \in Live
        BY <2>3 DEF Live
    <2>6. NoKill' => NoKill
        BY <1>1, <2>3 DEF NoKill
    <2>7. ASSUME NoKill PROVE HasQuit(p)'
        <3>1. HasMove(p) /\ tie[p] = "open"
            BY <1>1, <2>7, MineHasMove
        <3>2. Sent(p, "q") = <<"q">>
            BY <3>1 DEF Sent, HasMove
        <3> QED BY <2>1, <2>2, <2>3, <3>1, <3>2 DEF HasQuit, HasMove
    <2>8. Dies = {} => NoKill'
        BY <2>3 DEF NoKill, IInv
    <2> QED BY <2>4, <2>5, <2>6, <2>7, <2>8 DEF IInv
<1> QED BY <1>2, <1>3

LEMMA PeerTurnInv ==
    ASSUME IInv, TypeOK', NEW p \in Players, PeerTurn(p)
    PROVE  IInv'
<1> USE Two
<1> DEFINE q == Other(p)
<1>1. pc[p] = "theirs" /\ pc[p] \in Live /\ (link[q] # <<>> \/ tie[p] # "open")
    BY DEF PeerTurn, Live
<1>2. PICK d : /\ d \in IF link[q] # <<>> THEN {Head(link[q])} ELSE Data
               /\ IF d = "q" THEN Close(p, "told", link[p]) /\ UNCHANGED plane
                  ELSE /\ plane' = [plane EXCEPT ![p] = Marked(@, d, q)]
                       /\ pc' = [pc EXCEPT ![p] = "mine"]
                       /\ link' = IF link[q] # <<>> THEN [link EXCEPT ![q] = Tail(@)] ELSE link
                       /\ UNCHANGED tie
    BY DEF PeerTurn
<1>3. CASE d = "q"
    <2>1. Close(p, "told", link[p]) /\ plane' = plane /\ link[p] \in Seq(Cells \cup {"q"})
        BY <1>2, <1>3 DEF IInv, TypeOK
    <2>2. pc' = [pc EXCEPT ![p] = "told"] /\ tie'[q] # "open" /\ tie'[p] = tie[p]
        BY <2>1, CloseTypes DEF IInv
    <2>3. pc'[p] = "told" /\ pc'[q] = pc[q]
        BY <2>2 DEF IInv, TypeOK
    <2>4. \A r \in Players : pc'[r] \notin Live => tie'[Other(r)] # "open"
        BY <2>2, <2>3 DEF IInv
    <2>5. ~ \A r \in Players : pc'[r] \in Live
        BY <2>3 DEF Live
    <2>6. NoKill' => NoKill
        BY <1>1, <2>3 DEF NoKill
    <2>7. ASSUME NoKill PROVE HasQuit(q)'
        <3>1. ~(HasMove(q) /\ tie[p] = "open") /\ ~(HasMoved(p) /\ tie[p] = "open")
            BY <1>1 DEF HasMove, HasMoved
        <3>2. ~HasMoved(q)
            BY <1>2, <1>3, SanmokuAssumption DEF HasMoved
        <3>3. HasQuit(q) /\ pc[q] = "quit"
            BY <1>1, <2>7, <3>1, <3>2, TheirsWaits
        <3>4. link[p] = <<>> /\ plane[q] = plane[p]
            BY <3>3 DEF HasQuit
        <3>5. link'[p] = <<>> /\ link'[q] = <<>>
            BY <2>1, <3>4 DEF Close
        <3> QED BY <2>1, <2>3, <3>3, <3>4, <3>5 DEF HasQuit
    <2>8. Dies = {} => NoKill'
        BY <2>3 DEF NoKill, IInv
    <2> QED BY <2>4, <2>5, <2>6, <2>7, <2>8 DEF IInv
<1>4. CASE d # "q"
    <2>1. /\ plane' = [plane EXCEPT ![p] = Marked(@, d, q)]
          /\ pc' = [pc EXCEPT ![p] = "mine"]
          /\ link' = IF link[q] # <<>> THEN [link EXCEPT ![q] = Tail(@)] ELSE link
          /\ tie' = tie
        BY <1>2, <1>4
    <2>2. /\ pc'[p] = "mine" /\ pc'[q] = pc[q]
          /\ plane'[p] = Marked(plane[p], d, q) /\ plane'[q] = plane[q]
          /\ link'[p] = link[p]
          /\ link[q] # <<>> => link'[q] = Tail(link[q])
        BY <2>1 DEF IInv, TypeOK
    <2>3. \A r \in Players : pc'[r] \notin Live => tie'[Other(r)] # "open"
        BY <1>1, <2>1, <2>2 DEF IInv, Live
    <2>4. ASSUME NoKill \/ pc[q] \in Live PROVE Playing'
        <3>1. ~(HasMove(q) /\ tie[p] = "open") /\ ~(HasMoved(p) /\ tie[p] = "open")
            BY <1>1 DEF HasMove, HasMoved
        <3>2. ~(HasQuit(q) /\ pc[q] = "quit")
            BY <1>1, <1>2, <1>4 DEF HasQuit
        <3>3. HasMoved(q) /\ \A r \in Players : tie[r] = "open"
            BY <1>1, <2>4, <3>1, <3>2, TheirsWaits
        <3>4. PICK c \in Cells : link[q] = <<c>> /\ plane[q] = Marked(plane[p], c, q)
            BY <3>3 DEF HasMoved
        <3>5. d = c /\ Tail(link[q]) = <<>>
            BY <1>2, <3>4
        <3>6. HasMove(p)'
            BY <2>2, <3>3, <3>4, <3>5 DEF HasMove, HasMoved
        <3> QED BY <2>1, <3>3, <3>6 DEF Playing
    <2>5. NoKill' => NoKill
        BY <1>1, <2>2 DEF NoKill
    <2>6. Dies = {} => NoKill'
        BY <2>2 DEF NoKill, IInv
    <2> QED BY <2>2, <2>3, <2>4, <2>5, <2>6 DEF IInv
<1> QED BY <1>3, <1>4

LEMMA NextInv == IInv /\ [Next]_vars => IInv'
<1> SUFFICES ASSUME IInv, [Next]_vars PROVE IInv'
    OBVIOUS
<1>1. TypeOK'
    BY NextTypes DEF IInv
<1>2. ASSUME NEW p \in Players, Kill(p) PROVE IInv'
    <2>1. /\ Close(p, "killed", link[p]) /\ link[p] \in Seq(Cells \cup {"q"})
          /\ pc[p] \in Live /\ Dies # {}
        BY <1>2 DEF Kill, IInv, TypeOK
    <2> QED BY <1>1, <2>1, KilledInv
<1>3. CASE UNCHANGED vars
    BY <1>3 DEF vars, IInv, TypeOK, NoKill, Playing, HasMove, HasMoved, HasQuit
<1> QED BY <1>1, <1>2, <1>3, MoveInv, QuitInv, PeerTurnInv DEF Next

THEOREM Invariance == Safety => []IInv
BY InitInv, NextInv, PTL DEF Safety

LEMMA Agrees == IInv => Agree
<1> SUFFICES ASSUME IInv, NoKill PROVE Caught("server") = Caught("client")
    BY DEF Agree, NoKill
<1> USE Two
<1>1. ASSUME NEW p \in Players, HasMove(p) PROVE Caught(p) = Caught(Other(p))
    BY <1>1 DEF HasMove, Caught
<1>2. ASSUME NEW p \in Players, HasMoved(p) PROVE Caught(p) = Caught(Other(p))
    <2>1. PICK c \in Cells : link[p] = <<c>> /\ plane[p] = Marked(plane[Other(p)], c, p)
        BY <1>2 DEF HasMoved
    <2>2. link[p] # <<>> /\ Head(link[p]) = c
        BY <2>1
    <2> QED BY <1>2, <2>1, <2>2 DEF HasMoved, Caught
<1>3. ASSUME NEW p \in Players, HasQuit(p) PROVE Caught(p) = Caught(Other(p))
    BY <1>3, SanmokuAssumption DEF HasQuit, Caught, Marked
<1>4. PICK p \in Players : Caught(p) = Caught(Other(p))
    BY <1>1, <1>2, <1>3 DEF IInv, Playing
<1> QED BY <1>4 DEF Players, Other

\* The planes agree up to the stone under way.
THEOREM Agreement == Safety => []Agree
BY Agrees, Invariance, PTL

LEMMA NeverWait == IInv => Waits
<1> SUFFICES ASSUME IInv, NEW p \in Players, pc[p] = "theirs",
                    link[Other(p)] = <<>>, tie[p] = "open"
             PROVE  pc[Other(p)] = "mine" \/ (pc[Other(p)] = "theirs" /\ link[p] # <<>>)
    BY DEF Waits
<1> USE Two
<1>1. pc[Other(p)] \in Live
    BY DEF IInv
<1>2. HasMove(Other(p)) \/ HasMoved(p) \/ HasMoved(Other(p))
    BY <1>1, TheirsWaits DEF Live
<1>3. ASSUME NEW r \in Players, HasMoved(r) PROVE link[r] # <<>>
    BY <1>3 DEF HasMoved
<1> QED BY <1>2, <1>3 DEF HasMove, HasMoved

\* The two players never wait for each other, whoever is killed.
THEOREM NoDeadWait == Safety => []Waits
BY NeverWait, Invariance, PTL

LEMMA NeverBoth == IInv => OneMove
<1> SUFFICES ASSUME IInv, \A p \in Players : pc[p] = "mine" PROVE FALSE
    BY DEF OneMove
<1>1. "client" \in Players /\ pc["client"] = "mine" /\ pc[Other("client")] \in Live
    BY Two DEF Players, Live
<1>2. HasMove("client")
    BY <1>1, MineHasMove
<1> QED BY <1>1, <1>2, Two DEF HasMove

\* The two players never both have the move.
THEOREM OneMoves == Safety => []OneMove
BY NeverBoth, Invariance, PTL

-----------------------------------------------------------------------------
(* The refinement                                                          *)

\* Without kills: which player is in front, and whose turn that makes it.
LEMMA FrontMove ==
    ASSUME NEW p \in Players, HasMove(p)
    PROVE  Front = p /\ \A r \in Players : pc[r] \in Live
BY Two DEF Front, HasMove, Live, Players, Other

LEMMA FrontMoved ==
    ASSUME NEW p \in Players, HasMoved(p)
    PROVE  Front = p /\ \A r \in Players : pc[r] \in Live
<1>1. PICK c \in Cells : link[p] = <<c>>
    BY DEF HasMoved
<1>2. link[p] # <<>>
    BY <1>1
<1> QED BY <1>2, Two DEF Front, HasMoved, Live, Players, Other

\* The board and the turn that the two programs stand for.
board == plane[Front]
turn == IF \E p \in Players : pc[p] \notin Live THEN "over"
        ELSE IF pc[Front] = "mine" THEN Front ELSE Other(Front)

LEMMA BoardMove ==
    ASSUME NEW p \in Players, HasMove(p)
    PROVE  board = plane[p] /\ turn = p
BY FrontMove DEF board, turn, HasMove

LEMMA BoardMoved ==
    ASSUME NEW p \in Players, HasMoved(p)
    PROVE  board = plane[p] /\ turn = Other(p)
BY FrontMoved DEF board, turn, HasMoved

LEMMA BoardQuit ==
    ASSUME NEW p \in Players, HasQuit(p)
    PROVE  board = plane[p] /\ turn = "over"
BY Two DEF Front, board, turn, HasQuit, Live, Players, Other

LEMMA StepRefines ==
    ASSUME Dies = {}, IInv, IInv', [Next]_vars
    PROVE  [Goban!Next]_<<board, turn>>
<1> USE Two
<1> SUFFICES (Goban!Quit \/ \E p \in Players : Goban!Put(p)) \/ (board' = board /\ turn' = turn)
    BY DEF Goban!Next
<1>0. NoKill /\ NoKill' /\ "q" \notin Cells
    BY SanmokuAssumption DEF IInv
<1>1. ASSUME NEW p \in Players, NEW d \in Cells, Move(p, d)
      PROVE  Goban!Put(p)
    <2>1. HasMove(p) /\ tie[p] = "open"
        BY <1>0, <1>1, MineHasMove DEF Move
    <2>2. /\ pc' = [pc EXCEPT ![p] = "theirs"]
          /\ link' = [link EXCEPT ![p] = <<d>>]
          /\ plane' = [plane EXCEPT ![p] = Marked(@, d, p)]
        BY <1>1, <2>1 DEF Move, HasMove, Sent
    <2>3. /\ pc'[p] = "theirs" /\ pc'[Other(p)] = "theirs"
          /\ link'[p] = <<d>> /\ link'[Other(p)] = <<>>
          /\ plane'[p] = Marked(plane[p], d, p) /\ plane'[Other(p)] = plane[p]
        BY <2>1, <2>2 DEF HasMove, IInv, TypeOK
    <2>4. HasMoved(p)'
        BY <2>3 DEF HasMoved, Marked
    <2>5. board = plane[p] /\ turn = p
        BY <2>1, BoardMove
    <2>6. board' = plane'[p] /\ turn' = Other(p)
        <3>1. Front' = p /\ \A r \in Players : pc'[r] \in Live
            BY <2>3, Two DEF Front, Live, Players, Other
        <3> QED BY <2>3, <3>1 DEF board, turn
    <2>7. board \in Plane
        BY <2>5 DEF IInv, TypeOK
    <2>8. board' = [c \in Cells |-> IF c = d THEN Stone(p) ELSE board[c]]
        BY <2>3, <2>5, <2>6, <2>7 DEF Marked, Plane
    <2> QED BY <2>5, <2>6, <2>7, <2>8 DEF Goban!Put, Goban!Stone, Stone, Plane, Players, Other, board, turn
<1>2. ASSUME NEW p \in Players, Quit(p) PROVE Goban!Quit
    <2>1. HasMove(p) /\ tie[p] = "open"
        BY <1>0, <1>2, MineHasMove DEF Quit
    <2>2. /\ Close(p, "quit", <<"q">>) /\ plane' = plane
        BY <1>2, <2>1 DEF Quit, HasMove, Sent
    <2>3. pc' = [pc EXCEPT ![p] = "quit"]
        BY <2>2 DEF Close
    <2>4. pc'[p] \notin Live /\ Front' \in Players
        BY <2>3 DEF IInv, TypeOK, Live, Front, Players
    <2>5. turn' = "over" /\ board' = plane'[Front']
        BY <2>4 DEF turn, board
    <2>6. board' = board
        BY <2>1, <2>2, <2>4, <2>5, BoardMove DEF HasMove
    <2> QED BY <2>1, <2>5, <2>6, BoardMove DEF Goban!Quit, board, turn
<1>3. ASSUME NEW p \in Players, PeerTurn(p) PROVE board' = board /\ turn' = turn
    <2> DEFINE q == Other(p)
    <2>1. pc[p] = "theirs" /\ (link[q] # <<>> \/ tie[p] # "open")
        BY <1>3 DEF PeerTurn
    <2>2. PICK d : /\ d \in IF link[q] # <<>> THEN {Head(link[q])} ELSE Data
                   /\ IF d = "q" THEN Close(p, "told", link[p]) /\ UNCHANGED plane
                      ELSE /\ plane' = [plane EXCEPT ![p] = Marked(@, d, q)]
                           /\ pc' = [pc EXCEPT ![p] = "mine"]
                           /\ link' = IF link[q] # <<>> THEN [link EXCEPT ![q] = Tail(@)] ELSE link
                           /\ UNCHANGED tie
        BY <1>3 DEF PeerTurn
    <2>3. ~(HasMove(q) /\ tie[p] = "open") /\ ~(HasMoved(p) /\ tie[p] = "open")
        BY <2>1 DEF HasMove, HasMoved
    <2>4. HasMoved(q) \/ (HasQuit(q) /\ pc[q] = "quit")
        BY <1>0, <2>1, <2>3, TheirsWaits
    <2>5. CASE HasMoved(q)
        <3>1. PICK c \in Cells : link[q] = <<c>> /\ plane[q] = Marked(plane[p], c, q)
            BY <2>5 DEF HasMoved
        <3>2. d = c /\ d # "q" /\ Tail(link[q]) = <<>>
            BY <1>0, <2>2, <3>1
        <3>3. /\ pc' = [pc EXCEPT ![p] = "mine"] /\ link' = [link EXCEPT ![q] = <<>>]
              /\ plane' = [plane EXCEPT ![p] = plane[q]]
            BY <2>2, <3>1, <3>2
        <3>4. /\ pc'[p] = "mine" /\ pc'[q] = "theirs" /\ link'[p] = <<>> /\ link'[q] = <<>>
              /\ plane'[p] = plane[q]
            BY <2>5, <3>3 DEF HasMoved, IInv, TypeOK
        <3>5. Front' = p /\ \A r \in Players : pc'[r] \in Live
            BY <3>4 DEF Front, Live, Players, Other
        <3>6. board' = plane[q] /\ turn' = p
            BY <3>4, <3>5 DEF board, turn
        <3> QED BY <2>5, <3>6, BoardMoved
    <2>6. CASE HasQuit(q) /\ pc[q] = "quit"
        <3>1. link[q] = <<"q">> /\ plane[p] = plane[q]
            BY <2>1, <2>6 DEF HasQuit
        <3>2. d = "q"
            BY <2>2, <3>1
        <3>3. Close(p, "told", link[p]) /\ plane' = plane
            BY <2>2, <3>2
        <3>4. pc' = [pc EXCEPT ![p] = "told"]
            BY <3>3 DEF Close
        <3>5. pc'[p] \notin Live /\ Front' \in Players
            BY <3>4 DEF IInv, TypeOK, Live, Front, Players
        <3>6. turn' = "over" /\ board' = plane'[Front']
            BY <3>5 DEF turn, board
        <3> QED BY <2>6, <3>1, <3>3, <3>5, <3>6, BoardQuit
    <2> QED BY <2>4, <2>5, <2>6
<1>4. ~ \E p \in Players : Kill(p)
    BY DEF Kill
<1>5. CASE UNCHANGED vars
    <2>1. pc' = pc /\ link' = link /\ plane' = plane
        BY <1>5 DEF vars
    <2>2. Front' = Front
        BY <2>1 DEF Front
    <2> QED BY <2>1, <2>2 DEF board, turn
<1> QED BY <1>1, <1>2, <1>3, <1>4, <1>5 DEF Next

\* Without kills the two programs keep one board between them.
THEOREM Refinement == ASSUME Dies = {} PROVE Safety => ImplementsBoard
<1>1. Init => Goban!Init
    <2> SUFFICES ASSUME Init PROVE board = [c \in Cells |-> "."] /\ turn = "client"
        BY DEF Goban!Init, board, turn
    <2>1. HasMove("client")
        BY DEF Init, HasMove, Players, Other
    <2> QED BY <2>1, BoardMove DEF Init, Players
<1>2. IInv /\ IInv' /\ [Next]_vars => [Goban!Next]_<<board, turn>>
    BY StepRefines
<1>3. Safety => Goban!Init /\ [][Goban!Next]_<<board, turn>>
    BY <1>1, <1>2, Invariance, PTL DEF Safety
<1> QED BY <1>3 DEF ImplementsBoard, Goban!Spec, board, turn

-----------------------------------------------------------------------------
(* SimpleChat                                                              *)

\* A party's line is open as long as the other is there.
Seen == \A p \in Players : chatTie[p] = "open" <=> chatPc[Other(p)] # "over"

\* The first half of "quit" comes from a client that is gone.
QuitsGone ==
    (\E k \in 1 .. Len(chatLink["client"]) : chatLink["client"][k] = "qu") =>
        chatPc["client"] = "over"

\* While both are there, one types or has something coming.
Busy ==
    (\A p \in Players : chatPc[p] # "over") =>
        \E p \in Players : chatPc[p] = "type" \/ chatLink[p] # <<>>

\* Lines that come whole: the server has the turn, or the client, or the line of one
\* is on its way to the other.
InTurn ==
    ~Splits /\ (\A p \in Players : chatPc[p] # "over") =>
        LET lead == said["server"] - said["client"] IN
        \/ /\ chatPc["client"] = "read" /\ chatLink["client"] = <<>> /\ lead \in {0, 1}
           /\ \/ chatPc["server"] = "type" /\ chatLink["server"] = <<>> /\ lead = 0
              \/ chatPc["server"] = "read" /\ chatLink["server"] # <<>> /\ lead = 1
        \/ /\ chatPc["server"] = "read" /\ chatLink["server"] = <<>>
           /\ \/ chatPc["client"] = "type" /\ chatLink["client"] = <<>> /\ lead = 1
              \/ chatPc["client"] = "read" /\ chatLink["client"] # <<>> /\ lead = 0

ChatInv == Chat!TypeOK /\ Seen /\ QuitsGone /\ Busy /\ InTurn /\ Chat!LastOut

Halves == {"te", "xt", "qu", "it"}

LEMMA NoHalves == <<>> \in Seq(Halves)
OBVIOUS


LEMMA ChatStart == Chat!SimpleChatAssumption /\ Chat!Init => ChatInv
<1> SUFFICES ASSUME Chat!SimpleChatAssumption, Chat!Init PROVE ChatInv
    OBVIOUS
<1> USE DEF Chat!Parties, Chat!Other, Players, Other
<1>0. /\ chatPc["server"] = "type" /\ chatPc["client"] = "read"
      /\ said["server"] = 0 /\ said["client"] = 0
      /\ chatLink["server"] = <<>> /\ chatLink["client"] = <<>>
      /\ chatTie["server"] = "open" /\ chatTie["client"] = "open"
    BY DEF Chat!Init
<1>1. Chat!TypeOK
    <2>1. chatBuf \in [Players -> [1 .. 2 -> {"", "te", "xt", "qu", "it"}]]
        <3>1. <<"", "">> \in [1 .. 2 -> {"", "te", "xt", "qu", "it"}]
            BY Pair
        <3> QED BY <3>1 DEF Chat!Init
    <2>2. 0 \in 0 .. Rounds
        BY DEF Chat!SimpleChatAssumption
    <2>3. chatLink \in [Players -> Seq(Halves)]
        BY NoHalves DEF Chat!Init
    <2> QED BY <2>1, <2>2, <2>3 DEF Chat!Init, Chat!TypeOK, Halves
<1>2. Seen /\ Busy
    BY <1>0 DEF Seen, Busy
<1>3. QuitsGone
    <2>1. Len(chatLink["client"]) = 0
        BY <1>0
    <2> QED BY <2>1 DEF QuitsGone
<1>4. InTurn
    BY <1>0 DEF InTurn
<1>5. Chat!LastOut
    BY <1>0 DEF Chat!LastOut
<1> QED BY <1>1, <1>2, <1>3, <1>4, <1>5 DEF ChatInv

\* What the end of p makes of a state, with l under way from him.
LEMMA ChatEnd ==
    ASSUME Chat!TypeOK, NEW p \in Players, NEW l \in Seq(Halves), Chat!End(p, l)
    PROVE  /\ chatPc' = [chatPc EXCEPT ![p] = "over"]
           /\ chatPc' \in [Players -> {"type", "read", "over"}]
           /\ chatLink' \in [Players -> Seq(Halves)]
           /\ chatLink'[p] = l /\ chatLink'[Other(p)] = <<>>
           /\ chatTie' \in [Players -> {"open", "shut", "reset"}]
           /\ chatTie'[Other(p)] # "open" /\ chatTie'[p] = chatTie[p]
<1> USE DEF Chat!Parties, Chat!Other, Players, Other
<1>2. chatPc' = [chatPc EXCEPT ![p] = "over"] /\ chatPc' \in [Players -> {"type", "read", "over"}]
    BY DEF Chat!End, Chat!TypeOK
<1>3. /\ chatLink' \in [Players -> Seq(Halves)]
      /\ chatLink'[p] = l /\ chatLink'[Other(p)] = <<>>
 BY NoHalves DEF Chat!End, Chat!TypeOK, Halves
<1>4. /\ chatTie' \in [Players -> {"open", "shut", "reset"}]
      /\ chatTie'[Other(p)] # "open" /\ chatTie'[p] = chatTie[p]
    BY DEF Chat!End, Chat!TypeOK
<1> QED BY <1>2, <1>3, <1>4

\* When p ends, what the others' states say of both being there is gone with him.
LEMMA ChatEnds ==
    ASSUME ChatInv, NEW p \in Players, NEW l \in Seq(Halves), Chat!End(p, l),
           chatPc[p] # "over",
           said' \in [Players -> 0 .. Rounds], quit' \in [Players -> BOOLEAN],
           chatBuf' \in [Players -> [1 .. 2 -> {"", "te", "xt", "qu", "it"}]],
           p = "server" => chatPc["client"] = "over" \/ "server" \in ChatDies
    PROVE  ChatInv'
<1> USE DEF Chat!Parties, Chat!Other, Players, Other
<1>1. Chat!TypeOK
    BY DEF ChatInv
<1>2. /\ chatPc' = [chatPc EXCEPT ![p] = "over"]
      /\ chatPc' \in [Players -> {"type", "read", "over"}]
      /\ chatLink' \in [Players -> Seq(Halves)]
      /\ chatLink'[p] = l /\ chatLink'[Other(p)] = <<>>
      /\ chatTie' \in [Players -> {"open", "shut", "reset"}]
      /\ chatTie'[Other(p)] # "open" /\ chatTie'[p] = chatTie[p]
    BY <1>1, ChatEnd
<1>3. Chat!TypeOK'
    BY <1>2 DEF Chat!TypeOK, Halves
<1>4. chatPc'[p] = "over" /\ chatPc'[Other(p)] = chatPc[Other(p)]
    BY <1>1, <1>2 DEF Chat!TypeOK
<1>5. Seen'
    BY <1>2, <1>4 DEF ChatInv, Seen
<1>6. Busy' /\ InTurn'
    BY <1>4 DEF Busy, InTurn
<1>7. QuitsGone'
    <2>1. CASE p = "client"
        BY <1>4, <2>1 DEF QuitsGone
    <2>2. CASE p = "server"
        <3>1. chatLink'["client"] = <<>>
            BY <1>2, <2>2
        <3>3. 1 .. Len(chatLink'["client"]) = {}
            BY <3>1, NoneOfNone, Zenon
        <3> QED BY <3>3 DEF QuitsGone
    <2> QED BY <2>1, <2>2
<1>8. Chat!LastOut'
    BY <1>4 DEF ChatInv, Chat!LastOut
<1> QED BY <1>3, <1>5, <1>6, <1>7, <1>8 DEF ChatInv

\* What the read of p leaves in his buffer.
LEMMA Fills ==
    ASSUME NEW S, NEW b \in [1 .. 2 -> S], NEW s \in Seq(S)
    PROVE  /\ Chat!Filled(b, s) \in [1 .. 2 -> S]
           /\ Chat!Filled(b, s)[1] = IF s = <<>> THEN b[1] ELSE s[1]
<1> DEFINE t == s \o SubSeq(b, Len(s) + 1, 2)
           f == SubSeq(t, 1, 2)
<1>1. Len(s) \in Nat
    BY LenProperties
<1>2. /\ t \in Seq(S) /\ Len(t) = IF Len(s) < 2 THEN 2 ELSE Len(s)
      /\ t[1] = IF s = <<>> THEN b[1] ELSE s[1]
    BY ReadInto
<1> HIDE DEF t
<1>3. \A i \in 1 .. 2 : t[i] \in S
    BY <1>1, <1>2, ElementOfSeq
<1>4. f \in Seq(S) /\ Len(f) = 2 /\ f[1] = t[1]
    <2>1. f \in Seq(S) /\ Len(f) = 2 /\ \A i \in 1 .. 2 - 1 + 1 : f[i] = t[1 + i - 1]
        BY <1>3, SubSeqProperties
    <2> HIDE DEF f
    <2> QED BY <2>1
<1>5. f \in [1 .. 2 -> S]
    <2> HIDE DEF f
    <2> QED BY <1>4, LenProperties
<1> QED BY <1>2, <1>4, <1>5 DEF t, Chat!Filled

LEMMA ChatTyped ==
    ASSUME Chat!SimpleChatAssumption, ChatInv,
           NEW p \in Players, NEW line \in {Chat!Text, Chat!Quit}, Chat!Type(p, line)
    PROVE  ChatInv'
<1> USE DEF Chat!Parties, Chat!Other, Players, Other
<1> DEFINE l == IF chatTie[p] = "open" THEN chatLink[p] \o line ELSE chatLink[p]
<1>0. Chat!TypeOK
    BY DEF ChatInv
<1>1. /\ chatPc[p] = "type" /\ said[p] < Rounds
      /\ said' = [said EXCEPT ![p] = @ + 1]
      /\ quit' = [quit EXCEPT ![p] = @ \/ line = Chat!Quit]
      /\ chatBuf' = [chatBuf EXCEPT ![p] = line]
    BY DEF Chat!Type
<1>2. line \in [1 .. 2 -> {"", "te", "xt", "qu", "it"}] /\ line \in Seq(Halves) /\ Len(line) = 2
    <2>1. Chat!Text \in [1 .. 2 -> {"", "te", "xt", "qu", "it"}]
        BY Pair DEF Chat!Text
    <2>2. Chat!Quit \in [1 .. 2 -> {"", "te", "xt", "qu", "it"}]
        BY Pair DEF Chat!Quit
    <2>3. Chat!Text \in Seq(Halves) /\ Chat!Quit \in Seq(Halves)
        BY DEF Chat!Text, Chat!Quit, Halves
    <2>4. Len(Chat!Text) = 2 /\ Len(Chat!Quit) = 2
        BY DEF Chat!Text, Chat!Quit
    <2> QED BY <2>1, <2>2, <2>3, <2>4
<1>3. /\ said' \in [Players -> 0 .. Rounds] /\ quit' \in [Players -> BOOLEAN]
      /\ chatBuf' \in [Players -> [1 .. 2 -> {"", "te", "xt", "qu", "it"}]]
    <2>1. said[p] \in 0 .. Rounds /\ Rounds \in Nat
        BY <1>0 DEF Chat!TypeOK, Chat!SimpleChatAssumption
    <2>2. said[p] + 1 \in 0 .. Rounds
        BY <1>1, <2>1
    <2>3. said' \in [Players -> 0 .. Rounds]
        BY <1>0, <1>1, <2>2 DEF Chat!TypeOK
    <2>4. quit' \in [Players -> BOOLEAN]
        BY <1>0, <1>1 DEF Chat!TypeOK
    <2>5. chatBuf \in [Players -> [1 .. 2 -> {"", "te", "xt", "qu", "it"}]]
        BY <1>0 DEF Chat!TypeOK
    <2>6. ASSUME NEW S, chatBuf \in [Players -> S], line \in S PROVE chatBuf' \in [Players -> S]
        BY <1>1, <2>6
    <2> QED BY <1>2, <2>3, <2>4, <2>5, <2>6
<1>4. l \in Seq(Halves)
    <2>1. chatLink[p] \in Seq(Halves)
        BY <1>0 DEF Chat!TypeOK, Halves
    <2> QED BY <1>2, <2>1, Joined, Zenon
<1>5. CASE chatTie[p] = "reset" \/ (p = "client" /\ line = Chat!Quit)
    <2>1. Chat!End(p, l)
        BY <1>5 DEF Chat!Type
    <2>2. p = "server" => chatPc["client"] = "over"
        BY <1>5 DEF ChatInv, Seen
    <2> HIDE DEF l
    <2> QED BY <1>1, <1>3, <1>4, <2>1, <2>2, ChatEnds
<1>6. CASE ~(chatTie[p] = "reset" \/ (p = "client" /\ line = Chat!Quit))
    <2>1. /\ chatPc' = [chatPc EXCEPT ![p] = "read"]
          /\ chatLink' = [chatLink EXCEPT ![p] = l]
          /\ chatTie' = [chatTie EXCEPT ![p] = IF @ = "open" THEN @ ELSE "reset"]
        BY <1>6 DEF Chat!Type
    <2>2. Chat!TypeOK'
        BY <1>0, <1>3, <1>4, <2>1 DEF Chat!TypeOK, Halves
    <2>3. /\ chatPc'[p] = "read" /\ chatPc'[Other(p)] = chatPc[Other(p)]
          /\ chatLink'[p] = l /\ chatLink'[Other(p)] = chatLink[Other(p)]
          /\ chatTie'[p] = "open" <=> chatTie[p] = "open"
          /\ chatTie'[Other(p)] = chatTie[Other(p)]
          /\ said'[p] = said[p] + 1 /\ said'[Other(p)] = said[Other(p)]
        BY <1>0, <1>1, <2>1 DEF Chat!TypeOK
    <2>4. Seen'
        BY <1>1, <2>3 DEF ChatInv, Seen
    <2>5. chatTie[p] = "open" => l # <<>>
        <3>1. chatLink[p] \in Seq(Halves)
            BY <1>0 DEF Chat!TypeOK, Halves
        <3> QED BY <1>2, <3>1, Joined, Zenon
    <2>6. (\A q \in Players : chatPc'[q] # "over") => chatTie[p] = "open"
        BY <2>3 DEF ChatInv, Seen
    <2>7. Busy'
        BY <2>3, <2>5, <2>6 DEF Busy
    <2>8. QuitsGone'
        <3>1. CASE p = "server"
            BY <2>3, <3>1 DEF ChatInv, QuitsGone
        <3>2. CASE p = "client"
            <4>1. line = <<"te", "xt">>
                BY <1>6, <3>2 DEF Chat!Text
            <4>0. line[1] # "qu" /\ line[2] # "qu"
                BY <4>1
            <4>5. chatLink["client"] \in Seq(Halves)
                BY <1>0 DEF Chat!TypeOK, Halves
            <4>2. \A k \in 1 .. Len(l) : l[k] = "qu" =>
                     k \in 1 .. Len(chatLink["client"]) /\ chatLink["client"][k] = "qu"
                <5>1. \A k \in 1 .. Len(chatLink["client"] \o line) :
                         \/ /\ k \in 1 .. Len(chatLink["client"])
                            /\ (chatLink["client"] \o line)[k] = chatLink["client"][k]
                         \/ (chatLink["client"] \o line)[k] = line[1]
                         \/ (chatLink["client"] \o line)[k] = line[2]
                    BY <1>2, <4>5, Joined, Zenon
                <5>2. l = chatLink["client"] \/ l = chatLink["client"] \o line
                    BY <3>2
                <5> HIDE DEF l
                <5> QED BY <4>0, <5>1, <5>2, Zenon
            <4>3. chatPc["client"] # "over"
                BY <1>1, <3>2
            <4> QED BY <2>3, <3>2, <4>2, <4>3 DEF ChatInv, QuitsGone
        <3> QED BY <3>1, <3>2
    <2>9. InTurn'
        <3> SUFFICES ASSUME ~Splits, \A q \in Players : chatPc'[q] # "over"
                     PROVE  InTurn'
            BY DEF InTurn
        <3>1. \A q \in Players : chatPc[q] # "over"
            BY <1>1, <2>3
        <3>2. said["server"] \in Int /\ said["client"] \in Int
            <4>1. said["server"] \in 0 .. Rounds /\ said["client"] \in 0 .. Rounds
                BY <1>0 DEF Chat!TypeOK
            <4> QED BY <4>1 DEF Chat!SimpleChatAssumption
        <3> HIDE DEF l
        <3> QED BY <1>1, <2>3, <2>5, <2>6, <3>1, <3>2 DEF ChatInv, InTurn
    <2>10. Chat!LastOut'
        BY <1>1, <2>3 DEF ChatInv, Chat!LastOut
    <2> QED BY <2>2, <2>4, <2>7, <2>8, <2>9, <2>10 DEF ChatInv
<1> QED BY <1>5, <1>6

\* What p has read, and what is left: his buffer starts with a piece that was under
\* way, or nothing was.
LEMMA ChatRead ==
    ASSUME Chat!SimpleChatAssumption, ChatInv, NEW p \in Players, Chat!Read(p)
    PROVE  ChatInv'
<1> USE DEF Chat!Parties, Chat!Other, Players, Other
<1> DEFINE q == Other(p)
           Held == {"", "te", "xt", "qu", "it"}
<1>0. Chat!TypeOK
    BY DEF ChatInv
<1>1. PICK k \in 0 .. Len(chatLink[q]) :
          /\ k = 0 => chatLink[q] = <<>> /\ chatTie[p] # "open"
          /\ k > 0 => Splits \/ k = Len(chatLink[q])
          /\ chatBuf' = [chatBuf EXCEPT ![p] = Chat!Filled(@, SubSeq(chatLink[q], 1, k))]
          /\ IF p = "server" /\ chatBuf'[p] = Chat!Quit THEN Chat!End(p, chatLink[p])
             ELSE /\ chatPc' = [chatPc EXCEPT ![p] = "type"]
                  /\ chatLink' = [chatLink EXCEPT ![q] = SubSeq(@, k + 1, Len(@))]
                  /\ UNCHANGED chatTie
    BY DEF Chat!Read
<1>2. chatPc[p] = "read" /\ UNCHANGED <<said, quit>>
    BY DEF Chat!Read
<1> DEFINE h == SubSeq(chatLink[q], 1, k)
           t == SubSeq(chatLink[q], k + 1, Len(chatLink[q]))
<1>3. chatLink[q] \in Seq(Halves) /\ chatLink[p] \in Seq(Halves)
    BY <1>0 DEF Chat!TypeOK, Halves
<1>4. /\ h \in Seq(Halves) /\ Len(h) = k /\ (h = <<>> <=> k = 0)
      /\ \A i \in 1 .. k : h[i] = chatLink[q][i]
      /\ t \in Seq(Halves) /\ Len(t) = Len(chatLink[q]) - k /\ (t = <<>> <=> k = Len(chatLink[q]))
      /\ \A i \in 1 .. Len(chatLink[q]) - k : t[i] = chatLink[q][k + i]
    <2>1. \A s \in Seq(Halves) : \A n \in 0 .. Len(s) :
              LET a == SubSeq(s, 1, n)
                  b == SubSeq(s, n + 1, Len(s))
              IN  /\ a \in Seq(Halves) /\ Len(a) = n /\ (a = <<>> <=> n = 0)
                  /\ \A i \in 1 .. n : a[i] = s[i]
                  /\ b \in Seq(Halves) /\ Len(b) = Len(s) - n /\ (b = <<>> <=> n = Len(s))
                  /\ \A i \in 1 .. Len(s) - n : b[i] = s[n + i]
        BY Parted
    <2> QED BY <1>3, <2>1, Zenon
<1> HIDE DEF h, t
<1>5. h \in Seq(Held)
    <2>1. Halves \subseteq Held
        BY DEF Halves
    <2> HIDE DEF Held
    <2> QED BY <1>4, <2>1
<1>6. chatBuf[p] \in [1 .. 2 -> Held]
    BY <1>0 DEF Chat!TypeOK
<1>7. /\ Chat!Filled(chatBuf[p], h) \in [1 .. 2 -> Held]
      /\ Chat!Filled(chatBuf[p], h)[1] = IF h = <<>> THEN chatBuf[p][1] ELSE h[1]
    <2> HIDE DEF Held
    <2> QED BY <1>5, <1>6, Fills
<1>8. chatBuf' \in [Players -> [1 .. 2 -> Held]] /\ chatBuf'[p] = Chat!Filled(chatBuf[p], h)
    <2>1. chatBuf \in [Players -> [1 .. 2 -> Held]]
        BY <1>0 DEF Chat!TypeOK
    <2>2. ASSUME NEW S, chatBuf \in [Players -> S], Chat!Filled(chatBuf[p], h) \in S
          PROVE  chatBuf' \in [Players -> S] /\ chatBuf'[p] = Chat!Filled(chatBuf[p], h)
        BY <1>1, <2>2 DEF h
    <2> HIDE DEF Held
    <2> QED BY <1>7, <2>1, <2>2
<1>9. said' \in [Players -> 0 .. Rounds] /\ quit' \in [Players -> BOOLEAN]
    BY <1>0, <1>2 DEF Chat!TypeOK
<1>10. CASE p = "server" /\ chatBuf'[p] = Chat!Quit
    <2>1. Chat!End(p, chatLink[p])
        BY <1>1, <1>10
    <2>2. chatPc["client"] = "over"
        <3>1. CASE k = 0
            BY <1>1, <1>10, <3>1 DEF ChatInv, Seen
        <3>2. CASE k # 0
            <4>1. chatBuf'[p][1] = "qu"
                BY <1>10 DEF Chat!Quit
            <4>2. 1 \in 1 .. k /\ 1 \in 1 .. Len(chatLink[q])
                BY <1>3, <3>2, LenProperties
            <4>3. chatLink["client"][1] = "qu"
                BY <1>4, <1>7, <1>8, <1>10, <3>2, <4>1, <4>2
            <4> QED BY <1>10, <4>2, <4>3 DEF ChatInv, QuitsGone
        <3> QED BY <3>1, <3>2
    <2> QED BY <1>2, <1>3, <1>8, <1>9, <2>1, <2>2, ChatEnds
<1>11. CASE ~(p = "server" /\ chatBuf'[p] = Chat!Quit)
    <2>1. /\ chatPc' = [chatPc EXCEPT ![p] = "type"]
          /\ chatLink' = [chatLink EXCEPT ![q] = t]
          /\ UNCHANGED chatTie
        BY <1>0, <1>1, <1>11 DEF t, Chat!TypeOK
    <2>2. Chat!TypeOK'
        BY <1>0, <1>4, <1>8, <1>9, <2>1 DEF Chat!TypeOK, Halves
    <2>3. /\ chatPc'[p] = "type" /\ chatPc'[q] = chatPc[q]
          /\ chatLink'[q] = t /\ chatLink'[p] = chatLink[p]
        BY <1>0, <2>1 DEF Chat!TypeOK
    <2>4. Seen'
        BY <1>2, <2>1, <2>3 DEF ChatInv, Seen
    <2>5. Busy'
        BY <2>3 DEF Busy
    <2>6. QuitsGone'
        <3>1. CASE p = "client"
            BY <1>2, <2>3, <3>1 DEF ChatInv, QuitsGone
        <3>2. CASE p = "server"
            <4>1. \A i \in 1 .. Len(t) : t[i] = "qu" =>
                     \E j \in 1 .. Len(chatLink["client"]) : chatLink["client"][j] = "qu"
                <5>1. \A i \in 1 .. Len(t) : k + i \in 1 .. Len(chatLink[q]) /\ t[i] = chatLink[q][k + i]
                    BY <1>3, <1>4, LenProperties
                <5> QED BY <3>2, <5>1
            <4> QED BY <2>3, <3>2, <4>1 DEF ChatInv, QuitsGone
        <3> QED BY <3>1, <3>2
    <2>7. InTurn'
        <3> SUFFICES ASSUME ~Splits, \A r \in Players : chatPc'[r] # "over"
                     PROVE  InTurn'
            BY DEF InTurn
        <3>1. \A r \in Players : chatPc[r] # "over"
            BY <1>2, <2>3
        <3>2. chatTie[p] = "open"
            BY <3>1 DEF ChatInv, Seen
        <3>3. k # 0 /\ chatLink[q] # <<>> /\ t = <<>>
            BY <1>1, <1>3, <1>4, <3>2, LenProperties, EmptySeq
        <3> QED BY <1>2, <2>3, <3>1, <3>3 DEF ChatInv, InTurn
    <2>8. Chat!LastOut'
        BY <1>2, <2>3 DEF ChatInv, Chat!LastOut
    <2> QED BY <2>2, <2>4, <2>5, <2>6, <2>7, <2>8 DEF ChatInv
<1> QED BY <1>10, <1>11

LEMMA ChatKilled ==
    ASSUME ChatInv, NEW p \in Players, Chat!Kill(p)
    PROVE  ChatInv'
<1> USE DEF Chat!Parties, Players
<1>0. Chat!TypeOK
    BY DEF ChatInv
<1>1. /\ chatPc[p] # "over" /\ p \in ChatDies /\ Chat!End(p, chatLink[p])
      /\ UNCHANGED <<chatBuf, said, quit>>
    BY DEF Chat!Kill
<1>2. chatLink[p] \in Seq(Halves)
    BY <1>0 DEF Chat!TypeOK, Halves
<1>3. /\ said' \in [Players -> 0 .. Rounds] /\ quit' \in [Players -> BOOLEAN]
      /\ chatBuf' \in [Players -> [1 .. 2 -> {"", "te", "xt", "qu", "it"}]]
    BY <1>0, <1>1 DEF Chat!TypeOK
<1> QED BY <1>1, <1>2, <1>3, ChatEnds

LEMMA ChatStep == Chat!SimpleChatAssumption /\ ChatInv /\ [Chat!Next]_chatVars => ChatInv'
<1> SUFFICES ASSUME Chat!SimpleChatAssumption, ChatInv, [Chat!Next]_chatVars PROVE ChatInv'
    OBVIOUS
<1>1. CASE Chat!Next
    <2>1. PICK p \in Players :
              Chat!Read(p) \/ Chat!Kill(p) \/ Chat!Type(p, Chat!Text) \/ Chat!Type(p, Chat!Quit)
        BY <1>1 DEF Chat!Next, Chat!Parties, Players
    <2> QED BY <2>1, ChatRead, ChatKilled, ChatTyped
<1>2. CASE UNCHANGED chatVars
    BY <1>2 DEF ChatInv, Chat!TypeOK, Seen, QuitsGone, Busy, InTurn, Chat!LastOut, chatVars
<1> QED BY <1>1, <1>2

\* What simple_chat promises follows.
LEMMA ChatPromises ==
    ASSUME Chat!SimpleChatAssumption, ChatInv
    PROVE  /\ Chat!TypeOK /\ Chat!Waits /\ Chat!LastOut
           /\ ~Splits => Chat!Turns
<1> USE DEF Chat!Parties, Chat!Other, Players, Other
<1>0. Chat!TypeOK /\ Chat!LastOut
    BY DEF ChatInv
<1>1. Chat!Waits
    BY <1>0 DEF Chat!Waits, ChatInv, Seen, Busy, Chat!TypeOK
<1>2. ASSUME ~Splits PROVE Chat!Turns
    <2> SUFFICES ASSUME chatTie["client"] = "open", chatTie["server"] = "open"
                 PROVE  said["server"] - said["client"] \in {0, 1} /\ said["server"] >= said["client"]
        BY DEF Chat!Turns
    <2>1. said["server"] - said["client"] \in {0, 1}
        BY <1>2 DEF ChatInv, Seen, InTurn
    <2>2. said["server"] \in 0 .. Rounds /\ said["client"] \in 0 .. Rounds
        BY <1>0 DEF Chat!TypeOK
    <2> QED BY <2>1, <2>2 DEF Chat!SimpleChatAssumption
<1> QED BY <1>0, <1>1, <1>2

\* The two take turns when lines come whole, neither waits for one who waits, and the
\* server leaves last, for any number of lines.
THEOREM Conversation ==
    ASSUME Chat!SimpleChatAssumption
    PROVE  Chat!Safety => [](Chat!TypeOK /\ Chat!Waits /\ Chat!LastOut /\ (~Splits => Chat!Turns))
<1>1. Chat!Init => ChatInv
    BY ChatStart
<1>2. ChatInv /\ [Chat!Next]_chatVars => ChatInv'
    BY ChatStep
<1>3. ChatInv => Chat!TypeOK /\ Chat!Waits /\ Chat!LastOut /\ (~Splits => Chat!Turns)
    BY ChatPromises
<1> QED BY <1>1, <1>2, <1>3, PTL DEF Chat!Safety, Chat!vars, chatVars

-----------------------------------------------------------------------------
(* Tag                                                                     *)

LEMMA Names == Tag!Players = Players /\ \A p \in Players : Tag!Other(p) = Other(p)
<1>1. Tag!Players = Players
    BY DEF Tag!Players, Players
<1>2. ASSUME NEW p \in Players PROVE Tag!Other(p) = Other(p)
    BY <1>1, Two DEF Tag!Other
<1> QED BY <1>1, <1>2

-----------------------------------------------------------------------------
\* A player's line is open as long as the other is there.
Known == \A p \in Players : tagTie[p] = "open" <=> run[Other(p)] = "on"

\* A "q" comes from a player who has quit; nobody goes on with one in his buffer.
QuitsSent ==
    \A q \in Players : \A k \in 1 .. Len(tagLink[q]) : tagLink[q][k].kind = "q" => run[q] = "quit"
NoneHeld == \A p \in Players : run[p] = "on" => buf[p][1].kind # "q"

\* What select returned is still there to be read.
Offered ==
    \A p \in Players :
        /\ "stdin" \in ready[p] => typed[p] # <<>>
        /\ "soc" \in ready[p] => tagLink[Other(p)] # <<>> \/ tagTie[p] # "open"

\* The pieces s are n reports, and a quit when their sender has gone.
Reporting(s, n, gone) ==
    /\ \A i \in 1 .. n : s[2 * i - 1].kind = "x" /\ s[2 * i].kind = "y"
    /\ \/ Len(s) = 2 * n
       \/ gone /\ Len(s) = 2 * n + 2 /\ s[2 * n + 1].kind = "q" /\ s[2 * n + 2].kind # "x"

\* The first n reports of s lead from a to b, step by step.
At(s, a, i) == IF i = 0 THEN a ELSE [x |-> s[2 * i - 1].n, y |-> s[2 * i].n]
Leading(s, n, a, b) ==
    /\ At(s, a, n) = b
    /\ \A i \in 1 .. n : Tag!Near(At(s, a, i - 1), At(s, a, i))

\* Messages that come whole: the link of q has reports from where he is shown to
\* where he is.
Watched(q) == run[Other(q)] = "on" /\ (run[q] = "on" \/ tagLink[q] # <<>>)
Led(q) ==
    \E n \in 0 .. Len(tagLink[q]) :
        /\ Reporting(tagLink[q], n, run[q] # "on")
        /\ Watched(q) => Leading(tagLink[q], n, peer[Other(q)], me[q])
Followed == ~Splits /\ ~Losses => \A q \in Players : Led(q) /\ buf[q][2].kind # "x"

TagInv == Tag!TypeOK /\ Known /\ QuitsSent /\ NoneHeld /\ Offered /\ Followed /\ Tag!NotSentAway

-----------------------------------------------------------------------------
\* The functions of session.c.

Place == [x : 1 .. MaxX, y : 1 .. MaxY]

LEMMA Updates ==
    ASSUME Tag!TagAssumption, NEW pos \in Place, NEW k
    PROVE  /\ Tag!Update(pos, k) \in Place
           /\ Tag!Near(pos, Tag!Update(pos, k))
           /\ k = "q" => Tag!Update(pos, k) = pos
<1> USE DEF Place
<1>1. pos.x \in 1 .. MaxX /\ pos.y \in 1 .. MaxY /\ MaxX \in Nat /\ MaxY \in Nat
    BY DEF Tag!TagAssumption
<1>2. CASE k = "h"
    BY <1>1, <1>2 DEF Tag!Update, Tag!Near
<1>3. CASE k = "l"
    BY <1>1, <1>3 DEF Tag!Update, Tag!Near
<1>4. CASE k = "k"
    BY <1>1, <1>4 DEF Tag!Update, Tag!Near
<1>5. CASE k = "j"
    BY <1>1, <1>5 DEF Tag!Update, Tag!Near
<1>6. CASE k \notin {"h", "l", "k", "j"}
    BY <1>1, <1>6 DEF Tag!Update, Tag!Near
<1> QED BY <1>2, <1>3, <1>4, <1>5, <1>6

LEMMA OnBoard ==
    ASSUME Tag!TagAssumption, NEW pos \in Place
    PROVE  /\ pos \in Tag!Position
           /\ Tag!Piece("x", pos.x) \in Tag!Pieces /\ Tag!Piece("y", pos.y) \in Tag!Pieces
           /\ pos = [x |-> pos.x, y |-> pos.y]
<1>1. pos.x \in Tag!Nums /\ pos.y \in Tag!Nums
    BY DEF Place, Tag!Nums, Tag!TagAssumption
<1>2. pos = [x |-> pos.x, y |-> pos.y]
    BY DEF Place
<1> HIDE DEF Place
<1> QED BY <1>1, <1>2 DEF Tag!Position, Tag!Pieces, Tag!Piece

LEMMA Writes ==
    ASSUME Tag!TagAssumption, NEW b \in [1 .. 2 -> Tag!Pieces], NEW pos \in Place, NEW k
    PROVE  LET w == Tag!Written(b, pos, k) IN
           /\ w \in [1 .. 2 -> Tag!Pieces] /\ w \in Seq(Tag!Pieces) /\ Len(w) = 2
           /\ k = "q" => w[1].kind = "q" /\ w[2] = b[2]
           /\ k # "q" => w[1] = Tag!Piece("x", pos.x) /\ w[2] = Tag!Piece("y", pos.y)
<1> DEFINE w == Tag!Written(b, pos, k)
<1>1. w \in [1 .. 2 -> Tag!Pieces]
    <2>1. CASE k = "q"
        <3>1. Tag!Piece("q", 0) \in Tag!Pieces
            BY DEF Tag!Piece, Tag!Pieces, Tag!Nums, Tag!TagAssumption
        <3> QED BY <2>1, <3>1 DEF Tag!Written
    <2>2. CASE k # "q"
        <3>1. Tag!Piece("x", pos.x) \in Tag!Pieces /\ Tag!Piece("y", pos.y) \in Tag!Pieces
            BY OnBoard
        <3>2. <<Tag!Piece("x", pos.x), Tag!Piece("y", pos.y)>> \in [1 .. 2 -> Tag!Pieces]
            BY <3>1, Pair
        <3> QED BY <2>2, <3>2 DEF Tag!Written
    <2> QED BY <2>1, <2>2
<1>2. w \in Seq(Tag!Pieces) /\ Len(w) = 2
    <2> HIDE DEF w
    <2> QED BY <1>1, Sized
<1>3. k = "q" => w[1].kind = "q" /\ w[2] = b[2]
    BY DEF Tag!Written, Tag!Piece
<1>4. k # "q" => w[1] = Tag!Piece("x", pos.x) /\ w[2] = Tag!Piece("y", pos.y)
    BY DEF Tag!Written
<1> QED BY <1>1, <1>2, <1>3, <1>4

LEMMA Interprets ==
    ASSUME NEW b \in [1 .. 2 -> Tag!Pieces], NEW pos \in Tag!Position
    PROVE  /\ Tag!Interpret(b, pos) \in Tag!Position
           /\ b[1].kind = "x" /\ b[2].kind = "y" =>
                Tag!Interpret(b, pos) = [x |-> b[1].n, y |-> b[2].n]
<1>1. b[1].n \in Tag!Nums /\ b[2].n \in Tag!Nums /\ pos.x \in Tag!Nums /\ pos.y \in Tag!Nums
    BY DEF Tag!Pieces, Tag!Position
<1> QED BY <1>1 DEF Tag!Interpret, Tag!Position

-----------------------------------------------------------------------------
\* What happens to the reports under way.

\* One is sent, of a step on from the last.
LEMMA OneMore ==
    ASSUME NEW S, NEW s \in Seq(S), NEW n \in Nat, NEW a, NEW b,
           NEW t \in Seq(S), Len(t) = 2, t[1].kind = "x", t[2].kind = "y",
           Reporting(s, n, FALSE), Leading(s, n, a, b),
           Tag!Near(b, [x |-> t[1].n, y |-> t[2].n])
    PROVE  /\ Reporting(s \o t, n + 1, FALSE)
           /\ Leading(s \o t, n + 1, a, [x |-> t[1].n, y |-> t[2].n])
           /\ n + 1 \in 0 .. Len(s \o t)
<1> DEFINE u == s \o t
<1>1. Len(s) = 2 * n /\ \A i \in 1 .. n : s[2 * i - 1].kind = "x" /\ s[2 * i].kind = "y"
    BY DEF Reporting
<1>2. /\ Len(u) = Len(s) + Len(t)
      /\ \A k \in 1 .. Len(s) + Len(t) : u[k] = IF k <= Len(s) THEN s[k] ELSE t[k - Len(s)]
    BY ConcatProperties
<1>3. Len(u) = 2 * n + 2 /\ Len(u) = 2 * (n + 1)
    BY <1>1, <1>2
<1> HIDE DEF u
<1>4. \A k \in 1 .. 2 * n : u[k] = s[k]
    BY <1>1, <1>2
<1>5. u[2 * n + 1] = t[1] /\ u[2 * n + 2] = t[2]
    <2>1. Len(s) = 2 * n /\ Len(t) = 2 /\ 2 * n \in Nat
        BY <1>1
    <2>2. 2 * n + 1 \in 1 .. Len(s) + Len(t) /\ 2 * n + 2 \in 1 .. Len(s) + Len(t)
        BY <2>1
    <2>3. ~(2 * n + 1 <= Len(s)) /\ (2 * n + 1) - Len(s) = 1
        BY <2>1
    <2>4. ~(2 * n + 2 <= Len(s)) /\ (2 * n + 2) - Len(s) = 2
        BY <2>1
    <2> QED BY <1>2, <2>2, <2>3, <2>4
<1>6. \A i \in 1 .. n : u[2 * i - 1] = s[2 * i - 1] /\ u[2 * i] = s[2 * i]
    BY <1>4
<1>7. 2 * (n + 1) - 1 = 2 * n + 1 /\ 2 * (n + 1) = 2 * n + 2
    OBVIOUS
<1>8. Reporting(u, n + 1, FALSE)
    <2>1. ASSUME NEW i \in 1 .. n + 1 PROVE u[2 * i - 1].kind = "x" /\ u[2 * i].kind = "y"
        <3>1. CASE i \in 1 .. n
            BY <1>1, <1>6, <3>1
        <3>2. CASE i = n + 1
            BY <1>5, <1>7, <3>2
        <3> QED BY <3>1, <3>2
    <2> QED BY <1>3, <2>1 DEF Reporting
<1>9. \A i \in 0 .. n : At(u, a, i) = At(s, a, i)
    BY <1>6 DEF At
<1>10. At(u, a, n + 1) = [x |-> t[1].n, y |-> t[2].n]
    BY <1>5, <1>7 DEF At
<1>11. Leading(u, n + 1, a, [x |-> t[1].n, y |-> t[2].n])
    <2>1. ASSUME NEW i \in 1 .. n + 1 PROVE Tag!Near(At(u, a, i - 1), At(u, a, i))
        <3>1. CASE i \in 1 .. n
            <4>1. i - 1 \in 0 .. n /\ i \in 0 .. n
                BY <3>1
            <4> QED BY <1>9, <3>1, <4>1 DEF Leading
        <3>2. CASE i = n + 1
            <4>1. i - 1 = n /\ n \in 0 .. n
                BY <3>2
            <4>2. At(u, a, i - 1) = b
                BY <1>9, <4>1 DEF Leading
            <4> QED BY <1>10, <3>2, <4>2
        <3> QED BY <3>1, <3>2
    <2> QED BY <1>10, <2>1 DEF Leading
<1>12. n + 1 \in 0 .. Len(u)
    BY <1>3
<1> QED BY <1>8, <1>11, <1>12 DEF u

\* A quit is sent.
LEMMA OneQuit ==
    ASSUME NEW S, NEW s \in Seq(S), NEW n \in Nat, NEW a, NEW b,
           NEW t \in Seq(S), Len(t) = 2, t[1].kind = "q", t[2].kind # "x",
           Reporting(s, n, FALSE), Leading(s, n, a, b)
    PROVE  Reporting(s \o t, n, TRUE) /\ Leading(s \o t, n, a, b) /\ n \in 0 .. Len(s \o t)
<1> DEFINE u == s \o t
<1>1. Len(s) = 2 * n /\ \A i \in 1 .. n : s[2 * i - 1].kind = "x" /\ s[2 * i].kind = "y"
    BY DEF Reporting
<1>2. /\ Len(u) = Len(s) + Len(t)
      /\ \A k \in 1 .. Len(s) + Len(t) : u[k] = IF k <= Len(s) THEN s[k] ELSE t[k - Len(s)]
    BY ConcatProperties
<1>3. Len(u) = 2 * n + 2
    BY <1>1, <1>2
<1> HIDE DEF u
<1>4. \A k \in 1 .. 2 * n : u[k] = s[k]
    BY <1>1, <1>2
<1>5. u[2 * n + 1] = t[1] /\ u[2 * n + 2] = t[2]
    <2>1. Len(s) = 2 * n /\ Len(t) = 2 /\ 2 * n \in Nat
        BY <1>1
    <2>2. 2 * n + 1 \in 1 .. Len(s) + Len(t) /\ 2 * n + 2 \in 1 .. Len(s) + Len(t)
        BY <2>1
    <2>3. ~(2 * n + 1 <= Len(s)) /\ (2 * n + 1) - Len(s) = 1
        BY <2>1
    <2>4. ~(2 * n + 2 <= Len(s)) /\ (2 * n + 2) - Len(s) = 2
        BY <2>1
    <2> QED BY <1>2, <2>2, <2>3, <2>4
<1>6. \A i \in 1 .. n : u[2 * i - 1] = s[2 * i - 1] /\ u[2 * i] = s[2 * i]
    BY <1>4
<1>7. Reporting(u, n, TRUE)
    BY <1>1, <1>3, <1>5, <1>6 DEF Reporting
<1>8. \A i \in 0 .. n : At(u, a, i) = At(s, a, i)
    BY <1>6 DEF At
<1>9. Leading(u, n, a, b)
    <2>1. n \in 0 .. n /\ \A i \in 1 .. n : i - 1 \in 0 .. n /\ i \in 0 .. n
        OBVIOUS
    <2> QED BY <1>8, <2>1 DEF Leading
<1>10. n \in 0 .. Len(u)
    BY <1>3
<1> QED BY <1>7, <1>9, <1>10 DEF u

\* The first is read.
LEMMA OneLess ==
    ASSUME NEW S, NEW s \in Seq(S), NEW n \in Nat, n > 0, NEW a, NEW b, NEW gone \in BOOLEAN,
           Reporting(s, n, gone), Leading(s, n, a, b)
    PROVE  LET t == SubSeq(s, 3, Len(s)) IN
           /\ Reporting(t, n - 1, gone)
           /\ Leading(t, n - 1, [x |-> s[1].n, y |-> s[2].n], b)
           /\ n - 1 \in 0 .. Len(t)
<1> DEFINE t == SubSeq(s, 3, Len(s))
           c == [x |-> s[1].n, y |-> s[2].n]
<1>1. Len(s) \in {2 * n, 2 * n + 2} /\ Len(s) \in Nat /\ 2 \in 0 .. Len(s)
    BY LenProperties DEF Reporting
<1>2. Len(t) = Len(s) - 2 /\ \A i \in 1 .. Len(s) - 2 : t[i] = s[2 + i]
    <2>1. SubSeq(s, 2 + 1, Len(s)) = t
        OBVIOUS
    <2> HIDE DEF t
    <2> QED BY <1>1, <2>1, Parted
<1> HIDE DEF t
<1>3. ASSUME NEW i \in 1 .. n - 1
      PROVE  /\ t[2 * i - 1] = s[2 * (i + 1) - 1] /\ t[2 * i] = s[2 * (i + 1)]
             /\ i + 1 \in 1 .. n
    <2>1. 2 * i - 1 \in 1 .. Len(s) - 2 /\ 2 * i \in 1 .. Len(s) - 2
        BY <1>1
    <2>2. 2 + (2 * i - 1) = 2 * (i + 1) - 1 /\ 2 + 2 * i = 2 * (i + 1)
        OBVIOUS
    <2> QED BY <1>2, <2>1, <2>2
<1>4. Reporting(t, n - 1, gone)
    <2>1. ASSUME NEW i \in 1 .. n - 1 PROVE t[2 * i - 1].kind = "x" /\ t[2 * i].kind = "y"
        BY <1>3 DEF Reporting
    <2>2. CASE Len(s) = 2 * n
        <3>1. Len(t) = 2 * (n - 1)
            BY <1>2, <2>2
        <3> QED BY <2>1, <3>1 DEF Reporting
    <2>3. CASE gone /\ Len(s) = 2 * n + 2 /\ s[2 * n + 1].kind = "q" /\ s[2 * n + 2].kind # "x"
        <3>1. Len(t) = 2 * (n - 1) + 2
            BY <1>2, <2>3
        <3>2. /\ 2 * (n - 1) + 1 \in 1 .. Len(s) - 2 /\ 2 * (n - 1) + 2 \in 1 .. Len(s) - 2
              /\ 2 + (2 * (n - 1) + 1) = 2 * n + 1 /\ 2 + (2 * (n - 1) + 2) = 2 * n + 2
            BY <2>3
        <3>3. t[2 * (n - 1) + 1] = s[2 * n + 1] /\ t[2 * (n - 1) + 2] = s[2 * n + 2]
            BY <1>2, <3>2
        <3> QED BY <2>1, <2>3, <3>1, <3>3 DEF Reporting
    <2> QED BY <2>2, <2>3 DEF Reporting
<1>5. \A i \in 0 .. n - 1 : At(t, c, i) = At(s, a, i + 1)
    <2>1. ASSUME NEW i \in 0 .. n - 1 PROVE At(t, c, i) = At(s, a, i + 1)
        <3>1. CASE i = 0
            BY <3>1 DEF At
        <3>2. CASE i # 0
            BY <1>3, <3>2 DEF At
        <3> QED BY <3>1, <3>2
    <2> QED BY <2>1
<1>6. Leading(t, n - 1, c, b)
    <2>1. At(t, c, n - 1) = b
        <3>1. n - 1 \in 0 .. n - 1 /\ (n - 1) + 1 = n
            OBVIOUS
        <3> QED BY <1>5, <3>1 DEF Leading
    <2>2. ASSUME NEW i \in 1 .. n - 1 PROVE Tag!Near(At(t, c, i - 1), At(t, c, i))
        <3>1. /\ i - 1 \in 0 .. n - 1 /\ i \in 0 .. n - 1 /\ (i - 1) + 1 = i
              /\ i + 1 \in 1 .. n /\ (i + 1) - 1 = i
            OBVIOUS
        <3>2. At(t, c, i - 1) = At(s, a, i) /\ At(t, c, i) = At(s, a, i + 1)
            BY <1>5, <3>1
        <3>3. Tag!Near(At(s, a, (i + 1) - 1), At(s, a, i + 1))
            BY <3>1 DEF Leading
        <3> QED BY <3>1, <3>2, <3>3
    <2> QED BY <2>1, <2>2 DEF Leading
<1>7. n - 1 \in 0 .. Len(t)
    BY <1>1, <1>2
<1> QED BY <1>4, <1>6, <1>7 DEF t

-----------------------------------------------------------------------------
\* The initial state, and what the end of a player makes of one.

LEMMA TagStart == Tag!TagAssumption /\ Tag!Init => TagInv
<1> SUFFICES ASSUME Tag!TagAssumption, Tag!Init PROVE TagInv
    OBVIOUS
<1> USE Names, Two
<1>1. /\ Tag!Start \in [Players -> Place]
      /\ Tag!Start \in [Players -> Tag!Position]
    BY DEF Tag!Start, Place, Tag!Position, Tag!Nums, Tag!TagAssumption, Players
<1>2. \A p \in Players :
          /\ run[p] = "on" /\ me[p] = Tag!Start[p] /\ peer[p] = Tag!Start[Other(p)]
          /\ buf[p] = [i \in 1 .. 2 |-> Tag!Piece("none", 0)]
          /\ ready[p] = {} /\ tagLink[p] = <<>> /\ tagTie[p] = "open"
    BY DEF Tag!Init
<1>3. [i \in 1 .. 2 |-> Tag!Piece("none", 0)] \in [1 .. 2 -> Tag!Pieces]
    BY DEF Tag!Piece, Tag!Pieces, Tag!Nums, Tag!TagAssumption
<1>4. Tag!TypeOK
    <2>1. peer \in [Players -> Tag!Position] /\ me \in [Players -> Place]
        BY <1>1 DEF Tag!Init
    <2>2. buf \in [Players -> [1 .. 2 -> Tag!Pieces]]
        BY <1>3 DEF Tag!Init
    <2>3. \A S : <<>> \in Seq(S)
        OBVIOUS
    <2>4. /\ typed \in [Players -> Seq(Keys)] /\ ahead \in [Players -> Seq(Keys)]
          /\ tagLink \in [Players -> Seq(Tag!Pieces)]
        BY <2>3 DEF Tag!Init
    <2>5. presses \in [Players -> 0 .. Presses]
        BY DEF Tag!Init, Tag!TagAssumption
    <2>6. /\ run \in [Players -> {"on", "quit", "told", "interrupt", "killed"}]
          /\ ready \in [Players -> SUBSET {"stdin", "soc"}]
          /\ tagTie \in [Players -> {"open", "shut", "reset"}]
        BY DEF Tag!Init
    <2> QED BY <2>1, <2>2, <2>4, <2>5, <2>6 DEF Tag!TypeOK, Place
<1>5. Known /\ Offered /\ Tag!NotSentAway
    BY <1>2 DEF Known, Offered, Tag!NotSentAway
<1>6. NoneHeld
    BY <1>2 DEF NoneHeld, Tag!Piece
<1>7. QuitsSent
    <2>1. \A q \in Players : 1 .. Len(tagLink[q]) = {}
        BY <1>2, NoneOfNone, Zenon
    <2> QED BY <2>1 DEF QuitsSent
<1>8. Followed
    <2>1. ASSUME NEW q \in Players PROVE Led(q) /\ buf[q][2].kind # "x"
        <3>1. Len(tagLink[q]) = 0
            BY <1>2
        <3>2. Reporting(tagLink[q], 0, run[q] # "on")
            BY <3>1 DEF Reporting
        <3>3. Leading(tagLink[q], 0, peer[Other(q)], me[q])
            BY <1>2 DEF Leading, At
        <3>4. Led(q)
            BY <3>1, <3>2, <3>3 DEF Led
        <3> QED BY <1>2, <3>4 DEF Tag!Piece
    <2> QED BY <2>1 DEF Followed
<1> QED BY <1>4, <1>5, <1>6, <1>7, <1>8 DEF TagInv

LEMMA TagEnd ==
    ASSUME Tag!TypeOK, NEW p \in Players, NEW l \in Seq(Tag!Pieces),
           NEW why \in {"quit", "told", "interrupt", "killed"}, Tag!End(p, why, l)
    PROVE  /\ run'[p] = why /\ run'[Other(p)] = run[Other(p)]
           /\ ready'[p] = {} /\ ready'[Other(p)] = ready[Other(p)]
           /\ typed'[Other(p)] = typed[Other(p)]
           /\ tagLink'[Other(p)] = <<>>
           /\ \E k \in 0 .. Len(l) : tagLink'[p] = SubSeq(l, 1, k)
           /\ ~Losses => tagLink'[p] = l
           /\ tagTie'[Other(p)] # "open" /\ tagTie'[p] = tagTie[p]
           /\ run' \in [Players -> {"on", "quit", "told", "interrupt", "killed"}]
           /\ ready' \in [Players -> SUBSET {"stdin", "soc"}]
           /\ typed' \in [Players -> Seq(Keys)] /\ ahead' \in [Players -> Seq(Keys)]
           /\ presses' \in [Players -> 0 .. Presses]
           /\ tagLink' \in [Players -> Seq(Tag!Pieces)]
           /\ tagTie' \in [Players -> {"open", "shut", "reset"}]
<1> USE Names, Two
<1>1. /\ run'[p] = why /\ run'[Other(p)] = run[Other(p)]
      /\ run' \in [Players -> {"on", "quit", "told", "interrupt", "killed"}]
    BY DEF Tag!End, Tag!TypeOK
<1>2. /\ tagTie'[Other(p)] # "open" /\ tagTie'[p] = tagTie[p]
      /\ tagTie' \in [Players -> {"open", "shut", "reset"}]
    BY DEF Tag!End, Tag!TypeOK
<1>3. /\ ready'[p] = {} /\ ready'[Other(p)] = ready[Other(p)]
      /\ ready' \in [Players -> SUBSET {"stdin", "soc"}]
    BY DEF Tag!End, Tag!TypeOK
<1>4. /\ typed'[Other(p)] = typed[Other(p)]
      /\ typed' \in [Players -> Seq(Keys)] /\ ahead' \in [Players -> Seq(Keys)]
      /\ presses' \in [Players -> 0 .. Presses]
    <2>1. <<>> \in Seq(Keys)
        OBVIOUS
    <2> QED BY <2>1 DEF Tag!End, Tag!TypeOK
<1>5. PICK k \in 0 .. Len(l) :
          /\ tagLink' = [tagLink EXCEPT ![p] = SubSeq(l, 1, k), ![Other(p)] = <<>>]
          /\ ~Losses => k = Len(l)
    <2>1. Len(l) \in 0 .. Len(l)
        BY LenProperties
    <2> QED BY <2>1 DEF Tag!End
<1>6. /\ SubSeq(l, 1, k) \in Seq(Tag!Pieces)
      /\ k = Len(l) => SubSeq(l, 1, k) = l
    BY <1>5, Parted, Whole
<1>7. <<>> \in Seq(Tag!Pieces)
    OBVIOUS
<1>8. /\ tagLink'[p] = SubSeq(l, 1, k) /\ tagLink'[Other(p)] = <<>>
      /\ tagLink' \in [Players -> Seq(Tag!Pieces)]
    <2>1. tagLink \in [Players -> Seq(Tag!Pieces)]
        BY DEF Tag!TypeOK
    <2> QED BY <1>5, <1>6, <1>7, <2>1
<1> QED BY <1>1, <1>2, <1>3, <1>4, <1>5, <1>6, <1>8

\* What p leaves under way when he ends: reports from where he is shown, and a "q"
\* only if he quits.
Leaving(p, why, l) ==
    /\ \A k \in 1 .. Len(l) : l[k].kind = "q" => why = "quit"
    /\ ~Splits /\ ~Losses =>
           /\ buf'[p][2].kind # "x"
           /\ \E n \in 0 .. Len(l) :
                 /\ Reporting(l, n, TRUE)
                 /\ run[Other(p)] = "on" => Leading(l, n, peer[Other(p)], me'[p])

\* When p ends with l under way from him, what has been read by the other or is
\* under way from the other does not matter any more.
LEMMA TagEnds ==
    ASSUME TagInv, NEW p \in Players, NEW l \in Seq(Tag!Pieces),
           NEW why \in {"quit", "told", "interrupt", "killed"}, Tag!End(p, why, l),
           run[p] = "on",
           me' \in [Players -> Place], me'[Other(p)] = me[Other(p)], UNCHANGED peer,
           buf' \in [Players -> [1 .. 2 -> Tag!Pieces]], buf'[Other(p)] = buf[Other(p)],
           why = "told" => run[Other(p)] = "quit",
           Leaving(p, why, l)
    PROVE  TagInv'
<1> USE Names, Two
<1> DEFINE q == Other(p)
<1>0. Tag!TypeOK
    BY DEF TagInv
<1>1. /\ run'[p] = why /\ run'[Other(p)] = run[Other(p)]
      /\ ready'[p] = {} /\ ready'[Other(p)] = ready[Other(p)]
      /\ typed'[Other(p)] = typed[Other(p)]
      /\ tagLink'[Other(p)] = <<>>
      /\ \E k \in 0 .. Len(l) : tagLink'[p] = SubSeq(l, 1, k)
      /\ ~Losses => tagLink'[p] = l
      /\ tagTie'[Other(p)] # "open" /\ tagTie'[p] = tagTie[p]
      /\ run' \in [Players -> {"on", "quit", "told", "interrupt", "killed"}]
      /\ ready' \in [Players -> SUBSET {"stdin", "soc"}]
      /\ typed' \in [Players -> Seq(Keys)] /\ ahead' \in [Players -> Seq(Keys)]
      /\ presses' \in [Players -> 0 .. Presses]
      /\ tagLink' \in [Players -> Seq(Tag!Pieces)]
      /\ tagTie' \in [Players -> {"open", "shut", "reset"}]
    BY <1>0, TagEnd
<1>2. Tag!TypeOK'
    BY <1>0, <1>1 DEF Tag!TypeOK, Place
<1>3. q \in Players /\ q # p /\ Other(q) = p /\ \A r \in Players : r = p \/ r = q
    OBVIOUS
<1> HIDE DEF q
<1>4. run'[p] # "on" /\ run'[q] = run[q]
    BY <1>1 DEF q
<1>5. Known'
    <2>1. tagTie'[q] # "open" /\ tagTie'[p] = tagTie[p]
        BY <1>1 DEF q
    <2> QED BY <1>3, <1>4, <2>1 DEF TagInv, Known, q
<1>6. Tag!NotSentAway'
    <2>1. run[q] = "told" => FALSE
        BY <1>3 DEF TagInv, Tag!NotSentAway
    <2> QED BY <1>1, <1>3, <1>4, <2>1 DEF Tag!NotSentAway, q
<1>7. NoneHeld'
    BY <1>3, <1>4 DEF TagInv, NoneHeld, q
<1>8. Offered'
    <2>1. ready'[p] = {} /\ ready'[q] = ready[q] /\ typed'[q] = typed[q] /\ tagTie'[q] # "open"
        BY <1>1 DEF q
    <2> QED BY <1>3, <2>1 DEF TagInv, Offered
<1>9. QuitsSent'
    <2>1. \A k \in 1 .. Len(tagLink'[q]) : FALSE
        BY <1>1, NoneOfNone, Zenon DEF q
    <2>2. \A k \in 1 .. Len(tagLink'[p]) : tagLink'[p][k].kind = "q" => why = "quit"
        <3>1. PICK m \in 0 .. Len(l) : tagLink'[p] = SubSeq(l, 1, m)
            BY <1>1
        <3>2. Len(SubSeq(l, 1, m)) = m /\ \A i \in 1 .. m : SubSeq(l, 1, m)[i] = l[i]
            BY <3>1, Parted
        <3>3. 1 .. m \subseteq 1 .. Len(l)
            BY <3>1, LenProperties
        <3> QED BY <3>1, <3>2, <3>3 DEF Leaving
    <2> QED BY <1>1, <1>3, <2>1, <2>2 DEF QuitsSent
<1>10. Followed'
    <2> SUFFICES ASSUME ~Splits, ~Losses
                 PROVE  /\ Led(p)' /\ buf'[p][2].kind # "x"
                        /\ Led(q)' /\ buf'[q][2].kind # "x"
        BY <1>3 DEF Followed
    <2>1. buf'[p][2].kind # "x" /\ buf'[q][2].kind # "x"
        BY <1>3 DEF TagInv, Followed, q, Leaving
    <2>2. Led(q)'
        <3>1. Len(tagLink'[q]) = 0
            BY <1>1 DEF q
        <3>2. 0 \in 0 .. Len(tagLink'[q]) /\ Reporting(tagLink'[q], 0, run'[q] # "on")
            BY <3>1 DEF Reporting
        <3>3. ~Watched(q)'
            BY <1>3, <1>4 DEF Watched
        <3> QED BY <3>2, <3>3 DEF Led
    <2>3. Led(p)'
        <3>1. PICK n \in 0 .. Len(l) :
                  /\ Reporting(l, n, TRUE)
                  /\ run[Other(p)] = "on" => Leading(l, n, peer[Other(p)], me'[p])
            BY DEF Leaving
        <3>2. Reporting(tagLink'[p], n, run'[p] # "on")
            BY <1>1, <1>4, <3>1 DEF Reporting
        <3>3. Watched(p)' => Leading(tagLink'[p], n, peer'[Other(p)], me'[p])
            BY <1>1, <1>4, <3>1 DEF Watched, q
        <3> QED BY <1>1, <3>1, <3>2, <3>3 DEF Led
    <2> QED BY <2>1, <2>2, <2>3
<1> QED BY <1>2, <1>5, <1>6, <1>7, <1>8, <1>9, <1>10 DEF TagInv

-----------------------------------------------------------------------------
\* The steps.

LEMMA NoneSent ==
    ASSUME TagInv, NEW p \in Players, run[p] = "on"
    PROVE  /\ \A k \in 1 .. Len(tagLink[p]) : tagLink[p][k].kind # "q"
           /\ ~Splits /\ ~Losses =>
                \E n \in 0 .. Len(tagLink[p]) :
                    /\ Reporting(tagLink[p], n, FALSE) /\ Reporting(tagLink[p], n, TRUE)
                    /\ run[Other(p)] = "on" => Leading(tagLink[p], n, peer[Other(p)], me[p])
<1>1. \A k \in 1 .. Len(tagLink[p]) : tagLink[p][k].kind # "q"
    BY DEF TagInv, QuitsSent
<1>2. ASSUME ~Splits, ~Losses
      PROVE  \E n \in 0 .. Len(tagLink[p]) :
                    /\ Reporting(tagLink[p], n, FALSE) /\ Reporting(tagLink[p], n, TRUE)
                    /\ run[Other(p)] = "on" => Leading(tagLink[p], n, peer[Other(p)], me[p])
    <2>1. PICK n \in 0 .. Len(tagLink[p]) :
              /\ Reporting(tagLink[p], n, run[p] # "on")
              /\ Watched(p) => Leading(tagLink[p], n, peer[Other(p)], me[p])
        BY <1>2 DEF TagInv, Followed, Led
    <2> QED BY <2>1 DEF Reporting, Watched
<1> QED BY <1>1, <1>2

LEMMA Interrupted ==
    ASSUME TagInv, NEW p \in Players, Tag!Interrupt(p)
    PROVE  TagInv'
<1> USE Names, Two
<1>0. Tag!TypeOK
    BY DEF TagInv
<1>1. run[p] = "on" /\ Tag!End(p, "interrupt", tagLink[p]) /\ UNCHANGED <<me, peer, buf>>
    BY DEF Tag!Interrupt
<1>2. tagLink[p] \in Seq(Tag!Pieces)
    BY <1>0 DEF Tag!TypeOK
<1>3. me' \in [Players -> Place] /\ buf' \in [Players -> [1 .. 2 -> Tag!Pieces]]
    BY <1>0, <1>1 DEF Tag!TypeOK, Place
<1>4. ~Splits /\ ~Losses => buf'[p][2].kind # "x"
    BY <1>1 DEF TagInv, Followed
<1>5. Leaving(p, "interrupt", tagLink[p])
    BY <1>1, <1>4, NoneSent DEF Leaving
<1> QED BY <1>1, <1>2, <1>3, <1>5, TagEnds

LEMMA Pressed ==
    ASSUME Tag!TagAssumption, TagInv, NEW p \in Players, NEW k \in Keys, Tag!Press(p, k)
    PROVE  TagInv'
<1> USE Names, Two
<1>0. Tag!TypeOK
    BY DEF TagInv
<1>1. /\ presses[p] < Presses /\ presses' = [presses EXCEPT ![p] = @ + 1]
      /\ typed' = [typed EXCEPT ![p] = Append(@, k)]
      /\ UNCHANGED <<run, me, peer, buf, ready, ahead, tagLink, tagTie>>
    BY DEF Tag!Press
<1>2. typed' \in [Players -> Seq(Keys)] /\ \A r \in Players : typed[r] # <<>> => typed'[r] # <<>>
    <2>1. typed[p] \in Seq(Keys)
        BY <1>0 DEF Tag!TypeOK
    <2>2. Append(typed[p], k) \in Seq(Keys) /\ Append(typed[p], k) # <<>>
        BY <2>1, AppendProperties
    <2> QED BY <1>0, <1>1, <2>2 DEF Tag!TypeOK
<1>3. presses' \in [Players -> 0 .. Presses]
    <2>1. presses[p] \in 0 .. Presses
        BY <1>0 DEF Tag!TypeOK
    <2>3. Presses \in Nat
        BY DEF Tag!TagAssumption
    <2>2. presses[p] + 1 \in 0 .. Presses
        BY <1>1, <2>1, <2>3
    <2> QED BY <1>0, <1>1, <2>2 DEF Tag!TypeOK
<1>4. Tag!TypeOK'
    BY <1>0, <1>1, <1>2, <1>3 DEF Tag!TypeOK
<1>5. Offered'
    BY <1>1, <1>2 DEF TagInv, Offered
<1>6. Known' /\ QuitsSent' /\ NoneHeld' /\ Followed' /\ Tag!NotSentAway'
    BY <1>1 DEF TagInv, Known, QuitsSent, NoneHeld, Followed, Led, Watched, Tag!NotSentAway
<1> QED BY <1>4, <1>5, <1>6 DEF TagInv

LEMMA Selected ==
    ASSUME TagInv, NEW p \in Players, Tag!Select(p)
    PROVE  TagInv'
<1> USE Names, Two
<1>0. Tag!TypeOK
    BY DEF TagInv
<1>1. /\ ready' = [ready EXCEPT ![p] = Tag!Readable(p)]
      /\ UNCHANGED <<run, me, peer, buf, typed, ahead, presses, tagLink, tagTie>>
    BY DEF Tag!Select, Tag!keys
<1>2. /\ Tag!Readable(p) \in SUBSET {"stdin", "soc"}
      /\ "stdin" \in Tag!Readable(p) => typed[p] # <<>>
      /\ "soc" \in Tag!Readable(p) => tagLink[Other(p)] # <<>> \/ tagTie[p] # "open"
    BY DEF Tag!Readable
<1>3. Tag!TypeOK'
    BY <1>0, <1>1, <1>2 DEF Tag!TypeOK
<1>4. Offered'
    BY <1>0, <1>1, <1>2 DEF TagInv, Offered, Tag!TypeOK
<1>5. Known' /\ QuitsSent' /\ NoneHeld' /\ Followed' /\ Tag!NotSentAway'
    BY <1>1 DEF TagInv, Known, QuitsSent, NoneHeld, Followed, Led, Watched, Tag!NotSentAway
<1> QED BY <1>3, <1>4, <1>5 DEF TagInv

\* A key ends the session, or one more report is under way while there is anybody to
\* report to.
LEMMA Keyed ==
    ASSUME Tag!TagAssumption, TagInv, NEW p \in Players, Tag!Key(p)
    PROVE  TagInv'
<1> USE Names, Two
<1> DEFINE q == Other(p)
           typing == ahead[p] \o typed[p]
           k == Head(typing)
           w == Tag!Written(buf[p], me'[p], k)
           l == IF tagTie[p] = "open" THEN tagLink[p] \o w ELSE tagLink[p]
           why == IF tagTie[p] = "reset" THEN "killed" ELSE "quit"
<1>0. Tag!TypeOK
    BY DEF TagInv
<1>1. /\ run[p] = "on" /\ "stdin" \in ready[p]
      /\ me' = [me EXCEPT ![p] = Tag!Update(@, k)]
      /\ buf' = [buf EXCEPT ![p] = Tag!Written(@, me'[p], k)]
      /\ UNCHANGED peer
    BY DEF Tag!Key
<1>2. ahead[p] \in Seq(Keys) /\ typed[p] \in Seq(Keys) /\ typed[p] # <<>>
    BY <1>0, <1>1 DEF TagInv, Offered, Tag!TypeOK
<1>3. Tail(typing) \in Seq(Keys)
    <2>1. typing \in Seq(Keys) /\ Len(typing) = Len(ahead[p]) + Len(typed[p])
        BY <1>2, ConcatProperties
    <2>2. Len(ahead[p]) \in Nat /\ Len(typed[p]) \in Nat \ {0}
        BY <1>2, LenProperties, EmptySeq
    <2>3. typing # <<>>
        BY <2>1, <2>2, EmptySeq
    <2> HIDE DEF typing
    <2> QED BY <2>1, <2>3, HeadTailProperties
<1> HIDE DEF k, typing
<1>4. me[p] \in Place
    BY <1>0 DEF Tag!TypeOK, Place
<1>5. /\ me'[p] = Tag!Update(me[p], k) /\ me'[p] \in Place
      /\ Tag!Near(me[p], me'[p]) /\ (k = "q" => me'[p] = me[p])
      /\ me' \in [Players -> Place] /\ me'[q] = me[q]
    <2>1. me \in [Players -> Place]
        BY <1>0 DEF Tag!TypeOK, Place
    <2>2. /\ Tag!Update(me[p], k) \in Place /\ Tag!Near(me[p], Tag!Update(me[p], k))
          /\ k = "q" => Tag!Update(me[p], k) = me[p]
        BY <1>4, Updates
    <2> QED BY <1>1, <2>1, <2>2
<1>6. /\ w \in [1 .. 2 -> Tag!Pieces] /\ w \in Seq(Tag!Pieces) /\ Len(w) = 2
      /\ k = "q" => w[1].kind = "q" /\ w[2] = buf[p][2]
      /\ k # "q" => w[1] = Tag!Piece("x", me'[p].x) /\ w[2] = Tag!Piece("y", me'[p].y)
    <2>1. buf[p] \in [1 .. 2 -> Tag!Pieces]
        BY <1>0 DEF Tag!TypeOK
    <2> QED BY <1>5, <2>1, Writes
<1>7. /\ buf'[p] = w /\ buf'[q] = buf[q]
      /\ buf' \in [Players -> [1 .. 2 -> Tag!Pieces]]
    <2>1. buf \in [Players -> [1 .. 2 -> Tag!Pieces]]
        BY <1>0 DEF Tag!TypeOK
    <2> QED BY <1>1, <1>6, <2>1
<1>8. tagLink[p] \in Seq(Tag!Pieces) /\ l \in Seq(Tag!Pieces)
    <2>1. tagLink[p] \in Seq(Tag!Pieces)
        BY <1>0 DEF Tag!TypeOK
    <2> QED BY <1>6, <2>1, Joined
<1>9. \A i \in 1 .. Len(tagLink[p]) : tagLink[p][i].kind # "q"
    BY <1>1, NoneSent
<1>10. ~Splits /\ ~Losses => w[2].kind # "x"
    BY <1>6, <1>7 DEF TagInv, Followed, Tag!Piece
<1>11. k # "q" => w[1].kind = "x" /\ w[2].kind = "y" /\ [x |-> w[1].n, y |-> w[2].n] = me'[p]
    <2>1. me'[p] = [x |-> me'[p].x, y |-> me'[p].y]
        BY <1>5, OnBoard
    <2> QED BY <1>6, <2>1 DEF Tag!Piece
<1>12. tagTie[p] = "open" <=> run[q] = "on"
    BY DEF TagInv, Known
<1>13. /\ k = "q" \/ tagTie[p] = "reset" => Tag!End(p, why, l)
       /\ ~(k = "q" \/ tagTie[p] = "reset") =>
            /\ typed' = [typed EXCEPT ![p] = <<>>]
            /\ ahead' = [ahead EXCEPT ![p] = Tail(typing)]
            /\ tagLink' = [tagLink EXCEPT ![p] = l]
            /\ tagTie' = [tagTie EXCEPT ![p] = IF @ = "open" THEN @ ELSE "reset"]
            /\ ready' = [ready EXCEPT ![p] = @ \ {"stdin"}]
            /\ UNCHANGED <<run, presses>>
    <2>1. l = IF tagTie[p] = "open" THEN tagLink[p] \o buf'[p] ELSE tagLink[p]
        BY <1>7
    <2>2. tagLink \in [Players -> Seq(Tag!Pieces)]
        BY <1>0 DEF Tag!TypeOK
    <2> HIDE DEF l
    <2>3. tagLink' = [tagLink EXCEPT ![p] = IF tagTie[p] = "open" THEN @ \o buf'[p] ELSE @] =>
              tagLink' = [tagLink EXCEPT ![p] = l]
        BY <2>1, <2>2
    <2> QED BY <2>1, <2>3 DEF Tag!Key, k, typing
<1>14. CASE k = "q" \/ tagTie[p] = "reset"
    <2>1. why \in {"quit", "told", "interrupt", "killed"} /\ why # "told"
        OBVIOUS
    <2>2. \A i \in 1 .. Len(l) : l[i].kind = "q" => why = "quit"
        BY <1>9, <1>14
    <2>3. ASSUME ~Splits, ~Losses
          PROVE  \E n \in 0 .. Len(l) :
                     /\ Reporting(l, n, TRUE)
                     /\ run[q] = "on" => Leading(l, n, peer[q], me'[p])
        <3>1. PICK n \in 0 .. Len(tagLink[p]) :
                    /\ Reporting(tagLink[p], n, FALSE) /\ Reporting(tagLink[p], n, TRUE)
                    /\ run[q] = "on" => Leading(tagLink[p], n, peer[q], me[p])
            BY <1>1, <2>3, NoneSent
        <3>2. CASE tagTie[p] = "open"
            <4>1. k = "q" /\ me'[p] = me[p] /\ run[q] = "on"
                BY <1>5, <1>12, <1>14, <3>2
            <4>2. w[1].kind = "q" /\ w[2].kind # "x" /\ Len(w) = 2 /\ w \in Seq(Tag!Pieces)
                BY <1>6, <1>10, <2>3, <4>1
            <4>3. n \in Nat /\ Leading(tagLink[p], n, peer[q], me[p])
                BY <3>1, <4>1
            <4> HIDE DEF w
            <4>4. /\ Reporting(tagLink[p] \o w, n, TRUE) /\ n \in 0 .. Len(tagLink[p] \o w)
                  /\ Leading(tagLink[p] \o w, n, peer[q], me[p])
                BY <1>8, <3>1, <4>2, <4>3, OneQuit
            <4> QED BY <3>2, <4>1, <4>4
        <3>3. CASE tagTie[p] # "open"
            BY <1>12, <3>1, <3>3
        <3> QED BY <3>2, <3>3
    <2> HIDE DEF l, w, why
    <2>4. PICK m \in Seq(Tag!Pieces) : m = l
        BY <1>8
    <2>5. PICK y \in {"quit", "told", "interrupt", "killed"} : y = why
        BY <2>1
    <2>6. Tag!End(p, y, m) /\ run[p] = "on" /\ UNCHANGED peer
        BY <1>1, <1>13, <1>14, <2>4, <2>5
    <2>7. y = "told" => run[Other(p)] = "quit"
        BY <2>1, <2>5
    <2>8. Leaving(p, y, m)
        BY <1>7, <1>10, <2>2, <2>3, <2>4, <2>5 DEF Leaving
    <2>9. /\ me' \in [Players -> Place] /\ me'[Other(p)] = me[Other(p)]
          /\ buf' \in [Players -> [1 .. 2 -> Tag!Pieces]] /\ buf'[Other(p)] = buf[Other(p)]
        BY <1>5, <1>7
    <2> QED BY <2>6, <2>7, <2>8, <2>9, TagEnds
<1>15. CASE ~(k = "q" \/ tagTie[p] = "reset")
    <2>1. /\ typed' = [typed EXCEPT ![p] = <<>>]
          /\ ahead' = [ahead EXCEPT ![p] = Tail(typing)]
          /\ tagLink' = [tagLink EXCEPT ![p] = l]
          /\ tagTie' = [tagTie EXCEPT ![p] = IF @ = "open" THEN @ ELSE "reset"]
          /\ ready' = [ready EXCEPT ![p] = @ \ {"stdin"}]
          /\ UNCHANGED <<run, presses, peer>>
        BY <1>1, <1>13, <1>15
    <2>2. k # "q" /\ w[1].kind = "x" /\ w[2].kind = "y" /\ [x |-> w[1].n, y |-> w[2].n] = me'[p]
        BY <1>11, <1>15
    <2> HIDE DEF w
    <2>3. /\ tagLink'[p] = l /\ tagLink'[q] = tagLink[q]
          /\ tagTie'[p] = "open" <=> tagTie[p] = "open"
          /\ tagTie'[q] = tagTie[q]
          /\ ready'[p] \subseteq ready[p] /\ "stdin" \notin ready'[p]
          /\ ready'[q] = ready[q] /\ typed'[q] = typed[q]
        BY <1>0, <2>1 DEF Tag!TypeOK
    <2>4. Tag!TypeOK'
        <3>1. <<>> \in Seq(Keys)
            OBVIOUS
        <3>2. typed' \in [Players -> Seq(Keys)] /\ ahead' \in [Players -> Seq(Keys)]
            BY <1>0, <1>3, <2>1, <3>1 DEF Tag!TypeOK
        <3>3. tagLink' \in [Players -> Seq(Tag!Pieces)]
            <4> HIDE DEF l
            <4> QED BY <1>0, <1>8, <2>1 DEF Tag!TypeOK
        <3>4. /\ tagTie' \in [Players -> {"open", "shut", "reset"}]
              /\ ready' \in [Players -> SUBSET {"stdin", "soc"}]
            BY <1>0, <2>1 DEF Tag!TypeOK
        <3> QED BY <1>0, <1>5, <1>7, <2>1, <3>2, <3>3, <3>4 DEF Tag!TypeOK, Place
    <2>5. Known' /\ Tag!NotSentAway'
        BY <2>1, <2>3 DEF TagInv, Known, Tag!NotSentAway
    <2>6. NoneHeld'
        BY <1>7, <2>1, <2>2 DEF TagInv, NoneHeld
    <2>7. QuitsSent'
        <3>1. \A i \in 1 .. Len(l) : l[i].kind # "q"
            <4>1. \A i \in 1 .. Len(tagLink[p] \o w) :
                     \/ i \in 1 .. Len(tagLink[p]) /\ (tagLink[p] \o w)[i] = tagLink[p][i]
                     \/ (tagLink[p] \o w)[i] = w[1]
                     \/ (tagLink[p] \o w)[i] = w[2]
                <5>1. w \in Seq(Tag!Pieces) /\ Len(w) = 2 /\ tagLink[p] \in Seq(Tag!Pieces)
                    BY <1>6, <1>8
                <5> QED BY <5>1, Joined
            <4>2. \A i \in 1 .. Len(tagLink[p] \o w) : (tagLink[p] \o w)[i].kind # "q"
                BY <1>9, <2>2, <4>1
            <4> QED BY <1>9, <4>2
        <3> HIDE DEF l
        <3> QED BY <2>1, <2>3, <3>1 DEF TagInv, QuitsSent
    <2>8. tagLink[p] # <<>> => l # <<>>
        BY <1>6, <1>8, Joined
    <2>9. Offered'
        <3> HIDE DEF l
        <3> QED BY <2>3, <2>8 DEF TagInv, Offered
    <2>10. Followed'
        <3> SUFFICES ASSUME ~Splits, ~Losses
                     PROVE  /\ Led(p)' /\ buf'[p][2].kind # "x"
                            /\ Led(q)' /\ buf'[q][2].kind # "x"
            BY DEF Followed
        <3>1. Led(p) /\ Led(q) /\ buf[q][2].kind # "x"
            BY DEF TagInv, Followed
        <3>2. Led(q)'
            BY <1>5, <2>1, <2>3, <3>1 DEF Led, Watched
        <3>3. Led(p)'
            <4>1. PICK n \in 0 .. Len(tagLink[p]) :
                        /\ Reporting(tagLink[p], n, FALSE) /\ Reporting(tagLink[p], n, TRUE)
                        /\ run[q] = "on" => Leading(tagLink[p], n, peer[q], me[p])
                BY <1>1, NoneSent
            <4>2. CASE tagTie[p] = "open"
                <5>1. n \in Nat /\ Leading(tagLink[p], n, peer[q], me[p])
                    BY <1>12, <4>1, <4>2
                <5>2. Tag!Near(me[p], [x |-> w[1].n, y |-> w[2].n])
                    BY <1>5, <2>2
                <5>3. /\ Reporting(tagLink[p] \o w, n + 1, FALSE)
                      /\ Leading(tagLink[p] \o w, n + 1, peer[q], [x |-> w[1].n, y |-> w[2].n])
                      /\ n + 1 \in 0 .. Len(tagLink[p] \o w)
                    BY <1>6, <1>8, <2>2, <4>1, <5>1, <5>2, OneMore
                <5>4. tagLink'[p] = tagLink[p] \o w /\ run'[p] = "on" /\ peer'[q] = peer[q]
                    BY <1>1, <2>1, <2>3, <4>2
                <5> QED BY <2>2, <5>3, <5>4 DEF Led
            <4>3. CASE tagTie[p] # "open"
                <5>1. tagLink'[p] = tagLink[p] /\ run'[p] = "on" /\ run'[q] # "on"
                    BY <1>1, <1>12, <2>1, <2>3, <4>3
                <5> QED BY <4>1, <5>1 DEF Led, Watched
            <4> QED BY <4>2, <4>3
        <3> QED BY <1>7, <1>10, <3>1, <3>2, <3>3
    <2> QED BY <2>4, <2>5, <2>6, <2>7, <2>9, <2>10 DEF TagInv
<1> QED BY <1>14, <1>15

LEMMA MinTwo ==
    ASSUME NEW m \in Nat, NEW k \in 0 .. Tag!Min({2, m})
    PROVE  k \in 0 .. 2 /\ k <= m
<1>1. \E x \in {2, m} : \A y \in {2, m} : x <= y
    OBVIOUS
<1>2. Tag!Min({2, m}) \in {2, m} /\ \A y \in {2, m} : Tag!Min({2, m}) <= y
    BY <1>1 DEF Tag!Min
<1> HIDE DEF Tag!Min
<1> QED BY <1>2

\* What is read is a report, or nothing because the other is gone, or the quit of one
\* who has quit; in parts it may be anything but the quit of one who has not.
LEMMA Wired ==
    ASSUME Tag!TagAssumption, TagInv, NEW p \in Players, Tag!Wire(p)
    PROVE  TagInv'
<1> USE Names, Two
<1> DEFINE q == Other(p)
           s == tagLink[q]
           Read(k) == SubSeq(s, 1, k) \o SubSeq(buf[p], k + 1, 2)
<1>0. Tag!TypeOK
    BY DEF TagInv
<1>1. run[p] = "on" /\ ready[p] = {"soc"} /\ UNCHANGED me
    BY DEF Tag!Wire
<1>2. s \in Seq(Tag!Pieces) /\ Len(s) \in Nat /\ buf[p] \in [1 .. 2 -> Tag!Pieces]
    <2>1. s \in Seq(Tag!Pieces) /\ buf[p] \in [1 .. 2 -> Tag!Pieces]
        BY <1>0 DEF Tag!TypeOK
    <2> QED BY <2>1, LenProperties
<1>3. PICK k \in 0 .. Tag!Min({2, Len(s)}) :
          /\ k = 0 => s = <<>>
          /\ k = 1 => Splits \/ Len(s) = 1
          /\ buf' = [buf EXCEPT ![p] = Read(k)]
          /\ IF Tag!Quits(Read(k))
             THEN Tag!End(p, "told", tagLink[p]) /\ UNCHANGED peer
             ELSE /\ peer' = [peer EXCEPT ![p] = Tag!Interpret(Read(k), @)]
                  /\ ready' = [ready EXCEPT ![p] = {}]
                  /\ tagLink' = [tagLink EXCEPT ![q] = SubSeq(@, k + 1, Len(@))]
                  /\ UNCHANGED <<run, tagTie, typed, ahead, presses>>
    BY DEF Tag!Wire, Tag!keys
<1>4. k \in 0 .. 2 /\ k \in 0 .. Len(s)
    BY <1>2, <1>3, MinTwo
<1> DEFINE h == SubSeq(s, 1, k)
           t == SubSeq(s, k + 1, Len(s))
           b == Read(k)
<1>5. /\ h \in Seq(Tag!Pieces) /\ Len(h) = k /\ (h = <<>> <=> k = 0)
      /\ \A i \in 1 .. k : h[i] = s[i]
      /\ t \in Seq(Tag!Pieces) /\ Len(t) = Len(s) - k /\ (t = <<>> <=> k = Len(s))
      /\ \A i \in 1 .. Len(s) - k : t[i] = s[k + i]
    <2> HIDE DEF s
    <2> QED BY <1>2, <1>4, Parted
<1>6. /\ b \in [1 .. 2 -> Tag!Pieces]
      /\ b[1] = (IF k = 0 THEN buf[p][1] ELSE s[1])
      /\ b[2] = (IF k < 2 THEN buf[p][2] ELSE s[2])
    <2>1. b = h \o SubSeq(buf[p], Len(h) + 1, 2)
        BY <1>5
    <2> HIDE DEF b, h, t, s
    <2>2. /\ b \in Seq(Tag!Pieces) /\ Len(b) = (IF Len(h) < 2 THEN 2 ELSE Len(h))
          /\ b[1] = (IF h = <<>> THEN buf[p][1] ELSE h[1])
          /\ b[2] = (IF Len(h) < 2 THEN buf[p][2] ELSE h[2])
        BY <1>2, <1>5, <2>1, ReadInto
    <2>3. Len(b) = 2
        BY <1>4, <1>5, <2>2
    <2>4. b \in [1 .. 2 -> Tag!Pieces]
        BY <2>2, <2>3, LenProperties
    <2>5. b[1] = (IF k = 0 THEN buf[p][1] ELSE s[1])
        BY <1>4, <1>5, <2>2
    <2>6. b[2] = (IF k < 2 THEN buf[p][2] ELSE s[2])
        BY <1>4, <1>5, <2>2
    <2> QED BY <2>4, <2>5, <2>6
<1>7. /\ buf'[p] = b /\ buf'[q] = buf[q]
      /\ buf' \in [Players -> [1 .. 2 -> Tag!Pieces]]
    <2>1. buf' = [buf EXCEPT ![p] = b] /\ buf \in [Players -> [1 .. 2 -> Tag!Pieces]]
        BY <1>0, <1>3 DEF Tag!TypeOK
    <2> HIDE DEF b
    <2> QED BY <1>6, <2>1
<1>8. k = 0 => ~Watched(q)
    BY <1>1, <1>3 DEF TagInv, Offered, Known, Watched
<1>9. ~Splits /\ ~Losses => Led(p) /\ Led(q) /\ buf[p][2].kind # "x" /\ buf[q][2].kind # "x"
    BY DEF TagInv, Followed
<1>10. ASSUME ~Splits, ~Losses
       PROVE  k # 1 /\ (k = 2 => s[2].kind # "x")
    <2>1. PICK n \in 0 .. Len(s) : Reporting(s, n, run[q] # "on")
        BY <1>9, <1>10 DEF Led
    <2>2. Len(s) = 2 * n \/ (Len(s) = 2 * n + 2 /\ s[2 * n + 2].kind # "x")
        BY <2>1 DEF Reporting
    <2>3. n \in Nat /\ Len(s) # 1
        <3>1. n \in Nat
            BY <1>2
        <3>2. 2 * n # 1 /\ 2 * n + 2 # 1
            BY <3>1
        <3> QED BY <2>2, <3>1, <3>2
    <2>4. ASSUME k = 2 PROVE s[2].kind # "x"
        <3>1. CASE n = 0
            <4>1. 2 * n + 2 = 2 /\ Len(s) # 2 * n
                BY <1>4, <2>4, <3>1
            <4> QED BY <2>2, <4>1
        <3>2. CASE n # 0
            <4>1. 1 \in 1 .. n /\ 2 * 1 = 2
                BY <2>3, <3>2
            <4>2. s[2 * 1].kind = "y"
                BY <2>1, <4>1 DEF Reporting
            <4> QED BY <4>1, <4>2
        <3> QED BY <3>1, <3>2
    <2> QED BY <1>3, <1>10, <2>3, <2>4
<1>11. ~Splits /\ ~Losses => b[2].kind # "x"
    <2>1. k = 0 \/ k = 1 \/ k = 2
        BY <1>4
    <2> HIDE DEF b, s
    <2> QED BY <1>6, <1>9, <1>10, <2>1
<1> HIDE DEF b, t, h
<1>12. CASE b[1].kind = "q"
    <2>1. Tag!End(p, "told", tagLink[p]) /\ UNCHANGED peer
        BY <1>3, <1>12 DEF b, Tag!Quits
    <2>2. run[q] = "quit"
        <3>1. k # 0
            BY <1>1, <1>6, <1>12 DEF TagInv, NoneHeld
        <3>2. 1 \in 1 .. Len(s) /\ s[1].kind = "q"
            BY <1>2, <1>4, <1>6, <1>12, <3>1
        <3> QED BY <3>2 DEF TagInv, QuitsSent
    <2>3. tagLink[p] \in Seq(Tag!Pieces) /\ me' \in [Players -> Place] /\ me'[q] = me[q]
        BY <1>0, <1>1 DEF Tag!TypeOK, Place
    <2>4. Leaving(p, "told", tagLink[p])
        <3>1. ~Splits /\ ~Losses => buf'[p][2].kind # "x"
            BY <1>7, <1>11
        <3>2. run[Other(p)] # "on"
            BY <2>2
        <3> QED BY <1>1, <3>1, <3>2, NoneSent DEF Leaving
    <2> QED BY <1>1, <1>7, <2>1, <2>2, <2>3, <2>4, TagEnds
<1>13. CASE b[1].kind # "q"
    <2>1. /\ peer' = [peer EXCEPT ![p] = Tag!Interpret(b, @)]
          /\ ready' = [ready EXCEPT ![p] = {}]
          /\ tagLink' = [tagLink EXCEPT ![q] = t]
          /\ UNCHANGED <<run, me, tagTie, typed, ahead, presses>>
        <3>1. tagLink \in [Players -> Seq(Tag!Pieces)]
            BY <1>0 DEF Tag!TypeOK
        <3> QED BY <1>1, <1>3, <1>13, <3>1 DEF b, t, Tag!Quits
    <2>2. /\ tagLink'[q] = t /\ tagLink'[p] = tagLink[p]
          /\ ready'[p] = {} /\ ready'[q] = ready[q]
          /\ peer'[p] = Tag!Interpret(b, peer[p]) /\ peer'[q] = peer[q]
        BY <1>0, <2>1 DEF Tag!TypeOK
    <2>3. peer[p] \in Tag!Position /\ Tag!Interpret(b, peer[p]) \in Tag!Position
        <3>1. peer[p] \in Tag!Position
            BY <1>0 DEF Tag!TypeOK
        <3> QED BY <1>6, <3>1, Interprets
    <2>4. Tag!TypeOK'
        <3>1. peer' \in [Players -> Tag!Position]
            BY <1>0, <2>1, <2>3 DEF Tag!TypeOK
        <3>2. ready' \in [Players -> SUBSET {"stdin", "soc"}]
            BY <1>0, <2>1 DEF Tag!TypeOK
        <3>3. tagLink' \in [Players -> Seq(Tag!Pieces)]
            BY <1>0, <1>5, <2>1 DEF Tag!TypeOK
        <3> QED BY <1>0, <1>7, <2>1, <3>1, <3>2, <3>3 DEF Tag!TypeOK
    <2>5. Known' /\ Tag!NotSentAway'
        BY <2>1 DEF TagInv, Known, Tag!NotSentAway
    <2>6. NoneHeld'
        BY <1>7, <1>13, <2>1 DEF TagInv, NoneHeld
    <2>7. QuitsSent'
        <3>1. \A i \in 1 .. Len(t) : k + i \in 1 .. Len(s) /\ t[i] = s[k + i]
            BY <1>2, <1>4, <1>5
        <3>2. \A i \in 1 .. Len(t) : t[i].kind = "q" => run[q] = "quit"
            BY <3>1 DEF TagInv, QuitsSent
        <3> QED BY <2>1, <2>2, <3>2 DEF TagInv, QuitsSent
    <2>8. Offered'
        BY <2>1, <2>2 DEF TagInv, Offered
    <2>9. Followed'
        <3> SUFFICES ASSUME ~Splits, ~Losses
                     PROVE  /\ Led(p)' /\ buf'[p][2].kind # "x"
                            /\ Led(q)' /\ buf'[q][2].kind # "x"
            BY DEF Followed
        <3>1. buf'[p][2].kind # "x" /\ buf'[q][2].kind # "x"
            BY <1>7, <1>9, <1>11
        <3>2. Led(p)'
            BY <1>9, <2>1, <2>2 DEF Led, Watched
        <3>3. Led(q)'
            <4>1. PICK n \in 0 .. Len(s) :
                      /\ Reporting(s, n, run[q] # "on")
                      /\ Watched(q) => Leading(s, n, peer[p], me[q])
                BY <1>9 DEF Led
            <4>2. CASE k = 0
                <5>1. Len(t) = 0
                    BY <1>3, <1>5, <4>2
                <5>2. 0 \in 0 .. Len(t) /\ Reporting(t, 0, run[q] # "on") /\ ~Watched(q)'
                    BY <1>3, <1>5, <1>8, <2>1, <2>2, <4>2, <5>1 DEF Reporting, Watched
                <5> QED BY <2>1, <2>2, <5>2 DEF Led
            <4>3. CASE k = 2
                <5>1. s # <<>> /\ Watched(q)
                    BY <1>1, <1>2, <1>4, <4>3 DEF Watched
                <5>2. n # 0
                    <6> SUFFICES ASSUME n = 0 PROVE FALSE
                        OBVIOUS
                    <6>1. 2 * n = 0 /\ 2 * n + 1 = 1 /\ Len(s) # 0
                        BY <1>2, <1>4, <4>3
                    <6>2. s[2 * n + 1].kind = "q"
                        BY <4>1, <6>1 DEF Reporting
                    <6> QED BY <1>6, <1>13, <4>3, <6>1, <6>2
                <5>3. n \in Nat /\ n > 0 /\ 1 \in 1 .. n /\ 2 * 1 - 1 = 1 /\ 2 * 1 = 2
                    BY <4>1, <5>2
                <5>4. s[1].kind = "x" /\ s[2].kind = "y"
                    BY <4>1, <5>3 DEF Reporting
                <5>5. peer'[p] = [x |-> s[1].n, y |-> s[2].n]
                    <6>1. b[1] = s[1] /\ b[2] = s[2]
                        BY <1>6, <4>3
                    <6> QED BY <1>6, <2>2, <2>3, <5>4, <6>1, Interprets
                <5>6. t = SubSeq(s, 3, Len(s))
                    BY <4>3 DEF t
                <5>7. PICK gone \in BOOLEAN : gone <=> run[q] # "on"
                    OBVIOUS
                <5>8. Reporting(s, n, gone) /\ Leading(s, n, peer[p], me[q])
                    BY <4>1, <5>1, <5>7
                <5> HIDE DEF s
                <5>9. /\ Reporting(t, n - 1, gone) /\ n - 1 \in 0 .. Len(t)
                      /\ Leading(t, n - 1, [x |-> s[1].n, y |-> s[2].n], me[q])
                    BY <1>2, <5>3, <5>6, <5>8, OneLess
                <5>10. Reporting(t, n - 1, run'[q] # "on") /\ Leading(t, n - 1, peer'[p], me'[q])
                    BY <2>1, <5>5, <5>7, <5>9
                <5> QED BY <2>2, <5>9, <5>10 DEF Led
            <4> QED BY <1>4, <1>10, <4>2, <4>3
        <3> QED BY <3>1, <3>2, <3>3
    <2> QED BY <2>4, <2>5, <2>6, <2>7, <2>8, <2>9 DEF TagInv
<1> QED BY <1>12, <1>13

LEMMA TagStep == Tag!TagAssumption /\ TagInv /\ [Tag!Next]_tagVars => TagInv'
<1> SUFFICES ASSUME Tag!TagAssumption, TagInv, [Tag!Next]_tagVars PROVE TagInv'
    OBVIOUS
<1>1. CASE Tag!Next
    <2>1. CASE Tag!Over
        BY <2>1 DEF Tag!Over, Tag!vars, TagInv, Tag!TypeOK, Known, QuitsSent, NoneHeld, Offered, Followed, Led, Watched, Tag!NotSentAway
    <2>2. CASE ~Tag!Over
        <3>1. PICK p \in Players :
                  \/ Tag!Interrupt(p) \/ Tag!Select(p) \/ Tag!Key(p) \/ Tag!Wire(p)
                  \/ \E k \in Keys : Tag!Press(p, k)
            BY <1>1, <2>2, Names DEF Tag!Next
        <3> QED BY <3>1, Interrupted, Selected, Keyed, Wired, Pressed
    <2> QED BY <2>1, <2>2
<1>2. CASE UNCHANGED tagVars
    BY <1>2 DEF tagVars, TagInv, Tag!TypeOK, Known, QuitsSent, NoneHeld, Offered, Followed, Led, Watched, Tag!NotSentAway
<1> QED BY <1>1, <1>2

-----------------------------------------------------------------------------
\* The reports of Tag's Mirror are those counted here.
LEMMA Reported ==
    ASSUME Tag!TypeOK, NEW q \in Players, NEW n \in 0 .. Len(tagLink[q]), NEW gone \in BOOLEAN,
           Reporting(tagLink[q], n, gone)
    PROVE  Tag!Reports(q) =
               [i \in 1 .. n |-> [x |-> tagLink[q][2 * i - 1].n, y |-> tagLink[q][2 * i].n]]
<1> DEFINE s == tagLink[q]
           X == {j \in 1 .. Len(s) : s[j].kind = "x"}
           f == [i \in 1 .. n |-> 2 * i - 1]
<1>1. s \in Seq(Tag!Pieces) /\ Len(s) \in Nat /\ n \in Nat
    <2>1. s \in Seq(Tag!Pieces)
        BY Names DEF Tag!TypeOK
    <2> QED BY <2>1, LenProperties
<1>2. /\ \A i \in 1 .. n : s[2 * i - 1].kind = "x" /\ s[2 * i].kind = "y"
      /\ \/ Len(s) = 2 * n
         \/ Len(s) = 2 * n + 2 /\ s[2 * n + 1].kind = "q" /\ s[2 * n + 2].kind # "x"
    BY DEF Reporting
<1> HIDE DEF s
<1>3. \A i \in 1 .. n : f[i] \in X
    <2>1. ASSUME NEW i \in 1 .. n PROVE f[i] \in X
        <3>1. 2 * i - 1 \in 1 .. Len(s)
            BY <1>1, <1>2
        <3> QED BY <1>2, <3>1
    <2> QED BY <2>1
<1>4. \A j \in X : \E i \in 1 .. n : f[i] = j
    <2>1. ASSUME NEW j \in X PROVE \E i \in 1 .. n : f[i] = j
        <3>1. j \in 1 .. Len(s) /\ s[j].kind = "x"
            OBVIOUS
        <3>2. j # 2 * n + 1 \/ j > Len(s)
            BY <1>1, <1>2, <3>1
        <3>3. PICK i \in Nat : j = 2 * i - 1 \/ j = 2 * i
            <4>1. PICK m \in Nat : j = 2 * m \/ j = 2 * m + 1
                <5>1. j \in Nat
                    BY <3>1
                <5>2. j \div 2 \in Nat /\ (j = 2 * (j \div 2) \/ j = 2 * (j \div 2) + 1)
                    BY <5>1
                <5> QED BY <5>2
            <4>2. m + 1 \in Nat /\ 2 * (m + 1) - 1 = 2 * m + 1
                OBVIOUS
            <4> QED BY <4>1, <4>2
        <3>4. i \in 1 .. n + 1
            BY <1>1, <1>2, <3>1, <3>3
        <3>5. i # n + 1
            <4> SUFFICES ASSUME i = n + 1 PROVE FALSE
                OBVIOUS
            <4>1. j = 2 * n + 1 \/ j = 2 * n + 2
                BY <1>1, <3>3
            <4>2. Len(s) # 2 * n
                BY <1>1, <3>1, <4>1
            <4>3. s[j].kind # "x"
                BY <1>2, <4>1, <4>2
            <4> QED BY <3>1, <4>3
        <3>6. i \in 1 .. n
            BY <1>1, <3>4, <3>5
        <3>7. j # 2 * i
            BY <1>2, <3>1, <3>6
        <3> QED BY <3>3, <3>6, <3>7
    <2> QED BY <2>1
<1>5. Cardinality(X) = n
    <2>1. f \in Bijection(1 .. n, X)
        <3>1. f \in [1 .. n -> X]
            BY <1>3
        <3>2. \A a, b \in 1 .. n : f[a] = f[b] => a = b
            BY <1>1
        <3> HIDE DEF f, X
        <3> QED BY <1>4, <3>1, <3>2, Fun_IsBij
    <2>2. ExistsBijection(1 .. n, X)
        BY <2>1 DEF ExistsBijection
    <2> HIDE DEF X
    <2> QED BY <1>1, <2>2, FS_CountingElements
<1>6. Tag!Cardinality(X) = Cardinality(X)
    BY DEF Tag!Cardinality, Cardinality
<1>7. Tag!Reports(q) =
          [i \in 1 .. Cardinality(X) |-> [x |-> s[2 * i - 1].n, y |-> s[2 * i].n]]
    BY <1>6 DEF Tag!Reports, s
<1> QED BY <1>5, <1>7 DEF s

\* What tag promises follows.
LEMMA TagPromises ==
    ASSUME TagInv
    PROVE  /\ Tag!TypeOK /\ Tag!NotSentAway
           /\ ~Splits /\ ~Losses => Tag!Mirror
<1> USE Names, Two
<1>0. Tag!TypeOK /\ Tag!NotSentAway
    BY DEF TagInv
<1>1. ASSUME ~Splits, ~Losses PROVE Tag!Mirror
    <2> SUFFICES ASSUME NEW p \in Players,
                        run[p] = "on", run[Other(p)] = "on" \/ tagLink[Other(p)] # <<>>
                 PROVE  LET path == <<peer[p]>> \o Tag!Reports(Other(p)) IN
                        /\ Tag!Last(path) = me[Other(p)]
                        /\ \A i \in 1 .. Len(path) - 1 : Tag!Near(path[i], path[i + 1])
        BY DEF Tag!Mirror
    <2> DEFINE q == Other(p)
               s == tagLink[q]
               path == <<peer[p]>> \o Tag!Reports(q)
               r == Tag!Reports(q)
    <2>1. Led(q) /\ Watched(q)
        BY <1>1 DEF TagInv, Followed, Watched
    <2>2. PICK n \in 0 .. Len(s) :
              Reporting(s, n, run[q] # "on") /\ Leading(s, n, peer[p], me[q])
        BY <2>1 DEF Led
    <2>3. r = [i \in 1 .. n |-> [x |-> s[2 * i - 1].n, y |-> s[2 * i].n]]
        <3>1. PICK gone \in BOOLEAN : gone <=> run[q] # "on"
            OBVIOUS
        <3>2. Reporting(s, n, gone)
            BY <2>2, <3>1
        <3> QED BY <1>0, <3>2, Reported
    <2>4. s \in Seq(Tag!Pieces) /\ Len(s) \in Nat /\ n \in Nat
        <3>1. s \in Seq(Tag!Pieces)
            BY <1>0 DEF Tag!TypeOK
        <3> QED BY <3>1, LenProperties
    <2> HIDE DEF s
    <2>5. r \in Seq(UNION {{r[i]} : i \in 1 .. n}) /\ Len(r) = n
        <3> DEFINE V == UNION {{r[i]} : i \in 1 .. n}
        <3>1. r \in [1 .. n -> V]
            BY <2>3
        <3> HIDE DEF V, r
        <3> QED BY <2>4, <3>1, Sized DEF V
    <2>6. PICK V : r \in Seq(V) /\ peer[p] \in V
        <3> DEFINE W == UNION {{r[i]} : i \in 1 .. n}
        <3> HIDE DEF r
        <3>1. r \in Seq(W \cup {peer[p]})
            <4> HIDE DEF W
            <4> QED BY <2>5, SeqMonotonic DEF W
        <3> QED BY <3>1
    <2> HIDE DEF r
    <2>7. /\ Len(path) = n + 1
          /\ \A i \in 1 .. n + 1 : path[i] = IF i = 1 THEN peer[p] ELSE r[i - 1]
        <3>1. <<peer[p]>> \in Seq(V) /\ Len(<<peer[p]>>) = 1 /\ <<peer[p]>>[1] = peer[p]
            BY <2>6
        <3>2. /\ Len(path) = 1 + Len(r)
              /\ \A i \in 1 .. 1 + Len(r) : path[i] = IF i <= 1 THEN <<peer[p]>>[i] ELSE r[i - 1]
            BY <2>6, <3>1, ConcatProperties DEF r
        <3> HIDE DEF path
        <3>3. Len(r) = n
            BY <2>5
        <3> QED BY <2>4, <3>1, <3>2, <3>3
    <2>8. \A i \in 0 .. n : path[i + 1] = At(s, peer[p], i)
        <3> HIDE DEF path
        <3>1. ASSUME NEW i \in 0 .. n PROVE path[i + 1] = At(s, peer[p], i)
            <4>1. i + 1 \in 1 .. n + 1 /\ (i + 1) - 1 = i
                BY <2>4
            <4>2. CASE i = 0
                BY <2>7, <4>1, <4>2 DEF At
            <4>3. CASE i # 0
                <5>1. i \in 1 .. n /\ i + 1 # 1
                    BY <4>3
                <5>2. path[i + 1] = r[i]
                    BY <2>7, <4>1, <5>1
                <5>3. r[i] = [x |-> s[2 * i - 1].n, y |-> s[2 * i].n]
                    BY <2>3, <5>1
                <5> QED BY <4>3, <5>2, <5>3 DEF At
            <4> QED BY <4>2, <4>3
        <3> QED BY <3>1
    <2> HIDE DEF path
    <2>9. Tag!Last(path) = me[q]
        <3>1. n \in 0 .. n
            BY <2>4
        <3>2. path[n + 1] = me[q]
            BY <2>2, <2>8, <3>1 DEF Leading
        <3> QED BY <2>7, <3>2 DEF Tag!Last
    <2>10. ASSUME NEW i \in 1 .. Len(path) - 1 PROVE Tag!Near(path[i], path[i + 1])
        <3>1. i \in 1 .. n /\ i - 1 \in 0 .. n /\ i \in 0 .. n /\ (i - 1) + 1 = i
            BY <2>4, <2>7
        <3>2. path[i] = At(s, peer[p], i - 1) /\ path[i + 1] = At(s, peer[p], i)
            BY <2>8, <3>1
        <3> QED BY <2>2, <3>1, <3>2 DEF Leading
    <2> QED BY <2>9, <2>10 DEF path
<1> QED BY <1>0, <1>1

\* Nobody is sent away but by a player who quit; and where messages come whole and none
\* is lost, what is under way leads from where a player is shown to where he is.
THEOREM Sessions ==
    ASSUME Tag!TagAssumption
    PROVE  Tag!Safety => [](Tag!TypeOK /\ Tag!NotSentAway /\ (~Splits /\ ~Losses => Tag!Mirror))
<1>1. Tag!Init => TagInv
    BY TagStart
<1>2. TagInv /\ [Tag!Next]_tagVars => TagInv'
    BY TagStep
<1>3. TagInv => Tag!TypeOK /\ Tag!NotSentAway /\ (~Splits /\ ~Losses => Tag!Mirror)
    BY TagPromises
<1> QED BY <1>1, <1>2, <1>3, PTL DEF Tag!Safety, Tag!vars, tagVars

=============================================================================
