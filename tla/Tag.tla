--------------------------------- MODULE Tag ---------------------------------
(***************************************************************************)
(* Tag, a game for two over a connection (c/network/tag).  Each player's   *)
(* session moves its own mark about the field and shows where the other    *)
(* says he is.  One buffer serves both directions.                         *)
(*                                                                         *)
(* A message of BUF_LEN bytes is two pieces, of which a read may get one.  *)
(* It is a piece for x and one for y; a quit overwrites the first with "q" *)
(* and sends whatever the second holds.                                    *)
(***************************************************************************)
EXTENDS Integers, SequencesExt, FiniteSetsExt

CONSTANTS
    MaxX, MaxY,         (* MAX_X, MAX_Y                                    *)
    ClientX, ClientY,   (* where the client starts                         *)
    Keys,               (* what is typed                                   *)
    Presses,            (* bound: how often, by each player                *)
    Interrupts,         (* players who may type ^C                         *)
    Splits,             (* may a read get a part of a message?             *)
    Losses              (* may a reset lose what it overtakes?             *)

Players == {"server", "client"}
Other(p) == CHOOSE q \in Players : q # p

TagAssumption ==
    /\ MaxX \in Nat \ {0} /\ MaxY \in Nat \ {0}
    /\ ClientX \in 1 .. MaxX /\ ClientY \in 1 .. MaxY
    /\ Presses \in Nat /\ Interrupts \subseteq Players
    /\ Splits \in BOOLEAN /\ Losses \in BOOLEAN

VARIABLES
    run,        (* "on", or why the player's process is over               *)
    me, peer,   (* positions in his session                                *)
    buf,        (* its buffer: two pieces                                  *)
    ready,      (* descriptors select returned that are still to be served *)
    typed,      (* keys the terminal holds                                 *)
    ahead,      (* keys getchar has read and not returned                  *)
    presses,    (* how many keys have been typed                           *)
    link,       (* pieces the player has sent that are not read            *)
    tie         (* what his kernel knows of the other's end                *)

keys == <<typed, ahead, presses>>
vars == <<run, me, peer, buf, ready, typed, ahead, presses, link, tie>>

Nums == 0 .. MaxX + MaxY
Pieces == [kind : {"x", "y", "q", "none"}, n : Nums]
Piece(k, i) == [kind |-> k, n |-> i]
Position == [x : Nums, y : Nums]

Start == [server |-> [x |-> 1, y |-> 1], client |-> [x |-> ClientX, y |-> ClientY]]

Init ==
    /\ run = [p \in Players |-> "on"]
    /\ me = Start
    /\ peer = [p \in Players |-> Start[Other(p)]]
    /\ buf = [p \in Players |-> [i \in 1 .. 2 |-> Piece("none", 0)]]
    /\ ready = [p \in Players |-> {}]
    /\ typed = [p \in Players |-> <<>>] /\ ahead = [p \in Players |-> <<>>]
    /\ presses = [p \in Players |-> 0]
    /\ link = [p \in Players |-> <<>>]
    /\ tie = [p \in Players |-> "open"]

-----------------------------------------------------------------------------
(* The ends                                                                *)

\* The player's process is over, and l is what he has sent.  If there is
\* anything he has not read, the connection is reset and not just closed.
End(p, why, l) ==
    LET q == Other(p)
        unread == link[q] # <<>>
    IN
    /\ run' = [run EXCEPT ![p] = why]
    /\ \E k \in IF unread /\ Losses THEN 0 .. Len(l) ELSE {Len(l)} :
          link' = [link EXCEPT ![p] = SubSeq(l, 1, k), ![q] = <<>>]
    /\ tie' = [tie EXCEPT ![q] = IF unread THEN "reset" ELSE "shut"]
    /\ ready' = [ready EXCEPT ![p] = {}]
    /\ typed' = [typed EXCEPT ![p] = <<>>] /\ ahead' = [ahead EXCEPT ![p] = <<>>]
    /\ UNCHANGED presses

\* ^C, which calls die
Interrupt(p) ==
    /\ run[p] = "on" /\ p \in Interrupts
    /\ End(p, "interrupt", link[p])
    /\ UNCHANGED <<me, peer, buf>>

Press(p, k) ==
    /\ run[p] = "on" /\ presses[p] < Presses
    /\ presses' = [presses EXCEPT ![p] = @ + 1]
    /\ typed' = [typed EXCEPT ![p] = Append(@, k)]
    /\ UNCHANGED <<run, me, peer, buf, ready, ahead, link, tie>>

-----------------------------------------------------------------------------
(* session_loop                                                            *)

\* The end of a connection is readable; keys that getchar holds are not.
Readable(p) ==
    (IF typed[p] # <<>> THEN {"stdin"} ELSE {}) \cup
    (IF link[Other(p)] # <<>> \/ tie[p] # "open" THEN {"soc"} ELSE {})

Select(p) ==
    /\ run[p] = "on" /\ ready[p] = {}
    /\ Readable(p) # {}
    /\ ready' = [ready EXCEPT ![p] = Readable(p)]
    /\ UNCHANGED <<run, me, peer, buf, keys, link, tie>>

\* update
Update(pos, k) ==
    IF k = "h" /\ pos.x > 1 THEN [pos EXCEPT !.x = @ - 1]
    ELSE IF k = "l" /\ pos.x < MaxX THEN [pos EXCEPT !.x = @ + 1]
    ELSE IF k = "k" /\ pos.y > 1 THEN [pos EXCEPT !.y = @ - 1]
    ELSE IF k = "j" /\ pos.y < MaxY THEN [pos EXCEPT !.y = @ + 1]
    ELSE pos

\* What update leaves in a buffer b for the player at pos.
Written(b, pos, k) ==
    IF k = "q" THEN [b EXCEPT ![1] = Piece("q", 0)]
               ELSE <<Piece("x", pos.x), Piece("y", pos.y)>>

\* One key: getchar takes all there are and returns the first.  The second
\* write to a player who is gone kills this one.
Key(p) ==
    LET typing == ahead[p] \o typed[p]
        k == Head(typing)
    IN
    /\ run[p] = "on" /\ "stdin" \in ready[p]
    /\ me' = [me EXCEPT ![p] = Update(@, k)]
    /\ buf' = [buf EXCEPT ![p] = Written(@, me'[p], k)]
    /\ IF k = "q" \/ tie[p] = "reset"
       THEN End(p, IF tie[p] = "reset" THEN "killed" ELSE "quit",
                IF tie[p] = "open" THEN link[p] \o buf'[p] ELSE link[p])
       ELSE /\ ahead' = [ahead EXCEPT ![p] = Tail(typing)]
            /\ typed' = [typed EXCEPT ![p] = <<>>]
            /\ link' = [link EXCEPT ![p] = IF tie[p] = "open" THEN @ \o buf'[p] ELSE @]
            /\ tie' = [tie EXCEPT ![p] = IF @ = "open" THEN @ ELSE "reset"]
            /\ ready' = [ready EXCEPT ![p] = @ \ {"stdin"}]
            /\ UNCHANGED <<run, presses>>
    /\ UNCHANGED peer

\* Mistake: the numbers are read the other way round.
InterpretSwapped(b, pos) ==
    [x |-> IF b[1].kind = "x" /\ b[2].kind \in {"x", "y"} THEN b[2].n ELSE pos.x,
     y |-> IF b[1].kind \in {"x", "y"} THEN b[1].n ELSE pos.y]

\* interpret: two numbers of the buffer, as far as there are numbers.  The
\* text of a message ends with its y.
Interpret(b, pos) ==
    [x |-> IF b[1].kind \in {"x", "y"} THEN b[1].n ELSE pos.x,
     y |-> IF b[1].kind = "x" /\ b[2].kind \in {"x", "y"} THEN b[2].n ELSE pos.y]

\* Mistake: an empty buffer is a quit.
QuitsEmpty(b) == b[1].kind \in {"q", "none"}

Quits(b) == b[1].kind = "q"

\* One read, of a message or a part, or of nothing at the end of the
\* connection: the buffer is interpreted as it is then.
Wire(p) ==
    LET q == Other(p) IN
    /\ run[p] = "on" /\ ready[p] = {"soc"}
    /\ \E k \in 0 .. Min({2, Len(link[q])}) :
          LET b == SubSeq(link[q], 1, k) \o SubSeq(buf[p], k + 1, 2) IN
          /\ k = 0 => link[q] = <<>>
          /\ k = 1 => Splits \/ Len(link[q]) = 1
          /\ buf' = [buf EXCEPT ![p] = b]
          /\ IF Quits(b)
             THEN End(p, "told", link[p]) /\ UNCHANGED peer
             ELSE /\ peer' = [peer EXCEPT ![p] = Interpret(b, @)]
                  /\ ready' = [ready EXCEPT ![p] = {}]
                  /\ link' = [link EXCEPT ![q] = SubSeq(@, k + 1, Len(@))]
                  /\ UNCHANGED <<run, tie, keys>>
    /\ UNCHANGED me

Over == (\A p \in Players : run[p] # "on") /\ UNCHANGED vars

Next ==
    \/ \E p \in Players :
          \/ Interrupt(p) \/ Select(p) \/ Key(p) \/ Wire(p)
          \/ \E k \in Keys : Press(p, k)
    \/ Over

Safety == Init /\ [][Next]_vars

\* Both processes are scheduled; nobody need type.
Fairness == \A p \in Players : WF_vars(Select(p) \/ Key(p) \/ Wire(p))

Spec == Safety /\ Fairness

-----------------------------------------------------------------------------
(* Properties                                                              *)

TypeOK ==
    /\ run \in [Players -> {"on", "quit", "told", "interrupt", "killed"}]
    /\ me \in [Players -> [x : 1 .. MaxX, y : 1 .. MaxY]]
    /\ peer \in [Players -> Position]
    /\ buf \in [Players -> [1 .. 2 -> Pieces]]
    /\ ready \in [Players -> SUBSET {"stdin", "soc"}]
    /\ typed \in [Players -> Seq(Keys)] /\ ahead \in [Players -> Seq(Keys)]
    /\ presses \in [Players -> 0 .. Presses]
    /\ link \in [Players -> Seq(Pieces)]
    /\ tie \in [Players -> {"open", "shut", "reset"}]

\* The places of the messages under way from q, a quit left aside.
Reports(q) ==
    [i \in 1 .. Cardinality({j \in 1 .. Len(link[q]) : link[q][j].kind = "x"}) |->
        [x |-> link[q][2 * i - 1].n, y |-> link[q][2 * i].n]]

Near(a, b) == a.x - b.x \in -1 .. 1 /\ a.y - b.y \in -1 .. 1 /\ (a.x = b.x \/ a.y = b.y)

\* Where I show the peer he has been: the reports that are under way lead
\* from there, step by step, to where he stands.  (Once he is gone and all
\* is read I may see him where I stand: session.c:89 reads nothing, and what
\* interpret gets is my own report.)
Mirror ==
    \A p \in Players :
        LET q == Other(p)
            path == <<peer[p]>> \o Reports(q)
        IN
        run[p] = "on" /\ (run[q] = "on" \/ link[q] # <<>>) =>
            /\ Last(path) = me[q]
            /\ \A i \in 1 .. Len(path) - 1 : Near(path[i], path[i + 1])

\* Only a player who typed "q" sends the other away, even when messages come
\* in pieces, the rest of a buffer holds an old "q", or the peer has gone.
NotSentAway ==
    \A p \in Players : run[p] = "told" => run[Other(p)] = "quit"

\* A player's quit ends the session of the other, one way or another.
Farewell ==
    \A p \in Players : run[p] = "quit" ~> run[Other(p)] # "on"

\* When the players stop typing, each sees the other where he is.
Settles ==
    \A p \in Players :
        <>[](run[p] = "on" /\ run[Other(p)] = "on" => peer[p] = me[Other(p)])

=============================================================================
