------------------------------ MODULE TetrisJs ------------------------------
(***************************************************************************)
(* Tetris in a browser (javascript/tetris/tetris.js): a timer that drops   *)
(* the piece, and keys that move and turn it.  Three things are not what   *)
(* they seem: the shape that a turn changes is that of the model, which    *)
(* the next piece of its kind is made from; the turn goes around a centre  *)
(* that is rounded; and the rows to delete are sorted as text, 10 before 9.*)
(***************************************************************************)
EXTENDS Integers, FiniteSets, FiniteSetsExt, Functions, SequencesExt

CONSTANTS
    horizontalNum, verticalNum,
    Kinds,        (* the pieces that are drawn, of 1 .. 7                  *)
    Radix,        (* in which row numbers are written; 10 in the program   *)
    MaxPieces,    (* bound: pieces in a game                               *)
    MaxKeys       (* bound: keys pressed for a piece                       *)

TetrisAssumption ==
    /\ horizontalNum \in Nat \ {0} /\ verticalNum \in Nat \ {0}
    /\ Kinds \subseteq 1 .. 7 /\ Kinds # {}
    /\ Radix \in Nat /\ Radix > 1 /\ verticalNum <= Radix * Radix
    /\ MaxPieces \in Nat /\ MaxKeys \in Nat

VARIABLES
    values,       (* what the frame knows at [y][x]: one block or none     *)
    shape,        (* the shape of each model                               *)
    curr,         (* the falling piece: its model and its cells <<x, y>>   *)
    over,
    pieces,       (* pieces drawn                                          *)
    keys,         (* keys pressed for this one                             *)
    mixed         (* were rows deleted that text sorts otherwise?          *)

vars == <<values, shape, curr, over, pieces, keys, mixed>>

BlockModels == <<
    << <<1, 1, 1, 1>> >>,
    << <<1, 1, 0>>, <<0, 1, 1>> >>,
    << <<0, 1, 1>>, <<1, 1, 0>> >>,
    << <<1, 1, 1>>, <<0, 1, 0>> >>,
    << <<1, 1, 1>>, <<0, 0, 1>> >>,
    << <<1, 1>>, <<1, 1>> >>,
    << <<1, 1, 1>>, <<1, 0, 0>> >> >>

Xs == 0 .. horizontalNum - 1
Ys == 0 .. verticalNum - 1

\* A block knows where it is, and may have been taken off the page.
Blocks == [x : Int, y : Int, shown : BOOLEAN]

\* The cells of a shape whose corner is at x, y.
Cells(s, x, y) ==
    {<<x + j - 1, y + i - 1>> : <<i, j>> \in
        {ij \in (1 .. Len(s)) \X (1 .. Len(s[1])) : s[ij[1]][ij[2]] = 1}}

\* colisionp2
Occupied(v, x, y) == IF x \in Xs /\ y \in Ys THEN v[y][x] # {} ELSE TRUE

Shifted(es, dx, dy) == {<<c[1] + dx, c[2] + dy>> : c \in es}

\* colisionp
Collides(v, es) == \E c \in es : Occupied(v, c[1], c[2])

-----------------------------------------------------------------------------
(* Turning                                                                 *)

Rotated(s) == [i \in 1 .. Len(s[1]) |-> [j \in 1 .. Len(s) |-> s[j][Len(s[1]) - i + 1]]]

\* Four times the centre of four cells, the first row and column being 1.
Sum(es, k) == FoldFunctionOnSet(+, 0, [c \in es |-> c[k] + 1], es)

\* Math.round(x + j - length / 2 - 1)
Corner(sum, length) == (sum - 2 * length - 2) \div 4

Turned(es, s) == Cells(s, Corner(Sum(es, 1), Len(s[1])), Corner(Sum(es, 2), Len(s)))

\* Mistakes: the walls are asked, the blocks are not; the model is not turned.
RotateThrough ==
    LET s == Rotated(shape[curr.model])
        es == Turned(curr.es, s)
    IN IF \E c \in es : ~(c[1] \in Xs /\ c[2] \in Ys)
       THEN UNCHANGED <<shape, curr>>
       ELSE shape' = [shape EXCEPT ![curr.model] = s] /\ curr' = [curr EXCEPT !.es = es]

\* Blocks.rotate, when the cells it needs are free.
Rotate ==
    LET s == Rotated(shape[curr.model])
        es == Turned(curr.es, s)
    IN IF Collides(values, es)
       THEN UNCHANGED <<shape, curr>>
       ELSE shape' = [shape EXCEPT ![curr.model] = s] /\ curr' = [curr EXCEPT !.es = es]

-----------------------------------------------------------------------------
(* The frame                                                               *)

\* fixBlocks puts the piece down ...
Fixed(v, es) ==
    [y \in Ys |-> [x \in Xs |->
        IF <<x, y>> \in es THEN {[x |-> x, y |-> y, shown |-> TRUE]} ELSE v[y][x]]]

\* ... and looks for full rows where it lies.
Full(v, y) == \A x \in Xs : v[y][x] # {}
FullRows(v, es) == {y \in {c[2] : c \in es} : Full(v, y)}

\* indexes.sort(): "10" < "9".
Text(n) == IF n < Radix THEN <<n>> ELSE <<n \div Radix, n % Radix>>
TextBefore(m, n) ==
    \/ Text(m)[1] < Text(n)[1]
    \/ Text(m)[1] = Text(n)[1] /\ (Len(Text(m)) < Len(Text(n)) \/ m < n)

\* Mistake: the rows are sorted from below.
SortedDown(rows) == SetToSortSeq(rows, LAMBDA m, n : TextBefore(n, m))

Sorted(rows) == SetToSortSeq(rows, TextBefore)

\* deleteRows: the pair of dp (from 1) and dd when row i has been looked at.
Passed(indexes, p, i) ==
    Max({k \in 0 .. p[1] : \A m \in 0 .. k - 1 : i - p[2] - m = indexes[p[1] - m]})

Pointers(indexes) ==
    LET d == Len(indexes)
        f[i \in 0 .. verticalNum] ==
            IF i > indexes[d] THEN <<d - 1, 1>>
            ELSE LET q == f[i + 1]
                     k == Passed(indexes, q, i)
                 IN <<q[1] - k, q[2] + k>>
    IN f

\* Block.move
Moved(cell, dd) == {[b EXCEPT !.y = @ + dd] : b \in cell}

DeleteRows(v, rows) ==
    LET indexes == Sorted(rows)
        d == Len(indexes)
        p == Pointers(indexes)
        off == [y \in Ys |-> IF y \in rows
                             THEN [x \in Xs |-> {[b EXCEPT !.shown = FALSE] : b \in v[y][x]}]
                             ELSE v[y]]
    IN IF d = 0 THEN v
       ELSE [y \in Ys |->
                CASE y < d -> [x \in Xs |-> {}]
                  [] y >= d /\ y <= indexes[d] ->
                        [x \in Xs |-> Moved(off[y - p[y][2]][x], p[y][2])]
                  [] OTHER -> off[y]]

InOrder(rows) == \A m, n \in rows : TextBefore(m, n) => m <= n

-----------------------------------------------------------------------------
(* The game                                                                *)

\* genBlocks
Drawn(k, s) == [model |-> k, es |-> Cells(s, (horizontalNum - Len(s[1])) \div 2, 0)]

Init ==
    /\ values = [y \in Ys |-> [x \in Xs |-> {}]]
    /\ shape = [k \in Kinds |-> BlockModels[k]]
    /\ \E k \in Kinds : curr = Drawn(k, BlockModels[k])
    /\ over = FALSE
    /\ pieces = 1 /\ keys = 0 /\ mixed = FALSE

\* dropBlocks, while there is room ...
Fall ==
    /\ ~over /\ ~Collides(values, Shifted(curr.es, 0, 1))
    /\ curr' = [curr EXCEPT !.es = Shifted(@, 0, 1)]
    /\ UNCHANGED <<values, shape, over, pieces, keys, mixed>>

\* ... and when there is none.  The game is over when the next piece does not
\* fit; its timer is not started then.
Land ==
    /\ ~over /\ Collides(values, Shifted(curr.es, 0, 1)) /\ pieces < MaxPieces
    /\ \E v \in {Fixed(values, curr.es)} : \E rows \in {FullRows(v, curr.es)} :
          /\ values' \in {DeleteRows(v, rows)}
          /\ mixed' = (mixed \/ ~InOrder(rows))
    /\ \E k \in Kinds :
          /\ curr' = Drawn(k, shape[k])
          /\ over' = Collides(values', curr'.es)
    /\ pieces' = pieces + 1 /\ keys' = 0
    /\ UNCHANGED shape

\* keyObserver, which does not know when the game is over.
Move(dx, dy) ==
    /\ curr' = IF Collides(values, Shifted(curr.es, dx, dy)) THEN curr
               ELSE [curr EXCEPT !.es = Shifted(@, dx, dy)]
    /\ UNCHANGED shape

Key ==
    /\ keys < MaxKeys /\ keys' = keys + 1
    /\ Move(-1, 0) \/ Move(1, 0) \/ Move(0, 1) \/ Rotate
    /\ UNCHANGED <<values, over, pieces, mixed>>

Drop == Fall \/ Land

Next == Drop \/ Key

Safety == Init /\ [][Next]_vars

\* The timer goes off again and again.
Fairness == WF_vars(Drop)

Spec == Safety /\ Fairness

-----------------------------------------------------------------------------
\* Every variable has its type, and the piece is in the frame, even when the
\* game is over.
TypeOK ==
    /\ values \in [Ys -> [Xs -> SUBSET Blocks]]
    /\ curr.model \in Kinds /\ curr.es \subseteq Xs \X Ys
    /\ over \in BOOLEAN /\ mixed \in BOOLEAN
    /\ pieces \in Nat /\ keys \in Nat

\* The falling piece is in the frame and on no block, whatever turns and rows
\* deleted have made of either, until the game is over.
RoomToFall == ~over => ~Collides(values, curr.es)

\* The piece looks like its model, although the models are turned with it and
\* the next piece begins as the last one was left.
Translates(es, s) ==
    \E c \in es, d \in Cells(s, 0, 0) :
        es = Shifted(Cells(s, 0, 0), c[1] - d[1], c[2] - d[2])
LooksLikeModel == Translates(curr.es, shape[curr.model])

\* Turning never makes another piece of one: a shape is that of its model after
\* some quarter turns.
QuarterTurn(es) == {<<c[2], -c[1]>> : c \in es}
SamePiece ==
    \A k \in Kinds :
        LET es == Cells(BlockModels[k], 0, 0)
            back == QuarterTurn(QuarterTurn(es))
        IN \E ts \in {es, QuarterTurn(es), back, QuarterTurn(back)} :
              Translates(ts, shape[k])

\* What the frame holds at a place is a block that is shown there, unless rows
\* were deleted together whose numbers text puts in another order.
ShownWhereHeld ==
    ~mixed => \A y \in Ys : \A x \in Xs :
                  values[y][x] \subseteq {[x |-> x, y |-> y, shown |-> TRUE]}

\* With the same exception, landing leaves what is left of the rows above when
\* the full ones are gone, in their order, with no full row among them.
Compacted(v) ==
    LET left == {y \in Ys : ~Full(v, y)}
        gone == verticalNum - Cardinality(left)
        From(y) == CHOOSE z \in left :
                        Cardinality({w \in left : w > z}) = verticalNum - 1 - y
    IN [y \in Ys |-> [x \in Xs |-> y >= gone /\ v[From(y)][x] # {}]]

LandsAsItShould ==
    values' # values /\ ~mixed' =>
        [y \in Ys |-> [x \in Xs |-> values'[y][x] # {}]] = Compacted(Fixed(values, curr.es))

\* A piece that is turned a bounded number of times comes to rest, although a
\* turn may lift it, and so all pieces there are come.
ComesToRest == <>(over \/ pieces = MaxPieces)
=============================================================================
