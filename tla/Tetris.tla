------------------------------- MODULE Tetris -------------------------------
(***************************************************************************)
(* The two Tetris programs for model checking: the one for browsers in a   *)
(* narrow frame where rows fill ("rows"), in a wider one where pieces are  *)
(* turned ("turns") and in a low one with the timer's fairness ("timer"),  *)
(* and the one in Perl/Tk ("tk").  What both promise is stated once.       *)
(***************************************************************************)
EXTENDS Integers

VARIABLES
    game,                                                 (* which is on   *)
    values, shape, curr, over, pieces, jsKeys, mixed,     (* of TetrisJs   *)
    state, heap, block_cells, tile_ids, ticks, hasty, blocks, tkKeys

jsVars == <<values, shape, curr, over, pieces, jsKeys, mixed>>
tkVars == <<state, heap, block_cells, tile_ids, ticks, hasty, blocks, tkKeys>>

\* Row numbers get their second digit at 5 here, so that rows 4 and 5 stand for
\* the 9 and 10 of the program.
Rows == INSTANCE TetrisJs WITH
    keys <- jsKeys, horizontalNum <- 4, verticalNum <- 6, Kinds <- {1, 6}, Radix <- 5,
    MaxPieces <- 7, MaxKeys <- 2

Turns == INSTANCE TetrisJs WITH
    keys <- jsKeys, horizontalNum <- 5, verticalNum <- 7, Kinds <- {1, 2, 4, 5}, Radix <- 10,
    MaxPieces <- 2, MaxKeys <- 6

Timer == INSTANCE TetrisJs WITH
    keys <- jsKeys, horizontalNum <- 4, verticalNum <- 5, Kinds <- {1, 5}, Radix <- 10,
    MaxPieces <- 3, MaxKeys <- 2

Tk == INSTANCE TetrisPl WITH
    keys <- tkKeys, MAX_COLS <- 4, MAX_ROWS <- 4, Patterns <- {1, 5}, MaxBlocks <- 4,
    MaxKeys <- 2, MaxTicks <- 2

ASSUME TetrisBounds ==
    /\ Rows!TetrisAssumption /\ Turns!TetrisAssumption /\ Timer!TetrisAssumption
    /\ Tk!TetrisAssumption

NoBrowser ==
    /\ values = <<>> /\ shape = <<>> /\ curr = <<>> /\ over = FALSE
    /\ pieces = 0 /\ jsKeys = 0 /\ mixed = FALSE

Init ==
    /\ Tk!Init
    /\ \/ game = "rows" /\ Rows!Init
       \/ game = "turns" /\ Turns!Init
       \/ game = "timer" /\ Timer!Init
       \/ game = "tk" /\ NoBrowser

Next ==
    /\ UNCHANGED game
    /\ \/ game = "rows" /\ Rows!Next /\ UNCHANGED tkVars
       \/ game = "turns" /\ Turns!Next /\ UNCHANGED tkVars
       \/ game = "timer" /\ Timer!Next /\ UNCHANGED tkVars
       \/ game = "tk" /\ Tk!Next /\ UNCHANGED jsVars

Fairness == WF_jsVars(game = "timer" /\ Timer!Drop) /\ WF_tkVars(game = "tk" /\ Tk!Tick)

Spec == Init /\ [][Next]_<<game, jsVars, tkVars>> /\ Fairness

-----------------------------------------------------------------------------
(* Properties                                                              *)

\* Until the game is over the falling piece is in the frame and on no block,
\* whatever turns, shots, deleted rows and a second chain of ticks have made of
\* either, and what the frame knows of a cell is what is shown there.  Turning
\* makes no other piece of one, though the models that all pieces of a kind share
\* are turned with it, around a centre that is rounded.  And unless somebody
\* resumed within the interval, one chain of ticks drops it.
PieceIntact ==
    /\ game = "rows" => Rows!TypeOK /\ Rows!RoomToFall /\ Rows!ShownWhereHeld
    /\ game = "turns" => Turns!RoomToFall /\ Turns!LooksLikeModel /\ Turns!SamePiece
    /\ Tk!TypeOK /\ Tk!BlockApart /\ Tk!Chains

\* A piece that lands leaves what is left of the rows when the full ones are
\* gone, in their order.
RowsCompacted ==
    [][ /\ game = "rows" => Rows!LandsAsItShould
        /\ Tk!RestsAsItShould ]_<<jsVars, tkVars>>

\* While the game is on the next piece comes: a turn that lifts one and a pause
\* do not keep it up for ever.
NextPiece ==
    /\ game = "timer" => Timer!ComesToRest
    /\ game = "tk" => Tk!NextBlock
=============================================================================
