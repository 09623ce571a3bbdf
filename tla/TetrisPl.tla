------------------------------ MODULE TetrisPl ------------------------------
(***************************************************************************)
(* Tetris in Perl/Tk (perl/practical_perl/tetris.plx).  A tick that has    *)
(* done its work asks for the next one; one that finds the game paused     *)
(* does not.  A pause that is over before the tick comes leaves two chains *)
(* of ticks, for good.  The game ends when a new block finds a tile in its *)
(* place, and only the chain that found it ends then.                      *)
(*                                                                         *)
(* The screen is left out: a tile is a cell of the heap that is set.       *)
(***************************************************************************)
EXTENDS Integers, FiniteSets, FiniteSetsExt, Functions, SequencesExt

CONSTANTS
    MAX_COLS, MAX_ROWS,
    Patterns,     (* the patterns drawn, of 1 .. 7                         *)
    MaxBlocks,    (* bound: blocks created                                 *)
    MaxKeys,      (* bound: keys pressed for one of them                   *)
    MaxTicks      (* bound: chains of ticks                                *)

TetrisAssumption ==
    /\ MAX_COLS \in Nat /\ MAX_COLS > 3 /\ MAX_ROWS \in Nat /\ MAX_ROWS > 1
    /\ Patterns \subseteq 1 .. 7 /\ Patterns # {}
    /\ MaxBlocks \in Nat /\ MaxKeys \in Nat /\ MaxTicks \in Nat \ {0}

VARIABLES
    state,
    heap,         (* which cells have a tile                               *)
    block_cells,
    tile_ids,     (* how many: the first cells of the block have theirs    *)
    ticks,        (* ticks asked for with after, not yet come              *)
    hasty,        (* pauses that were over before the next tick            *)
    blocks, keys

vars == <<state, heap, block_cells, tile_ids, ticks, hasty, blocks, keys>>

last_cell == MAX_COLS * MAX_ROWS
first_cell_last_row == (MAX_ROWS - 1) * MAX_COLS
center == MAX_COLS \div 2
shoot_row == MAX_ROWS \div 2

\* The turn of a block may put a cell into the row below the last one, and to
\* the right of the last column.
Cells == 0 .. last_cell + 2 * MAX_COLS - 1

NoTiles == [c \in Cells |-> FALSE]
Tile(h, c) == IF c \in Cells THEN h[c] ELSE FALSE

patterns == <<
    <<center - 2, center - 1, center, center + 1>>,
    <<center - 1, center, center + 1, center + MAX_COLS>>,
    <<center - 1, center, center + 1, center + MAX_COLS + 1>>,
    <<center - 1, center, center + 1, center + MAX_COLS - 1>>,
    <<center - 1, center, center + MAX_COLS, center + MAX_COLS + 1>>,
    <<center, center + 1, center + MAX_COLS - 1, center + MAX_COLS>>,
    <<center - 1, center, center - 1 + MAX_COLS, center + MAX_COLS>> >>

Init ==
    /\ state = "paused" /\ heap = NoTiles
    /\ block_cells = <<>> /\ tile_ids = 0
    /\ ticks = 0 /\ hasty = 0 /\ blocks = 0 /\ keys = 0

-----------------------------------------------------------------------------
(* The heap                                                                *)

\* splice and unshift: a row goes, and an empty one comes on top.
WithoutRow(h, r) ==
    [c \in Cells |-> IF c < MAX_COLS THEN FALSE
                     ELSE IF c < (r + 1) * MAX_COLS THEN h[c - MAX_COLS] ELSE h[c]]

Row(r) == r * MAX_COLS .. (r + 1) * MAX_COLS - 1
Filled(h, r) == \A c \in Row(r) : h[c]

Cleared(h) ==
    LET f[r \in 0 .. MAX_ROWS] ==
            IF r = 0 THEN h
            ELSE LET g == f[r - 1] IN IF Filled(g, r - 1) THEN WithoutRow(g, r - 1) ELSE g
    IN f[MAX_ROWS]

\* merge_block_and_heap: cells for which there is no tile are emptied.
Merged(cells) ==
    [c \in Cells |-> IF c \in Range(cells)
                     THEN \E i \in 1 .. tile_ids : i <= Len(cells) /\ cells[i] = c
                     ELSE heap[c]]

Merge(cells) ==
    /\ heap' \in {Cleared(Merged(cells))}
    /\ block_cells' = <<>> /\ tile_ids' = 0

Moved(cells, d) == [i \in DOMAIN cells |-> cells[i] + d]

Rests(cells) ==
    \E c \in Range(cells) : IF c < first_cell_last_row THEN heap[c + MAX_COLS] ELSE TRUE

move_down ==
    IF Rests(block_cells)
    THEN Merge(block_cells)
    ELSE /\ block_cells' = Moved(block_cells, MAX_COLS)
         /\ UNCHANGED <<heap, tile_ids>>

-----------------------------------------------------------------------------
(* The chains of ticks                                                     *)

\* create_random_block, called in state s with n ticks under way.  It has made
\* the tiles before the first that is taken; then the game is over, and the
\* tick does not ask for another.  A block that finds room does not change s.
Create(s, n) ==
    \E k \in Patterns :
        LET cells == patterns[k]
            Taken == {i \in DOMAIN cells : heap'[cells[i]]}
        IN /\ blocks < MaxBlocks /\ blocks' = blocks + 1 /\ keys' = 0
           /\ block_cells' = cells
           /\ IF Taken = {}
              THEN tile_ids' = 4 /\ state' = s /\ ticks' = n + 1
              ELSE tile_ids' = Min(Taken) - 1 /\ state' = "gameover" /\ ticks' = n

\* Mistake: a tick that has made a block does not ask for the next.
tickForgets(s, n) ==
    IF block_cells = <<>>
    THEN UNCHANGED heap /\ Create(s, n - 1)
    ELSE /\ move_down
         /\ state' = s /\ ticks' = n + 1
         /\ UNCHANGED <<blocks, keys>>

\* tick, when the game is not paused.
tick(s, n) ==
    IF block_cells = <<>>
    THEN UNCHANGED heap /\ Create(s, n)
    ELSE /\ move_down
         /\ state' = s /\ ticks' = n + 1
         /\ UNCHANGED <<blocks, keys>>

\* A tick comes.
Tick ==
    /\ ticks > 0
    /\ IF state = "paused"
       THEN /\ ticks' = ticks - 1
            /\ UNCHANGED <<state, heap, block_cells, tile_ids, blocks, keys>>
       ELSE tick(state, ticks - 1)
    /\ UNCHANGED hasty

\* start_pause: the tick that the pause has not stopped yet goes on beside the
\* one that starts now.
Resume ==
    /\ state = "paused" /\ ticks < MaxTicks
    /\ tick("active", ticks)
    /\ hasty' = IF ticks > 0 THEN hasty + 1 ELSE hasty

\* A new game, on an empty heap.
Retry ==
    /\ state = "gameover" /\ ticks < MaxTicks
    /\ heap' = NoTiles
    /\ Create("active", ticks)
    /\ UNCHANGED hasty

Pause ==
    /\ state = "active" /\ keys < MaxKeys
    /\ state' = "paused" /\ keys' = keys + 1
    /\ UNCHANGED <<heap, block_cells, tile_ids, ticks, hasty, blocks>>

-----------------------------------------------------------------------------
(* The keys, which work in every state                                     *)

Press ==
    /\ keys < MaxKeys /\ keys' = keys + 1
    /\ UNCHANGED <<state, ticks, hasty, blocks>>

\* fall, to where it rests.
fall ==
    /\ block_cells # <<>>
    /\ \E d \in 0 .. MAX_ROWS :
          /\ Rests(Moved(block_cells, d * MAX_COLS))
          /\ \A e \in 0 .. d - 1 : ~Rests(Moved(block_cells, e * MAX_COLS))
          /\ Merge(Moved(block_cells, d * MAX_COLS))

move_left ==
    /\ \A c \in Range(block_cells) : c % MAX_COLS # 0 /\ ~Tile(heap, c - 1)
    /\ block_cells' = Moved(block_cells, -1)
    /\ UNCHANGED <<heap, tile_ids>>

move_right ==
    /\ \A c \in Range(block_cells) : c % MAX_COLS # MAX_COLS - 1 /\ ~Tile(heap, c + 1)
    /\ block_cells' = Moved(block_cells, 1)
    /\ UNCHANGED <<heap, tile_ids>>

\* int(total / cells + 0.5)
Pivot(s) == (2 * FoldSeq(+, 0, s) + Len(s)) \div (2 * Len(s))

\* Mistake: the tiles in the way are not looked at.
RotateThrough ==
    /\ block_cells # <<>>
    /\ LET rows == [i \in DOMAIN block_cells |-> block_cells[i] \div MAX_COLS]
           cols == [i \in DOMAIN block_cells |-> block_cells[i] % MAX_COLS]
           new_rows == [i \in DOMAIN rows |-> Pivot(rows) - (cols[i] - Pivot(cols))]
           new_cols == [i \in DOMAIN rows |-> Pivot(cols) + (rows[i] - Pivot(rows))]
       IN /\ Range(new_rows) \subseteq 0 .. MAX_ROWS
          /\ Range(new_cols) \subseteq 0 .. MAX_COLS
          /\ block_cells' = [i \in DOMAIN rows |-> new_rows[i] * MAX_COLS + new_cols[i]]
    /\ UNCHANGED <<heap, tile_ids>>

\* rotate, which lets a cell get one row too low and one column too far.
rotate ==
    /\ block_cells # <<>>
    /\ LET rows == [i \in DOMAIN block_cells |-> block_cells[i] \div MAX_COLS]
           cols == [i \in DOMAIN block_cells |-> block_cells[i] % MAX_COLS]
           new_rows == [i \in DOMAIN rows |-> Pivot(rows) - (cols[i] - Pivot(cols))]
           new_cols == [i \in DOMAIN rows |-> Pivot(cols) + (rows[i] - Pivot(rows))]
           new_cells == [i \in DOMAIN rows |-> new_rows[i] * MAX_COLS + new_cols[i]]
       IN /\ Range(new_rows) \subseteq 0 .. MAX_ROWS
          /\ Range(new_cols) \subseteq 0 .. MAX_COLS
          /\ \A c \in Range(new_cells) : ~Tile(heap, c)
          /\ block_cells' = new_cells
    /\ UNCHANGED <<heap, tile_ids>>

\* shoot: the rightmost cell in the row goes, with its tile.
shoot ==
    \E i \in DOMAIN block_cells :
        /\ block_cells[i] \in Row(shoot_row)
        /\ \A c \in Range(block_cells) \cap Row(shoot_row) : c <= block_cells[i]
        /\ block_cells' = RemoveAt(block_cells, i)
        /\ tile_ids' = IF i <= tile_ids THEN tile_ids - 1 ELSE tile_ids
        /\ UNCHANGED heap

Key == Press /\ (fall \/ move_left \/ move_right \/ rotate \/ shoot)

Next == Tick \/ Resume \/ Retry \/ Pause \/ Key

Safety == Init /\ [][Next]_vars

\* What was asked for with after comes.
Fairness == WF_vars(Tick)

Spec == Safety /\ Fairness

-----------------------------------------------------------------------------
\* Every variable has its type: no turn puts a cell further than a row and a
\* column outside.
TypeOK ==
    /\ state \in {"active", "paused", "gameover"}
    /\ heap \in [Cells -> BOOLEAN]
    /\ block_cells \in Seq(Cells) /\ tile_ids \in 0 .. 4
    /\ ticks \in 0 .. MaxTicks /\ hasty \in Nat /\ blocks \in Nat /\ keys \in Nat

\* Unless somebody resumed within the interval there is one chain of ticks, and
\* none when the game is over; each such pause adds one at most.  A game that
\* is on is never without.
Chains ==
    /\ ticks <= hasty + (IF state = "gameover" THEN 0 ELSE 1)
    /\ state = "active" => ticks > 0

\* Until the game is over, a block has a tile for each of its cells, none of
\* them twice and none where the heap has one: whatever turned, shot or pushed
\* it, and however many chains drop it.
BlockApart ==
    state # "gameover" =>
        /\ Len(block_cells) = tile_ids
        /\ Cardinality(Range(block_cells)) = Len(block_cells)
        /\ \A c \in Range(block_cells) : ~heap[c]

\* Before the game is over the tiles of the heap are changed by a block that
\* comes to rest and by nothing else: those of the rows that are not full then
\* stay in their order, and what turned out of the last row stays there.
Compacted(h) ==
    LET left == {r \in 0 .. MAX_ROWS - 1 : ~Filled(h, r)}
        gone == MAX_ROWS - Cardinality(left)
        From(r) == CHOOSE z \in left : Cardinality({w \in left : w > z}) = MAX_ROWS - 1 - r
    IN [c \in Cells |-> IF c >= last_cell THEN h[c]
                        ELSE IF c < gone * MAX_COLS THEN FALSE
                        ELSE h[From(c \div MAX_COLS) * MAX_COLS + (c % MAX_COLS)]]

RestsAsItShould ==
    heap' # heap /\ state # "gameover" =>
        \E d \in 0 .. MAX_ROWS :
            heap' = Compacted([c \in Cells |-> heap[c]
                        \/ c \in Range(Moved(block_cells, d * MAX_COLS))])

\* While the game is on, the next block comes.
NextBlock == []<>(state # "active" \/ blocks = MaxBlocks)
=============================================================================
