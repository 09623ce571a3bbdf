------------------------------- MODULE Ilogic -------------------------------
(***************************************************************************)
(* ilogic (ocaml/ilogic): a picture is drawn by pressing the cells of a    *)
(* board, and a button tells whether the runs of pressed cells are those   *)
(* that stand beside the rows and above the columns.  A cell keeps its     *)
(* state, and the window a colour for it that follows the pointer, too.    *)
(***************************************************************************)
EXTENDS Naturals, SequencesExt, FiniteSetsExt

CONSTANT
    Puzzles     (* [h_spec, v_spec]: sequences of sequences of numbers     *)

VARIABLES
    spec,       (* the puzzle                                              *)
    body,       (* the rows of the board                                   *)
    colour,     (* of the cells on the window                              *)
    pointer,    (* the cell that it is in, or <<>>                         *)
    corner      (* the text of the corner: "title", "right" or "wrong"     *)

boardVars == <<spec, body, colour, pointer, corner>>

Rows == DOMAIN spec.h_spec
Columns == DOMAIN spec.v_spec
Cells == Rows \X Columns

color_of_state(s) == IF s = "Pressed" THEN "Blue" ELSE "White"

\* board_of_spec, and the labels that make_board puts on the window.
Window ==
    /\ body = [r \in Rows |-> [c \in Columns |-> "NotPressed"]]
    /\ colour = [cell \in Cells |-> color_of_state("NotPressed")]
    /\ pointer = <<>> /\ corner = "title"

Init == spec \in Puzzles /\ Window

-----------------------------------------------------------------------------
(* Board                                                                   *)

Failure == <<"Failure">>

removeNP(cells) ==
    LET pressed == {i \in DOMAIN cells : cells[i] = "Pressed"}
    IN  IF pressed = {} THEN <<>> ELSE SubSeq(cells, Min(pressed), Len(cells))

\* Mistake: a run may be longer than its number.
removePLonger(n, cells) ==
    IF Len(cells) >= n /\ \A i \in 1 .. n : cells[i] = "Pressed"
    THEN SubSeq(cells, n + 1, Len(cells)) ELSE Failure

\* n pressed cells, and no more.
removeP(n, cells) ==
    IF /\ Len(cells) >= n /\ \A i \in 1 .. n : cells[i] = "Pressed"
       /\ Len(cells) > n => cells[n + 1] # "Pressed"
    THEN SubSeq(cells, n + 1, Len(cells)) ELSE Failure

check_row(numbers, cells) ==
    LET next(rest, n) == IF rest = Failure THEN Failure ELSE removeP(n, removeNP(rest))
        rest == FoldLeft(next, cells, numbers)
    IN  rest # Failure /\ removeNP(rest) = <<>>

trans_board == [c \in Columns |-> [r \in Rows |-> body[r][c]]]

is_solved ==
    /\ \A r \in Rows : check_row(spec.h_spec[r], body[r])
    /\ \A c \in Columns : check_row(spec.v_spec[c], trans_board[c])

-----------------------------------------------------------------------------
(* Gui                                                                     *)

State(cell) == body[cell[1]][cell[2]]

focus(cell) ==
    /\ pointer = <<>>
    /\ pointer' = cell /\ colour' = [colour EXCEPT ![cell] = "selcol"]
    /\ UNCHANGED <<spec, body, corner>>

unfocus ==
    /\ pointer # <<>>
    /\ pointer' = <<>>
    /\ colour' = [colour EXCEPT ![pointer] = color_of_state(State(pointer))]
    /\ UNCHANGED <<spec, body, corner>>

toggle(s) == IF s = "Pressed" THEN "NotPressed" ELSE "Pressed"

pressed ==
    /\ pointer # <<>>
    /\ body' = [body EXCEPT ![pointer[1]][pointer[2]] = toggle(@)]
    /\ colour' = [colour EXCEPT ![pointer] = color_of_state(toggle(State(pointer)))]
    /\ UNCHANGED <<spec, pointer, corner>>

\* The buttons and the corner are outside of the cells.
clear_all ==
    /\ pointer = <<>>
    /\ body' = [r \in Rows |-> [c \in Columns |-> "NotPressed"]]
    /\ colour' = [cell \in Cells |-> color_of_state("NotPressed")]
    /\ UNCHANGED <<spec, pointer, corner>>

check ==
    /\ pointer = <<>>
    /\ corner' = IF is_solved THEN "right" ELSE "wrong"
    /\ UNCHANGED <<spec, body, colour, pointer>>

reset_corner ==
    /\ pointer = <<>>
    /\ corner' = "title"
    /\ UNCHANGED <<spec, body, colour, pointer>>

Next ==
    \/ \E cell \in Cells : focus(cell)
    \/ unfocus \/ pressed \/ clear_all \/ check \/ reset_corner

Spec == Init /\ [][Next]_boardVars

-----------------------------------------------------------------------------
\* The lengths of the runs of pressed cells, from the first to the last.
Runs(cells) ==
    LET starts == {i \in DOMAIN cells : cells[i] = "Pressed" /\
                                        (i > 1 => cells[i - 1] # "Pressed")}
        end(i) == Max({j \in i .. Len(cells) : \A k \in i .. j : cells[k] = "Pressed"})
    IN  [n \in 1 .. Cardinality(starts) |->
            LET i == SetToSortSeq(starts, <)[n] IN end(i) - i + 1]

\* What a puzzle asks for; a row without a run may be written as one of length 0.
Fits(numbers, cells) == Runs(cells) = IF numbers = <<0>> THEN <<>> ELSE numbers
Drawn ==
    /\ \A r \in Rows : Fits(spec.h_spec[r], body[r])
    /\ \A c \in Columns : Fits(spec.v_spec[c], [r \in Rows |-> body[r][c]])

TypeOK ==
    /\ pointer \in Cells \cup {<<>>}
    /\ body \in [Rows -> [Columns -> {"Pressed", "NotPressed"}]]
    /\ colour \in [Cells -> {"White", "Blue", "selcol"}]
    /\ corner \in {"title", "right", "wrong"}

\* The answer is "right" of the picture that is asked for and of no other: checked
\* by taking run after run, it is what the runs of the whole board say.
Judged == [][check => (corner' = "right" <=> Drawn)]_boardVars

\* A cell that the pointer is not in has the colour of its state.
ColourOfState == \A cell \in Cells \ {pointer} : colour[cell] = color_of_state(State(cell))
=============================================================================
