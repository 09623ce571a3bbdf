----------------------------- MODULE Broadcast ------------------------------
(***************************************************************************)
(* What the talk programs promise (c/network/mtalk, c/network/mtalk2):     *)
(* there is one talk, and everybody is shown a piece of it without a gap,  *)
(* a repetition or an exchange.  Nothing that was said is unsaid.          *)
(***************************************************************************)
EXTENDS Naturals, SequencesExt

CONSTANTS
    Readers

VARIABLES
    log,          (* what has been said, in the order of the server        *)
    shown         (* what each reader has on his screen                    *)

Init ==
    /\ log = <<>>
    /\ shown = [c \in Readers |-> <<>>]

\* The server takes what it will show to everybody.
Say ==
    /\ IsStrictPrefix(log, log')
    /\ UNCHANGED shown

\* A reader is shown more.
Piece(s) == \E i \in 1 .. Len(log) : \E j \in i .. Len(log) : s = SubSeq(log, i, j)

Show(c) ==
    /\ IsStrictPrefix(shown[c], shown'[c])
    /\ Piece(shown'[c])
    /\ \A d \in Readers \ {c} : shown'[d] = shown[d]
    /\ UNCHANGED log

Next == Say \/ \E c \in Readers : Show(c)

Spec == Init /\ [][Next]_<<log, shown>>
=============================================================================
