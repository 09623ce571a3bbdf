------------------------------- MODULE Queue2 -------------------------------
(***************************************************************************)
(* The queue of two lists (Queue2 in ocaml/queue_module.ml): values are    *)
(* taken from the head of the first and put at the head of the second,     *)
(* which is turned round when the first has none left.  An empty first     *)
(* list stands for an empty queue, whatever the second one holds.          *)
(***************************************************************************)
EXTENDS Naturals, SequencesExt

CONSTANTS
    Values,     (* what is queued                                          *)
    MaxLength   (* bound: the values of a queue                            *)

VARIABLES
    front,      (* the first list, `b' in the code                         *)
    back,       (* the second, `a'                                         *)
    got         (* what the last call has returned or raised               *)

queueVars == <<front, back, got>>

QueueInit == front = <<>> /\ back = <<>> /\ got = <<"nothing">>

-----------------------------------------------------------------------------
\* Mistake: into the second list even when the first has none.
AddBehind(v) ==
    /\ Len(front) + Len(back) < MaxLength
    /\ back' = Cons(v, back) /\ front' = front
    /\ got' = <<"queue">>

add(v) ==
    /\ Len(front) + Len(back) < MaxLength
    /\ IF front = <<>> THEN front' = Cons(v, front) /\ back' = back
                       ELSE back' = Cons(v, back) /\ front' = front
    /\ got' = <<"queue">>

\* The two lists after `reconstruct'.
reconstruct(b, a) == IF b = <<>> THEN <<Reverse(a), <<>>>> ELSE <<b, a>>

take ==
    /\ front # <<>>
    /\ LET lists == reconstruct(Tail(front), back)
       IN  front' = lists[1] /\ back' = lists[2]
    /\ got' = <<"value", Head(front)>>

peek == front # <<>> /\ got' = <<"value", Head(front)>> /\ UNCHANGED <<front, back>>

\* take and peek look at the first list only.
raiseEmpty == front = <<>> /\ got' = <<"Empty">> /\ UNCHANGED <<front, back>>

QueueNext == (\E v \in Values : add(v)) \/ take \/ peek \/ raiseEmpty

QueueSpec == QueueInit /\ [][QueueNext]_queueVars

-----------------------------------------------------------------------------
QueueTypeOK ==
    /\ front \in Seq(Values) /\ back \in Seq(Values)
    /\ got \in {<<"nothing">>, <<"queue">>, <<"Empty">>} \cup {<<"value", v>> : v \in Values}

\* Nothing is in the second list when the first is empty.
FrontFilled == front = <<>> => back = <<>>

\* The two lists are one queue, the second from its end: what is taken is what was
\* added first, and Empty is raised only when all has been taken.
List == INSTANCE Queue1 WITH q <- front \o Reverse(back)
ImplementsQueue == List!Spec
=============================================================================
