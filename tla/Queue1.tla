------------------------------- MODULE Queue1 -------------------------------
(***************************************************************************)
(* What a queue promises (ocaml/queue_module.ml, signature QUEUE and the   *)
(* module Queue1, in which it is one list).  A queue is never changed: add *)
(* and take return a new one, and a program that goes on with it holds one *)
(* queue, `q'.                                                             *)
(***************************************************************************)
EXTENDS Naturals, Sequences

CONSTANTS
    Values,     (* what is queued                                          *)
    MaxLength   (* bound: the values of a queue                            *)

VARIABLES
    q,          (* the list                                                *)
    got         (* what the last call has returned or raised               *)

vars == <<q, got>>

Init == q = <<>> /\ got = <<"nothing">>

Add(v) == Len(q) < MaxLength /\ q' = Append(q, v) /\ got' = <<"queue">>
Take == q # <<>> /\ q' = Tail(q) /\ got' = <<"value", Head(q)>>
Peek == q # <<>> /\ got' = <<"value", Head(q)>> /\ UNCHANGED q

\* take and peek of an empty queue.
RaiseEmpty == q = <<>> /\ got' = <<"Empty">> /\ UNCHANGED q

Next == (\E v \in Values : Add(v)) \/ Take \/ Peek \/ RaiseEmpty

Spec == Init /\ [][Next]_vars
=============================================================================
