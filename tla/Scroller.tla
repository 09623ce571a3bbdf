------------------------------ MODULE Scroller ------------------------------
(***************************************************************************)
(* The scroller of a page (javascript/scroller.js): of a list, `num' items *)
(* are on the page and the others in `rest'.  A button hides the item at   *)
(* one end, removes it, and shows one of the rest at the other.  It does   *)
(* not answer to a click while it is at that, but the other button does,   *)
(* and `rest' is read when an item is to be shown and stored when it is.   *)
(*                                                                         *)
(* The animations of an item follow each other (jQuery 1.2).  Each takes   *)
(* 400 or 600 ms and a turn of two at least 1000 ms, so that no turn begins*)
(* and ends during an animation; but for this they end in any order.       *)
(***************************************************************************)
EXTENDS Naturals, SequencesExt

CONSTANTS
    Items,      (* the items, a sequence                                   *)
    num         (* how many are on the page                                *)

ScrollerAssumption == num \in Nat \ {0} /\ Len(Items) > num

VARIABLES
    page,       (* what is on the page                                     *)
    rest,       (* the other items                                         *)
    fx,         (* per item: its animations, the first one is running      *)
    taken,      (* per button: `s', the item it has removed                *)
    older,      (* per button: the items whose animation was running when  *)
                (* it was clicked, and still is                            *)
    bound,      (* the buttons that answer to a click                      *)
    overlap     (* not in the code: have two turns overlapped ("turns"),   *)
                (* have both been showing an item at a time ("shows")?     *)

vars == <<page, rest, fx, taken, older, bound, overlap>>

Buttons == {"right", "left"}
Other(d) == CHOOSE b \in Buttons : b # d

Init ==
    /\ page = SubSeq(Items, 1, num) /\ rest = SubSeq(Items, num + 1, Len(Items))
    /\ fx = [i \in ToSet(Items) |-> <<>>]
    /\ taken = [d \in Buttons |-> <<>>] /\ older = [d \in Buttons |-> {}]
    /\ bound = Buttons /\ overlap = "none"

-----------------------------------------------------------------------------
\* Mistake: the button goes on answering.
Unbound(d) == UNCHANGED bound

\* `one' takes the handler away.
One(d) == bound' = bound \ {d}

\* The items that a button hides.
Chosen(d) ==
    IF d = "right" THEN {page[i] : i \in num .. Len(page)}
                   ELSE {page[i] : i \in 1 .. Len(page) \cap {1}}

Click(d) ==
    /\ d \in bound
    /\ One(d)
    /\ fx' = [i \in DOMAIN fx |->
                 IF i \in Chosen(d) THEN Append(fx[i], <<"hide", d>>) ELSE fx[i]]
    /\ older' = [older EXCEPT ![d] = {i \in DOMAIN fx : fx[i] # <<>>}]
    /\ overlap' = IF overlap = "none" /\ Other(d) \notin bound THEN "turns" ELSE overlap
    /\ UNCHANGED <<page, rest, taken>>

\* The animation of an item has ended.
Ended(i) == older' = [d \in Buttons |-> older[d] \ {i}]

\* An item is hidden: it is removed, and one of the rest is put on the page.
Hidden(i) ==
    /\ fx[i] # <<>> /\ Head(fx[i])[1] = "hide"
    /\ LET d == Head(fx[i])[2]
           next == IF d = "right" THEN Last(rest) ELSE Head(rest)
           left == Remove(Remove(page, i), next)
       IN  /\ page' = IF d = "right" THEN Cons(next, left) ELSE Append(left, next)
           /\ taken' = [taken EXCEPT ![d] = <<i>>]
           /\ fx' = [fx EXCEPT ![i] = Tail(@), ![next] = Append(@, <<"show", d>>)]
           /\ overlap' = IF taken[Other(d)] # <<>> THEN "shows" ELSE overlap
    /\ Ended(i)
    /\ UNCHANGED <<rest, bound>>

\* The new item is shown: the one that was removed takes its place in the rest.
Shown(i) ==
    /\ fx[i] # <<>> /\ Head(fx[i])[1] = "show"
    /\ LET d == Head(fx[i])[2]
       IN  /\ older[d] = {}
           /\ rest' = IF d = "right" THEN SubSeq(taken[d] \o rest, 1, Len(rest))
                                     ELSE Tail(rest \o taken[d])
           /\ taken' = [taken EXCEPT ![d] = <<>>]
           /\ bound' = bound \cup {d}
    /\ fx' = [fx EXCEPT ![i] = Tail(@)]
    /\ Ended(i)
    /\ UNCHANGED <<page, overlap>>

\* Bound: after two shows at a time an item is lost, and what becomes of the list
\* by further turns is not followed.
Followed(d) == overlap # "shows" /\ Click(d)

Leave == overlap = "shows" /\ (\A i \in DOMAIN fx : fx[i] = <<>>) /\ UNCHANGED vars

Next ==
    \/ \E d \in Buttons : Followed(d)
    \/ \E i \in DOMAIN fx : Hidden(i) \/ Shown(i)
    \/ Leave

Fairness == \A i \in ToSet(Items) : WF_vars(Hidden(i) \/ Shown(i))

Spec == Init /\ [][Next]_vars /\ Fairness

-----------------------------------------------------------------------------
TypeOK ==
    /\ ToSet(page) \cup ToSet(rest) \subseteq ToSet(Items)
    /\ Len(rest) = Len(Items) - num
    /\ \A d \in Buttons : Len(taken[d]) <= 1
    /\ bound \subseteq Buttons /\ overlap \in {"none", "turns", "shows"}

\* The items, from the first on the page round to it.  Those being shown are in
\* the rest, too.
Ring ==
    page \o taken["right"] \o SelectSeq(rest, LAMBDA i : ~Contains(page, i)) \o taken["left"]

\* No item is lost or doubled, in whatever order clicks and animations come, unless
\* both buttons have been showing an item at the same time; and as long as their
\* turns do not overlap, the items only go round.
ItemsKept ==
    /\ overlap # "shows" =>
          IsInjective(Ring) /\ ToSet(Ring) = ToSet(Items)
    /\ overlap = "none" =>
          \E n \in DOMAIN Items : Ring = SubSeq(Items, n, Len(Items)) \o SubSeq(Items, 1, n - 1)

\* A button that was clicked answers again.
Answers ==
    \A d \in Buttons : d \notin bound ~> (d \in bound \/ overlap = "shows")
=============================================================================
