---------------------------- MODULE FiltersProofs ----------------------------
(***************************************************************************)
(* Proofs about the programs in which no two things are done at a time,    *)
(* for any values of the constants.                                        *)
(*   The queue of two lists is a queue: what the first list means alone    *)
(* ("empty means empty") is the invariant; that the list of Queue1 is the  *)
(* first list and the second one turned round, is the refinement.          *)
(*   httpget writes a piece of the body, and all of a page that comes at   *)
(* once: the invariant says where in the page that is what is received.    *)
(*   A cell of ilogic has the colour of its state.                         *)
(*   No two objects have a place or an id in common: the invariant is that *)
(* the links of the free places are a chain that ends where new places     *)
(* begin.                                                                  *)
(***************************************************************************)
EXTENDS Filters, SequenceTheorems, TLAPS

-----------------------------------------------------------------------------
(* The queue                                                               *)


IInv == QueueTypeOK /\ FrontFilled

\* A turned list has the elements of the list, each at the other end.
LEMMA ReverseSeq ==
    ASSUME NEW S, NEW s \in Seq(S)
    PROVE  /\ Reverse(s) \in Seq(S) /\ Len(Reverse(s)) = Len(s)
           /\ \A i \in 1 .. Len(s) : Reverse(s)[i] = s[Len(s) - i + 1]
<1>1. Len(s) \in Nat /\ \A i \in 1 .. Len(s) : s[i] \in S
    BY ElementOfSeq, LenProperties
<1>2. \A i \in 1 .. Len(s) : Len(s) - i + 1 \in 1 .. Len(s)
    BY <1>1
<1>3. Reverse(s) \in [1 .. Len(s) -> S]
    BY <1>1, <1>2 DEF Reverse
<1>4. Reverse(s) \in Seq(S) /\ Len(Reverse(s)) = Len(s)
    BY <1>1, <1>3
<1> QED BY <1>4, <1>1 DEF Reverse

\* Turned round, a list to which a value is put in front ends with the value.
LEMMA ReverseCons ==
    ASSUME NEW S, NEW s \in Seq(S), NEW v \in S
    PROVE  Cons(v, s) \in Seq(S) /\ Reverse(Cons(v, s)) = Append(Reverse(s), v)
<1> DEFINE c == <<v>> \o s
<1>1. <<v>> \in Seq(S) /\ Len(<<v>>) = 1 /\ <<v>>[1] = v /\ Len(s) \in Nat
    BY LenProperties
<1>2. /\ c \in Seq(S) /\ Len(c) = Len(s) + 1
      /\ \A i \in 1 .. Len(s) + 1 : c[i] = IF i = 1 THEN v ELSE s[i - 1]
    <2>1. /\ c \in Seq(S) /\ Len(c) = Len(<<v>>) + Len(s)
          /\ \A i \in 1 .. Len(<<v>>) + Len(s) : c[i] =
                IF i <= Len(<<v>>) THEN <<v>>[i] ELSE s[i - Len(<<v>>)]
        BY <1>1, ConcatProperties
    <2> QED BY <1>1, <2>1
<1>3. /\ Reverse(c) \in Seq(S) /\ Len(Reverse(c)) = Len(s) + 1
      /\ \A i \in 1 .. Len(s) + 1 : Reverse(c)[i] = c[Len(s) - i + 2]
    <2>1. /\ Reverse(c) \in Seq(S) /\ Len(Reverse(c)) = Len(c)
          /\ \A i \in 1 .. Len(c) : Reverse(c)[i] = c[Len(c) - i + 1]
        BY <1>2, ReverseSeq
    <2>2. \A i \in 1 .. Len(s) + 1 : Len(s) + 1 - i + 1 = Len(s) - i + 2
        BY <1>1
    <2> HIDE DEF c
    <2> QED BY <1>2, <2>1, <2>2
<1> DEFINE r == Reverse(s)
<1>4. /\ r \in Seq(S) /\ Len(r) = Len(s)
      /\ \A i \in 1 .. Len(s) : r[i] = s[Len(s) - i + 1]
    BY ReverseSeq
<1>5. /\ Append(r, v) \in Seq(S) /\ Len(Append(r, v)) = Len(s) + 1
      /\ \A i \in 1 .. Len(s) : Append(r, v)[i] = r[i]
      /\ Append(r, v)[Len(s) + 1] = v
    <2> HIDE DEF r
    <2> QED BY <1>4, <1>1
<1>6. \A i \in 1 .. Len(s) + 1 : Reverse(c)[i] = Append(r, v)[i]
    <2> TAKE i \in 1 .. Len(s) + 1
    <2> HIDE DEF c, r
    <2>1. CASE i = Len(s) + 1
        <3>1. Len(s) - i + 2 = 1 /\ 1 \in 1 .. Len(s) + 1
            BY <2>1, <1>1
        <3>2. Reverse(c)[i] = v
            BY <3>1, <1>2, <1>3
        <3> QED BY <3>2, <2>1, <1>5
    <2>2. CASE i \in 1 .. Len(s)
        <3>1. Len(s) - i + 2 \in 1 .. Len(s) + 1 /\ Len(s) - i + 2 # 1
              /\ (Len(s) - i + 2) - 1 = Len(s) - i + 1
            BY <2>2, <1>1
        <3>2. Reverse(c)[i] = s[Len(s) - i + 1]
            BY <3>1, <2>2, <1>2, <1>3
        <3> QED BY <3>2, <2>2, <1>4, <1>5
    <2>3. i = Len(s) + 1 \/ i \in 1 .. Len(s)
        BY <1>1
    <2> QED BY <2>1, <2>2, <2>3
<1>7. Reverse(c) = Append(r, v)
    <2> HIDE DEF c, r
    <2> QED BY <1>3, <1>5, <1>6, SeqEqual
<1> QED BY <1>2, <1>7 DEF Cons

LEMMA InitInv == QueueInit => IInv
BY DEF QueueInit, IInv, QueueTypeOK, FrontFilled

\* A step on the lists keeps their type, and never empties the first alone.
LEMMA NextInv == IInv /\ [QueueNext]_queueVars => IInv'
<1> SUFFICES ASSUME IInv, [QueueNext]_queueVars PROVE IInv'
    OBVIOUS
<1>0. QueueTypeOK /\ FrontFilled
    BY DEF IInv
<1>1. ASSUME NEW v \in Values, add(v) PROVE IInv'
    <2>1. Cons(v, front) \in Seq(Values) /\ Cons(v, back) \in Seq(Values)
        BY <1>0, ReverseCons DEF QueueTypeOK
    <2>2. QueueTypeOK'
        BY <1>0, <1>1, <2>1 DEF add, QueueTypeOK
    <2>3. CASE front = <<>>
        <3>1. back' = <<>>
            BY <1>0, <1>1, <2>3 DEF add, FrontFilled
        <3> QED BY <2>2, <3>1 DEF IInv, FrontFilled
    <2>4. CASE front # <<>>
        <3>1. front' # <<>>
            BY <1>1, <2>4 DEF add
        <3> QED BY <2>2, <3>1 DEF IInv, FrontFilled
    <2> QED BY <2>3, <2>4
<1>2. CASE take
    <2>1. Tail(front) \in Seq(Values) /\ Head(front) \in Values
        BY <1>0, <1>2, HeadTailProperties DEF take, QueueTypeOK
    <2>2. Reverse(back) \in Seq(Values)
        BY <1>0, ReverseSeq DEF QueueTypeOK
    <2>3. CASE Tail(front) = <<>>
        <3>1. front' = Reverse(back) /\ back' = <<>>
            BY <1>2, <2>3 DEF take, reconstruct
        <3>2. got' = <<"value", Head(front)>>
            BY <1>2 DEF take
        <3>3. front' \in Seq(Values) /\ back' \in Seq(Values) /\ FrontFilled'
            BY <2>2, <3>1 DEF FrontFilled
        <3> QED BY <2>1, <3>2, <3>3 DEF IInv, QueueTypeOK
    <2>4. CASE Tail(front) # <<>>
        <3>1. front' = Tail(front) /\ back' = back
            BY <1>2, <2>4 DEF take, reconstruct
        <3> QED BY <1>0, <1>2, <2>1, <2>4, <3>1 DEF take, IInv, QueueTypeOK, FrontFilled
    <2> QED BY <2>3, <2>4
<1>3. CASE peek \/ raiseEmpty
    <2>1. front # <<>> => Head(front) \in Values
        BY <1>0, HeadTailProperties DEF QueueTypeOK
    <2> QED BY <1>0, <1>3, <2>1 DEF peek, raiseEmpty, IInv, QueueTypeOK, FrontFilled
<1>4. CASE UNCHANGED queueVars
    BY <1>0, <1>4 DEF queueVars, IInv, QueueTypeOK, FrontFilled
<1> QED BY <1>1, <1>2, <1>3, <1>4 DEF QueueNext

\* Both lists hold values that were added, and when the first is empty the second
\* is: "Empty" is raised of an empty queue only.
THEOREM Filled == QueueSpec => [](QueueTypeOK /\ FrontFilled)
<1>1. IInv => QueueTypeOK /\ FrontFilled
    BY DEF IInv
<1> QED BY InitInv, NextInv, <1>1, PTL DEF QueueSpec

-----------------------------------------------------------------------------
(* The refinement                                                          *)

LEMMA Sizes ==
    ASSUME IInv
    PROVE  /\ Reverse(back) \in Seq(Values)
           /\ front \o Reverse(back) \in Seq(Values)
           /\ Len(front \o Reverse(back)) = Len(front) + Len(back)
           /\ Len(front) \in Nat /\ Len(back) \in Nat
<1>1. front \in Seq(Values) /\ back \in Seq(Values)
    BY DEF IInv, QueueTypeOK
<1>2. Reverse(back) \in Seq(Values) /\ Len(Reverse(back)) = Len(back)
    BY <1>1, ReverseSeq
<1>3. /\ front \o Reverse(back) \in Seq(Values)
      /\ Len(front \o Reverse(back)) = Len(front) + Len(Reverse(back))
    BY <1>1, <1>2, ConcatProperties
<1> QED BY <1>1, <1>2, <1>3, LenProperties

LEMMA EmptyReverse == Reverse(<<>>) = <<>>
<1>1. <<>> \in Seq({}) /\ Len(<<>>) = 0
    BY EmptySeq
<1>2. Reverse(<<>>) \in Seq({}) /\ Len(Reverse(<<>>)) = 0
    BY <1>1, ReverseSeq
<1> QED BY <1>2, EmptySeq

\* What is put at the head of either list is put at the end of the queue.
LEMMA AddStep ==
    ASSUME IInv, NEW v \in Values, add(v)
    PROVE  List!Add(v)
<1>0. front \in Seq(Values) /\ back \in Seq(Values) /\ FrontFilled
    BY DEF IInv, QueueTypeOK
<1> DEFINE r == Reverse(back)
<1>1. r \in Seq(Values) /\ Len(front \o r) < MaxLength
    BY Sizes DEF add
<1>2. CASE front = <<>>
    <2>1. back = <<>> /\ back' = <<>> /\ front' = <<v>>
        BY <1>0, <1>2 DEF add, FrontFilled, Cons
    <2>2. r = <<>> /\ Reverse(back)' = <<>> /\ Append(<<>>, v) = <<v>>
        BY <2>1, EmptyReverse
    <2>3. <<>> \o <<>> = <<>> /\ <<v>> \o <<>> = <<v>>
        BY EmptySeq, ConcatEmptySeq
    <2> HIDE DEF r
    <2>4. front \o r = <<>> /\ front' \o Reverse(back)' = Append(front \o r, v)
        BY <1>2, <2>1, <2>2, <2>3
    <2> USE DEF r
    <2> QED BY <1>1, <2>4 DEF add, List!Add
<1>3. CASE front # <<>>
    <2>1. front' = front /\ back' = Cons(v, back)
        BY <1>3 DEF add
    <2>2. Reverse(back)' = Append(r, v)
        BY <1>0, <2>1, ReverseCons
    <2>3. front \o Append(r, v) = Append(front \o r, v)
        <3> HIDE DEF r
        <3> QED BY <1>0, <1>1
    <2> QED BY <1>1, <2>1, <2>2, <2>3 DEF add, List!Add
<1> QED BY <1>2, <1>3

\* The head of the first list is that of the queue, and turning the second round
\* leaves the queue as it is.
LEMMA TakeStep ==
    ASSUME IInv, take
    PROVE  List!Take
<1>0. front \in Seq(Values) /\ back \in Seq(Values) /\ front # <<>>
    BY DEF IInv, QueueTypeOK, take
<1> DEFINE r == Reverse(back)
<1>1. r \in Seq(Values)
    BY Sizes
<1>2. /\ front \o r # <<>> /\ Head(front \o r) = Head(front)
      /\ Tail(front \o r) = Tail(front) \o r /\ Tail(front) \in Seq(Values)
    <2> HIDE DEF r
    <2> QED BY <1>0, <1>1
<1>3. front' \o Reverse(back)' = Tail(front) \o r
    <2>1. CASE Tail(front) = <<>>
        <3>1. front' = r /\ back' = <<>>
            BY <2>1 DEF take, reconstruct
        <3>2. Reverse(back)' = <<>>
            BY <3>1, EmptyReverse
        <3>3. r \o <<>> = r /\ <<>> \o r = r
            BY <1>1, ConcatEmptySeq
        <3> HIDE DEF r
        <3> QED BY <2>1, <3>1, <3>2, <3>3
    <2>2. CASE Tail(front) # <<>>
        BY <2>2 DEF take, reconstruct
    <2> QED BY <2>1, <2>2
<1>4. got' = <<"value", Head(front)>>
    BY DEF take
<1> QED BY <1>2, <1>3, <1>4 DEF List!Take

\* The queue of two lists implements the queue.
THEOREM Implements == QueueSpec => ImplementsQueue
<1>1. QueueInit => List!Init
    BY EmptyReverse DEF QueueInit, List!Init
<1>2. IInv /\ [QueueNext]_queueVars => [List!Next]_List!vars
    <2> SUFFICES ASSUME IInv, [QueueNext]_queueVars PROVE [List!Next]_List!vars
        OBVIOUS
    <2>1. ASSUME NEW v \in Values, add(v) PROVE List!Next
        BY <2>1, AddStep DEF List!Next
    <2>2. CASE take
        BY <2>2, TakeStep DEF List!Next
    <2>3. CASE peek
        <3>1. front \in Seq(Values) /\ Reverse(back) \in Seq(Values) /\ front # <<>>
            BY <2>3, Sizes DEF peek, IInv, QueueTypeOK
        <3>2. front \o Reverse(back) # <<>> /\ Head(front \o Reverse(back)) = Head(front)
            BY <3>1
        <3> QED BY <2>3, <3>2 DEF peek, List!Peek, List!Next
    <2>4. CASE raiseEmpty
        <3>1. front \o Reverse(back) = <<>>
            BY <2>4, EmptyReverse DEF raiseEmpty, IInv, FrontFilled
        <3> QED BY <2>4, <3>1 DEF raiseEmpty, List!RaiseEmpty, List!Next
    <2>5. CASE UNCHANGED queueVars
        BY <2>5 DEF queueVars, List!vars
    <2> QED BY <2>1, <2>2, <2>3, <2>4, <2>5 DEF QueueNext
<1> QED BY <1>1, <1>2, InitInv, NextInv, PTL DEF QueueSpec, ImplementsQueue, List!Spec

-----------------------------------------------------------------------------
(* httpget                                                                 *)

\* What the server sends, and how much of it has been received.
AnyPiece == Pieces \cup {"?"}
Sent == page.header \o <<"nl", "nl">> \o page.body
Gone == Len(Sent) - Len(link)

PagePart == \E i, j \in 0 .. Len(page.body) : file = SubSeq(page.body, i + 1, j)

PageInv ==
    /\ page \in Pages /\ head \in BOOLEAN /\ received \in Nat
    /\ end \in {"no", "closed", "wild"}
    /\ tmpbuf \in Seq(AnyPiece) /\ Len(tmpbuf) = Space + 1
    /\ link \in Seq(AnyPiece) /\ Len(link) + received <= Len(Sent)
    /\ \A k \in 1 .. Len(link) : link[k] = Sent[Gone + k]
    /\ received = 0 => Len(link) = Len(Sent)
    /\ ~head => file = <<>>
    /\ received = 0 => ~head
    /\ end # "wild" => PagePart
    /\ end = "closed" => link = <<>>
    /\ end # "wild" /\ received = 1 /\ link = <<>> => file = page.body

\* Where the parts of a page are.
LEMMA Parts ==
    ASSUME HttpGet!HttpGetAssumption, page \in Pages
    PROVE  /\ page.header \in Seq(AnyPiece) /\ page.body \in Seq(AnyPiece)
           /\ Len(page.header) \in Nat /\ Len(page.body) \in Nat /\ Len(Sent) \in Nat
           /\ Sent \in Seq(AnyPiece) /\ Len(Sent) = Len(page.header) + 2 + Len(page.body)
           /\ \A k \in 1 .. Len(page.header) :
                 Sent[k] = page.header[k] /\ page.header[k] # "?"
           /\ Sent[Len(page.header) + 1] = "nl" /\ Sent[Len(page.header) + 2] = "nl"
           /\ \A k \in 1 .. Len(page.body) :
                 Sent[Len(page.header) + 2 + k] = page.body[k] /\ page.body[k] # "?"
<1> DEFINE h == page.header
           b == page.body
           m == <<"nl", "nl">>
<1>1. h \in Seq(Pieces) /\ b \in Seq(Pieces) /\ "nl" \in Pieces /\ "?" \notin Pieces
    BY DEF HttpGet!HttpGetAssumption
<1>2. m \in Seq(AnyPiece) /\ Len(m) = 2 /\ m[1] = "nl" /\ m[2] = "nl"
    <2>1. m = <<"nl", "nl">>
        OBVIOUS
    <2> HIDE DEF m
    <2>2. Len(m) = 2 /\ m[1] = "nl" /\ m[2] = "nl"
        BY <2>1
    <2>3. m \in Seq(AnyPiece)
        <3>1. "nl" \in AnyPiece
            BY <1>1 DEF AnyPiece
        <3>2. \A x \in AnyPiece : <<x, x>> \in Seq(AnyPiece)
            OBVIOUS
        <3> QED BY <2>1, <3>1, <3>2
    <2> QED BY <2>2, <2>3
<1> HIDE DEF h, b, m
<1>3. h \in Seq(AnyPiece) /\ b \in Seq(AnyPiece) /\ Len(h) \in Nat /\ Len(b) \in Nat
    <2>1. \A s \in Seq(Pieces) : s \in Seq(AnyPiece)
        BY DEF AnyPiece
    <2> QED BY <1>1, <2>1, LenProperties
<1>4. /\ \A k \in 1 .. Len(h) : h[k] # "?"
      /\ \A k \in 1 .. Len(b) : b[k] # "?"
    BY <1>1, ElementOfSeq
<1>5. /\ h \o m \in Seq(AnyPiece) /\ Len(h \o m) = Len(h) + 2
      /\ \A k \in 1 .. Len(h) + 2 :
            (h \o m)[k] = IF k <= Len(h) THEN h[k] ELSE m[k - Len(h)]
    <2>1. /\ h \o m \in Seq(AnyPiece) /\ Len(h \o m) = Len(h) + Len(m)
          /\ \A k \in 1 .. Len(h) + Len(m) :
                (h \o m)[k] = IF k <= Len(h) THEN h[k] ELSE m[k - Len(h)]
        BY <1>2, <1>3, ConcatProperties
    <2> QED BY <1>2, <2>1
<1>6. /\ (h \o m) \o b \in Seq(AnyPiece) /\ Len((h \o m) \o b) = Len(h) + 2 + Len(b)
      /\ \A k \in 1 .. Len(h) + 2 + Len(b) :
            ((h \o m) \o b)[k] = IF k <= Len(h) + 2 THEN (h \o m)[k] ELSE b[k - (Len(h) + 2)]
    <2> DEFINE a == h \o m
    <2>1. a \in Seq(AnyPiece) /\ Len(a) = Len(h) + 2
        BY <1>5
    <2>2. /\ a \o b \in Seq(AnyPiece) /\ Len(a \o b) = Len(a) + Len(b)
          /\ \A k \in 1 .. Len(a) + Len(b) :
                (a \o b)[k] = IF k <= Len(a) THEN a[k] ELSE b[k - Len(a)]
        BY <1>3, <2>1, ConcatProperties
    <2> QED BY <2>1, <2>2 DEF a
<1>7. Sent = (h \o m) \o b
    BY DEF Sent, h, m, b
<1>8. \A k \in 1 .. Len(h) : Sent[k] = h[k]
    <2> TAKE k \in 1 .. Len(h)
    <2>1. k \in 1 .. Len(h) + 2 + Len(b) /\ k <= Len(h) + 2 /\ k \in 1 .. Len(h) + 2
        BY <1>3
    <2> QED BY <1>5, <1>6, <1>7, <2>1
<1>9. Sent[Len(h) + 1] = "nl" /\ Sent[Len(h) + 2] = "nl"
    <2>1. ASSUME NEW d \in 1 .. 2 PROVE Sent[Len(h) + d] = m[d]
        <3>1. /\ Len(h) + d \in 1 .. Len(h) + 2 + Len(b) /\ Len(h) + d <= Len(h) + 2
              /\ Len(h) + d \in 1 .. Len(h) + 2 /\ ~(Len(h) + d <= Len(h))
              /\ Len(h) + d - Len(h) = d
            BY <1>3
        <3> QED BY <1>5, <1>6, <1>7, <3>1
    <2> QED BY <1>2, <2>1
<1>10. \A k \in 1 .. Len(b) : Sent[Len(h) + 2 + k] = b[k]
    <2> TAKE k \in 1 .. Len(b)
    <2>1. /\ Len(h) + 2 + k \in 1 .. Len(h) + 2 + Len(b) /\ ~(Len(h) + 2 + k <= Len(h) + 2)
          /\ (Len(h) + 2 + k) - (Len(h) + 2) = k
        BY <1>3
    <2> QED BY <1>6, <1>7, <2>1
<1>11. Sent \in Seq(AnyPiece) /\ Len(Sent) = Len(h) + 2 + Len(b) /\ Len(Sent) \in Nat
    BY <1>3, <1>6, <1>7
<1> QED BY <1>3, <1>4, <1>8, <1>9, <1>10, <1>11 DEF h, b

\* No blank line begins in the header.
LEMMA NoBlank ==
    ASSUME HttpGet!HttpGetAssumption, page \in Pages,
           NEW k \in 1 .. Len(Sent) - 1, Sent[k] = "nl", Sent[k + 1] = "nl"
    PROVE  k >= Len(page.header) + 1
<1> DEFINE h == page.header
<1>0. /\ Len(h) \in Nat /\ Len(page.body) \in Nat /\ h \in Seq(AnyPiece)
      /\ Len(Sent) = Len(h) + 2 + Len(page.body)
      /\ \A i \in 1 .. Len(h) : Sent[i] = h[i]
    BY Parts, LenProperties
<1>1. \A i \in 1 .. Len(h) : h[i] = "nl" => i > 1 /\ i < Len(h) /\ h[i - 1] # "nl"
    BY <1>0, LenProperties DEF HttpGet!HttpGetAssumption
<1> HIDE DEF h
<1>2. SUFFICES ASSUME k <= Len(h) PROVE FALSE
    BY <1>0 DEF h
<1>3. k \in 1 .. Len(h) /\ h[k] = "nl"
    <2>1. k \in Int /\ k >= 1
        BY <1>0
    <2>2. k \in 1 .. Len(h)
        BY <1>0, <1>2, <2>1
    <2> QED BY <1>0, <2>2
<1>4. k < Len(h)
    BY <1>1, <1>3
<1>5. k + 1 \in 1 .. Len(h) /\ (k + 1) - 1 = k
    BY <1>0, <1>4
<1>6. h[k + 1] = "nl"
    BY <1>0, <1>5
<1> QED BY <1>1, <1>3, <1>5, <1>6

\* No piece of a page is one that nobody knows.
LEMMA Known ==
    ASSUME HttpGet!HttpGetAssumption, page \in Pages, NEW k \in 1 .. Len(Sent)
    PROVE  Sent[k] # "?"
<1> DEFINE h == page.header
           b == page.body
<1>0. /\ Len(h) \in Nat /\ Len(b) \in Nat /\ Len(Sent) = Len(h) + 2 + Len(b)
    BY Parts, LenProperties
<1> HIDE DEF h, b
<1>1. CASE k \in 1 .. Len(h)
    BY <1>1, Parts DEF h
<1>2. CASE k = Len(h) + 1 \/ k = Len(h) + 2
    BY <1>2, Parts DEF h
<1>3. CASE k - Len(h) - 2 \in 1 .. Len(b)
    <2>1. k = Len(h) + 2 + (k - Len(h) - 2)
        BY <1>0
    <2> QED BY <1>3, <2>1, Parts DEF h, b
<1> QED BY <1>0, <1>1, <1>2, <1>3

\* What recv has put into the buffer.
LEMMA Buffer ==
    ASSUME PageInv, Space \in Nat, NEW size \in 1 .. Len(link), size <= Space
    PROVE  LET buf == HttpGet!Filled(tmpbuf, SubSeq(link, 1, size))
           IN  /\ buf \in Seq(AnyPiece) /\ Len(buf) = Space + 1
               /\ \A k \in 1 .. size : buf[k] = Sent[Gone + k]
<1> DEFINE s == SubSeq(link, 1, size)
           t == SubSeq(tmpbuf, size + 1, Space + 1)
<1>1. /\ link \in Seq(AnyPiece) /\ Len(link) \in Nat /\ tmpbuf \in Seq(AnyPiece)
      /\ Len(tmpbuf) = Space + 1
      /\ \A k \in 1 .. Len(link) : link[k] = Sent[Gone + k]
    BY LenProperties DEF PageInv
<1>2. s \in Seq(AnyPiece) /\ Len(s) = size /\ \A k \in 1 .. size : s[k] = link[k]
    <2>1. \A i \in 1 .. size : link[i] \in AnyPiece
        BY <1>1, ElementOfSeq
    <2> QED BY <1>1, <2>1, SubSeqProperties
<1>3. t \in Seq(AnyPiece) /\ Len(t) = Space + 1 - size
    <2>1. \A i \in size + 1 .. Space + 1 : tmpbuf[i] \in AnyPiece
        BY <1>1, ElementOfSeq
    <2> QED BY <1>1, <2>1, SubSeqProperties
<1>4. HttpGet!Filled(tmpbuf, s) = s \o t
    BY <1>1, <1>2 DEF HttpGet!Filled
<1> HIDE DEF s, t
<1>5. /\ s \o t \in Seq(AnyPiece) /\ Len(s \o t) = Len(s) + Len(t)
      /\ \A k \in 1 .. Len(s) + Len(t) :
            (s \o t)[k] = IF k <= Len(s) THEN s[k] ELSE t[k - Len(s)]
    BY <1>2, <1>3, ConcatProperties
<1>6. \A k \in 1 .. size : (s \o t)[k] = s[k]
    <2> TAKE k \in 1 .. size
    <2>1. k \in 1 .. Len(s) + Len(t) /\ k <= Len(s)
        BY <1>1, <1>2, <1>3
    <2> QED BY <1>5, <2>1
<1>7. \A k \in 1 .. size : (s \o t)[k] = Sent[Gone + k]
    BY <1>1, <1>2, <1>6
<1>8. Len(s \o t) = Space + 1
    BY <1>2, <1>3, <1>5
<1> QED BY <1>4, <1>5, <1>7, <1>8 DEF s

\* A page that is sent is as much of itself as has been received, and the rest.
LEMMA PageStarts ==
    ASSUME HttpGet!HttpGetAssumption, HttpGet!Init
    PROVE  PageInv
<1>1. /\ page \in Pages /\ link = Sent /\ tmpbuf = [i \in 1 .. Space + 1 |-> "?"]
      /\ head = FALSE /\ file = <<>> /\ received = 0 /\ end = "no"
    BY DEF HttpGet!Init, Sent
<1>2. Space \in Nat \ {0}
    BY DEF HttpGet!HttpGetAssumption
<1>3. Sent \in Seq(AnyPiece) /\ Len(Sent) \in Nat /\ Len(page.body) \in Nat
    BY <1>1, Parts, LenProperties
<1>4. tmpbuf \in Seq(AnyPiece) /\ Len(tmpbuf) = Space + 1
    <2>1. tmpbuf \in [1 .. Space + 1 -> AnyPiece]
        BY <1>1 DEF AnyPiece
    <2>2. Space + 1 \in Nat
        BY <1>2
    <2> QED BY <2>1, <2>2
<1>5. \A k \in 1 .. Len(link) : link[k] = Sent[Gone + k]
    <2>1. Gone = 0
        BY <1>1, <1>3 DEF Gone
    <2> QED BY <1>1, <1>3, <2>1
<1>6. PagePart
    <2>1. SubSeq(page.body, 0 + 1, 0) = <<>> /\ 0 \in 0 .. Len(page.body)
        BY <1>3, SubSeqEmpty
    <2> QED BY <1>1, <2>1 DEF PagePart
<1>7. Len(link) + received <= Len(Sent) /\ received \in Nat /\ link \in Seq(AnyPiece)
    BY <1>1, <1>3
<1>8. head \in BOOLEAN /\ end \in {"no", "closed", "wild"}
    BY <1>1
<1>9. /\ received = 0 => Len(link) = Len(Sent)
      /\ ~head => file = <<>>
      /\ received = 0 => ~head
      /\ end # "closed" /\ received # 1
    BY <1>1
<1>10. page \in Pages
    BY <1>1
<1> QED BY <1>4, <1>5, <1>6, <1>7, <1>8, <1>9, <1>10 DEF PageInv

\* The smaller of two.
LEMMA Smaller ==
    ASSUME NEW a \in Nat, NEW b \in Nat, NEW x \in 1 .. HttpGet!Min({a, b})
    PROVE  x \in 1 .. a /\ x <= b
<1>1. \E m \in {a, b} : \A y \in {a, b} : m <= y
    OBVIOUS
<1> DEFINE m == CHOOSE v \in {a, b} : \A y \in {a, b} : v <= y
<1>2. m \in {a, b} /\ \A y \in {a, b} : m <= y
    BY <1>1
<1>3. HttpGet!Min({a, b}) = m
    BY DEF HttpGet!Min
<1> HIDE DEF m
<1> QED BY <1>2, <1>3

\* What is behind a blank line that recv has returned whole is a piece of the body.
LEMMA BehindBlank ==
    ASSUME HttpGet!HttpGetAssumption, page \in Pages, NEW n \in Nat, NEW size \in Nat,
           n + size <= Len(Sent),
           NEW buf \in Seq(AnyPiece), size <= Len(buf), \A k \in 1 .. size : buf[k] = Sent[n + k],
           NEW ptr \in 1 .. size - 1, HttpGet!Begins(buf, ptr)
    PROVE  LET h == Len(page.header)
               i == n + ptr - h - 1
               j == n + size - h - 2
           IN  /\ i \in 0 .. Len(page.body) /\ j \in 0 .. Len(page.body)
               /\ HttpGet!Behind(buf, ptr, size) = SubSeq(page.body, i + 1, j)
<1> DEFINE h == Len(page.header)
           b == page.body
           i == n + ptr - h - 1
           j == n + size - h - 2
<1>0. /\ h \in Nat /\ Len(b) \in Nat /\ b \in Seq(AnyPiece) /\ Len(Sent) = h + 2 + Len(b)
      /\ \A k \in 1 .. Len(b) : Sent[h + 2 + k] = b[k]
    BY Parts, LenProperties
<1>1. n + ptr \in 1 .. Len(Sent) - 1 /\ n + ptr + 1 \in 1 .. Len(Sent)
    <2>1. Len(Sent) \in Nat
        BY Parts
    <2>2. ptr \in Nat /\ ptr >= 1 /\ ptr + 1 <= size
        OBVIOUS
    <2>3. n + size <= Len(Sent)
        OBVIOUS
    <2> QED BY <2>1, <2>2, <2>3
<1>2. ptr \in 1 .. size /\ ptr + 1 \in 1 .. size /\ n + (ptr + 1) = n + ptr + 1
    OBVIOUS
<1>3. buf[ptr] = Sent[n + ptr] /\ buf[ptr + 1] = Sent[n + ptr + 1]
    BY <1>2
<1>4. Sent[n + ptr] = "nl" /\ Sent[n + ptr + 1] = "nl"
    BY <1>1, <1>3, Known DEF HttpGet!Begins
<1>5. n + ptr >= h + 1
    BY <1>1, <1>4, NoBlank
<1> HIDE DEF h, b
<1>6. i \in 0 .. Len(b) /\ j \in 0 .. Len(b) /\ i <= j
    BY <1>0, <1>5
<1>7. /\ SubSeq(buf, ptr + 2, size) \in Seq(AnyPiece)
      /\ Len(SubSeq(buf, ptr + 2, size)) = j - i
      /\ \A k \in 1 .. j - i : SubSeq(buf, ptr + 2, size)[k] = buf[ptr + 1 + k]
    <2>0. ptr + 2 \in Int /\ size \in Int /\ Len(buf) \in Nat
        BY LenProperties
    <2>1. \A k \in ptr + 2 .. size : buf[k] \in AnyPiece
        <3> TAKE k \in ptr + 2 .. size
        <3>1. k \in 1 .. Len(buf)
            BY <2>0
        <3> QED BY <3>1, ElementOfSeq
    <2>2. /\ SubSeq(buf, ptr + 2, size) \in Seq(AnyPiece)
          /\ Len(SubSeq(buf, ptr + 2, size)) =
                IF ptr + 2 <= size THEN size - (ptr + 2) + 1 ELSE 0
          /\ \A k \in 1 .. size - (ptr + 2) + 1 :
                SubSeq(buf, ptr + 2, size)[k] = buf[ptr + 2 + k - 1]
        <3> DEFINE from == ptr + 2
        <3>1. from \in Int /\ size \in Int /\ \A k \in from .. size : buf[k] \in AnyPiece
            BY <2>0, <2>1
        <3> HIDE DEF from
        <3>2. /\ SubSeq(buf, from, size) \in Seq(AnyPiece)
              /\ Len(SubSeq(buf, from, size)) =
                    IF from <= size THEN size - from + 1 ELSE 0
              /\ \A k \in 1 .. size - from + 1 :
                    SubSeq(buf, from, size)[k] = buf[from + k - 1]
            BY <3>1, SubSeqProperties
        <3> QED BY <3>2 DEF from
    <2>3. size - (ptr + 2) + 1 = j - i /\ \A k \in Int : ptr + 2 + k - 1 = ptr + 1 + k
        <3>1. n \in Int /\ h \in Int /\ ptr \in Int /\ size \in Int
            BY <1>0
        <3>2. size - (ptr + 2) + 1 = j - i
            BY <3>1
        <3>3. \A k \in Int : ptr + 2 + k - 1 = ptr + 1 + k
            BY <3>1
        <3> QED BY <3>2, <3>3
    <2>4. ~(ptr + 2 <= size) => j - i = 0
        BY <1>0
    <2> QED BY <2>2, <2>3, <2>4
<1>8. /\ SubSeq(b, i + 1, j) \in Seq(AnyPiece)
      /\ Len(SubSeq(b, i + 1, j)) = j - i
      /\ \A k \in 1 .. j - i : SubSeq(b, i + 1, j)[k] = b[i + k]
    <2> HIDE DEF i, j
    <2>1. \A k \in i + 1 .. j : b[k] \in AnyPiece
        BY <1>0, <1>6, ElementOfSeq
    <2>2. /\ SubSeq(b, i + 1, j) \in Seq(AnyPiece)
          /\ Len(SubSeq(b, i + 1, j)) = IF i + 1 <= j THEN j - (i + 1) + 1 ELSE 0
          /\ \A k \in 1 .. j - (i + 1) + 1 : SubSeq(b, i + 1, j)[k] = b[i + 1 + k - 1]
        BY <1>0, <1>6, <2>1, SubSeqProperties
    <2>3. i \in Int /\ j \in Int /\ i <= j
        BY <1>6
    <2>4. j - (i + 1) + 1 = j - i /\ (~(i + 1 <= j) => j - i = 0)
          /\ \A k \in Int : i + 1 + k - 1 = i + k
        BY <2>3
    <2>5. \A k \in 1 .. j - i : k \in 1 .. j - (i + 1) + 1 /\ i + 1 + k - 1 = i + k
        BY <2>3
    <2> QED BY <2>2, <2>4, <2>5
<1>9. \A k \in 1 .. j - i : buf[ptr + 1 + k] = b[i + k]
    <2> TAKE k \in 1 .. j - i
    <2>1. ptr + 1 + k \in 1 .. size /\ i + k \in 1 .. Len(b) /\ n + (ptr + 1 + k) = h + 2 + (i + k)
        BY <1>0, <1>6
    <2> HIDE DEF i, j
    <2> QED BY <1>0, <2>1
<1>10. SubSeq(buf, ptr + 2, size) = SubSeq(b, i + 1, j)
    <2> DEFINE s == SubSeq(buf, ptr + 2, size)
               t == SubSeq(b, i + 1, j)
    <2>1. /\ s \in Seq(AnyPiece) /\ t \in Seq(AnyPiece) /\ Len(s) = Len(t)
          /\ j - i = Len(s)
        BY <1>7, <1>8
    <2>2. \A k \in 1 .. Len(s) : s[k] = t[k]
        <3> TAKE k \in 1 .. Len(s)
        <3>1. k \in 1 .. j - i
            BY <2>1
        <3>2. s[k] = buf[ptr + 1 + k] /\ t[k] = b[i + k]
            BY <1>7, <1>8, <3>1
        <3> QED BY <1>9, <3>1, <3>2
    <2> HIDE DEF s, t
    <2>3. s = t
        BY <2>1, <2>2, SeqEqual
    <2> QED BY <2>3 DEF s, t
<1> QED BY <1>6, <1>10 DEF HttpGet!Behind, h, b

\* A page that one recv returns is searched up to its blank line and no further.
LEMMA AtOnce ==
    ASSUME HttpGet!HttpGetAssumption, page \in Pages,
           NEW buf \in Seq(AnyPiece), Len(Sent) <= Len(buf),
           \A k \in 1 .. Len(Sent) : buf[k] = Sent[k],
           NEW ptr \in HttpGet!memstr(buf, Len(Sent))
    PROVE  ptr = Len(page.header) + 1
<1> DEFINE h == Len(page.header)
           n == Len(Sent)
<1>0. h \in Nat /\ n \in Nat /\ h + 2 <= n
    <2> DEFINE b == Len(page.body)
    <2>1. h \in Nat /\ b \in Nat /\ n = h + 2 + b
        BY Parts
    <2> HIDE DEF h, n, b
    <2> QED BY <2>1
<1> HIDE DEF h, n
<1>1. h + 1 \in 1 .. n /\ h + 2 \in 1 .. n /\ (h + 1) + 1 = h + 2
    BY <1>0
<1>2. Sent[h + 1] = "nl" /\ Sent[h + 2] = "nl"
    BY Parts DEF h
<1>3. HttpGet!Certain(buf, h + 1)
    BY <1>1, <1>2 DEF HttpGet!Certain, n
<1>4. /\ ptr \in 1 .. n /\ HttpGet!Begins(buf, ptr)
      /\ \A j \in 1 .. ptr - 1 : ~HttpGet!Certain(buf, j)
    BY <1>1, <1>3 DEF HttpGet!memstr, n
<1>5. ptr <= h + 1
    <2> SUFFICES ASSUME ~(ptr <= h + 1) PROVE FALSE
        OBVIOUS
    <2>1. h + 1 \in 1 .. ptr - 1
        BY <1>0, <1>4
    <2> QED BY <1>3, <1>4, <2>1
<1>6. ptr + 1 \in 1 .. n /\ ptr \in 1 .. n - 1
    BY <1>0, <1>4, <1>5
<1>7. Sent[ptr] = "nl" /\ Sent[ptr + 1] = "nl"
    <2>1. Sent[ptr] = buf[ptr] /\ Sent[ptr + 1] = buf[ptr + 1]
        BY <1>4, <1>6 DEF n
    <2>2. Sent[ptr + 1] # "?"
        BY <1>6, Known DEF n
    <2> QED BY <1>4, <2>1, <2>2 DEF HttpGet!Begins
<1>8. ptr >= h + 1
    BY <1>6, <1>7, NoBlank DEF h, n
<1> QED BY <1>0, <1>4, <1>5, <1>8 DEF h

\* A recv keeps PageInv: what it finds behind the blank line is of the body.
LEMMA PageReceives ==
    ASSUME HttpGet!HttpGetAssumption, PageInv, HttpGet!Recv
    PROVE  PageInv'
<1>0. /\ page \in Pages /\ head \in BOOLEAN /\ received \in Nat /\ link \in Seq(AnyPiece)
      /\ Len(link) + received <= Len(Sent) /\ Len(link) \in Nat /\ Len(Sent) \in Nat
      /\ \A k \in 1 .. Len(link) : link[k] = Sent[Gone + k]
      /\ received = 0 => Len(link) = Len(Sent)
      /\ ~head => file = <<>>
      /\ received = 0 => ~head
      /\ end # "wild" => PagePart
      /\ Space \in Nat
    BY Parts, LenProperties DEF PageInv, HttpGet!HttpGetAssumption
<1>1. PICK size \in 1 .. HttpGet!Min({Len(link), Space}) :
         LET buf == HttpGet!Filled(tmpbuf, SubSeq(link, 1, size)) IN
         /\ link' = SubSeq(link, size + 1, Len(link))
         /\ tmpbuf' = buf
         /\ IF head THEN UNCHANGED <<head, file, end>>
            ELSE \E ptr \in HttpGet!memstr(buf, size) :
                    /\ head' = (ptr # 0)
                    /\ file' = IF ptr = 0 THEN file ELSE HttpGet!Behind(buf, ptr, size)
                    /\ end' = IF ptr = size THEN "wild" ELSE "no"
    BY DEF HttpGet!Recv
<1>2. end = "no" /\ link # <<>> /\ received' = received + 1 /\ page' = page
    BY DEF HttpGet!Recv
<1>3. size \in 1 .. Len(link) /\ size <= Space
    BY <1>0, <1>1, Smaller
<1> DEFINE buf == HttpGet!Filled(tmpbuf, SubSeq(link, 1, size))
<1>4. /\ buf \in Seq(AnyPiece) /\ Len(buf) = Space + 1 /\ \A k \in 1 .. size : buf[k] = Sent[Gone + k]
    BY <1>0, <1>3, Buffer
<1>5. /\ link' \in Seq(AnyPiece) /\ Len(link') = Len(link) - size
      /\ \A k \in 1 .. Len(link) - size : link'[k] = link[size + k]
    <2>0. size + 1 \in Int /\ Len(link) \in Int
        BY <1>0, <1>3
    <2>1. \A i \in size + 1 .. Len(link) : link[i] \in AnyPiece
        <3> TAKE i \in size + 1 .. Len(link)
        <3>1. i \in 1 .. Len(link)
            BY <1>0, <1>3
        <3> QED BY <1>0, <3>1, ElementOfSeq
    <2>2. /\ link' \in Seq(AnyPiece)
          /\ Len(link') = IF size + 1 <= Len(link) THEN Len(link) - (size + 1) + 1 ELSE 0
          /\ \A i \in 1 .. Len(link) - (size + 1) + 1 : link'[i] = link[size + 1 + i - 1]
        BY <1>1, <2>0, <2>1, SubSeqProperties
    <2>3. Len(link') = Len(link) - size
        BY <1>0, <1>3, <2>2
    <2>4. \A k \in 1 .. Len(link) - size :
             k \in 1 .. Len(link) - (size + 1) + 1 /\ size + 1 + k - 1 = size + k
        BY <1>0, <1>3
    <2> QED BY <2>2, <2>3, <2>4
<1>6. Sent' = Sent /\ Gone' = Gone + size
    BY <1>0, <1>2, <1>3, <1>5 DEF Sent, Gone
<1> HIDE DEF buf
<1>7. \A k \in 1 .. Len(link') : link'[k] = Sent'[Gone' + k]
    <2> TAKE k \in 1 .. Len(link')
    <2>1. k \in 1 .. Len(link) - size /\ size + k \in 1 .. Len(link)
        BY <1>0, <1>3, <1>5
    <2>2. Gone \in Int /\ Gone + (size + k) = Gone + size + k
        BY <1>0, <1>3 DEF Gone
    <2> QED BY <1>0, <1>5, <1>6, <2>1, <2>2
<1>8. tmpbuf' \in Seq(AnyPiece) /\ Len(tmpbuf') = Space + 1
    BY <1>1, <1>4 DEF buf
<1>9. Len(link') + received' <= Len(Sent') /\ received' \in Nat /\ received' # 0
    BY <1>0, <1>2, <1>3, <1>5, <1>6
<1>10. link' = <<>> /\ received' = 1 => size = Len(Sent) /\ Gone = 0
    <2> SUFFICES ASSUME link' = <<>>, received' = 1 PROVE size = Len(Sent) /\ Gone = 0
        OBVIOUS
    <2>1. Len(link') = 0 /\ received = 0
        BY <1>0, <1>2
    <2> QED BY <1>0, <1>3, <1>5, <2>1 DEF Gone
<1>11. head => received' # 1
    BY <1>0, <1>2
<1>12. PagePart
    BY <1>0, <1>2
<1>13. CASE head
    <2>1. head' = head /\ file' = file /\ end' = end
        BY <1>1, <1>13
    <2>2. PagePart'
        BY <1>2, <1>12, <2>1 DEF PagePart
    <2>3. /\ ~head' => file' = <<>>
          /\ received' = 0 => ~head'
          /\ end' # "closed" /\ end' \in {"no", "closed", "wild"}
          /\ head' \in BOOLEAN /\ received' # 1
        BY <1>0, <1>2, <1>9, <1>11, <1>13, <2>1
    <2> QED BY <1>0, <1>2, <1>5, <1>7, <1>8, <1>9, <2>2, <2>3 DEF PageInv
<1>14. CASE ~head
    <2>1. PICK ptr \in HttpGet!memstr(buf, size) :
             /\ head' = (ptr # 0)
             /\ file' = IF ptr = 0 THEN file ELSE HttpGet!Behind(buf, ptr, size)
             /\ end' = IF ptr = size THEN "wild" ELSE "no"
        BY <1>1, <1>14 DEF buf
    <2>2. ptr \in 0 .. size /\ (ptr # 0 => ptr \in 1 .. size /\ HttpGet!Begins(buf, ptr))
        BY <1>3 DEF HttpGet!memstr
    <2>3. end' # "wild" => PagePart'
        <3> SUFFICES ASSUME end' # "wild" PROVE PagePart'
            OBVIOUS
        <3>1. CASE ptr = 0
            <4>1. file' = file
                BY <2>1, <3>1
            <4> QED BY <1>2, <1>12, <4>1 DEF PagePart
        <3>2. CASE ptr # 0
            <4>1. ptr \in 1 .. size - 1
                BY <1>3, <2>1, <2>2, <3>2
            <4>2. Gone \in Nat /\ Gone + size <= Len(Sent) /\ size \in Nat /\ size <= Len(buf)
                BY <1>0, <1>3, <1>4 DEF Gone
            <4> DEFINE i == Gone + ptr - Len(page.header) - 1
                       j == Gone + size - Len(page.header) - 2
            <4>3. /\ i \in 0 .. Len(page.body) /\ j \in 0 .. Len(page.body)
                  /\ HttpGet!Behind(buf, ptr, size) = SubSeq(page.body, i + 1, j)
                BY <1>0, <1>4, <2>2, <3>2, <4>1, <4>2, BehindBlank
            <4> HIDE DEF i, j
            <4>4. file' = SubSeq(page.body, i + 1, j)
                BY <2>1, <3>2, <4>3
            <4> QED BY <1>2, <4>3, <4>4 DEF PagePart
        <3> QED BY <3>1, <3>2
    <2>4. end' # "wild" /\ received' = 1 /\ link' = <<>> => file' = page'.body
        <3> SUFFICES ASSUME received' = 1, link' = <<>> PROVE file' = page'.body
            OBVIOUS
        <3>1. size = Len(Sent) /\ Gone = 0
            BY <1>10
        <3>2. \A k \in 1 .. Len(Sent) : buf[k] = Sent[k]
            BY <1>0, <1>4, <3>1
        <3>3. Len(Sent) <= Len(buf)
            BY <1>0, <1>3, <1>4, <3>1
        <3> DEFINE h == Len(page.header)
                   b == page.body
        <3>4. ptr = h + 1
            BY <1>0, <1>4, <2>1, <3>1, <3>2, <3>3, AtOnce
        <3>5. h \in Nat /\ Len(b) \in Nat /\ Len(Sent) = h + 2 + Len(b) /\ b \in Seq(AnyPiece)
            BY <1>0, Parts
        <3> HIDE DEF h, b
        <3>6. ptr \in 1 .. size - 1 /\ ptr # 0
            BY <3>1, <3>4, <3>5
        <3>7. 0 + size <= Len(Sent) /\ size \in Nat /\ size <= Len(buf)
            BY <1>0, <1>3, <1>4, <3>1
        <3>8. \A k \in 1 .. size : buf[k] = Sent[0 + k]
            BY <3>1, <3>2
        <3>9. HttpGet!Behind(buf, ptr, size) = SubSeq(b, 0 + ptr - h - 1 + 1, 0 + size - h - 2)
            BY <1>0, <1>4, <2>2, <3>6, <3>7, <3>8, BehindBlank DEF h, b
        <3>10. 0 + ptr - h - 1 + 1 = 1 /\ 0 + size - h - 2 = Len(b)
            BY <3>1, <3>4, <3>5
        <3>11. SubSeq(b, 1, Len(b)) = b
            BY <3>5, SubSeqFull
        <3> QED BY <1>2, <2>1, <3>6, <3>9, <3>10, <3>11 DEF b
    <2>5. ~head' => file' = <<>>
        BY <1>0, <1>14, <2>1
    <2>6. /\ end' # "closed" /\ end' \in {"no", "closed", "wild"}
          /\ head' \in BOOLEAN
        BY <2>1
    <2> QED BY <1>0, <1>2, <1>5, <1>7, <1>8, <1>9, <2>3, <2>4, <2>5, <2>6 DEF PageInv
<1> QED BY <1>13, <1>14

\* So does the end.
LEMMA PageCloses ==
    ASSUME PageInv, HttpGet!Close
    PROVE  PageInv'
<1>1. /\ link = <<>> /\ end = "no" /\ end' = "closed" /\ page' = page /\ link' = link
      /\ tmpbuf' = tmpbuf /\ head' = head /\ file' = file /\ received' = received
    BY DEF HttpGet!Close
<1>2. Sent' = Sent /\ Gone' = Gone
    BY <1>1 DEF Sent, Gone
<1>3. PagePart'
    BY <1>1 DEF PagePart, PageInv
<1> QED BY <1>1, <1>2, <1>3 DEF PageInv

\* PageInv is more than what is promised of the file.
LEMMA PageSafe ==
    ASSUME HttpGet!HttpGetAssumption, PageInv
    PROVE  HttpGet!TypeOK /\ HttpGet!OnlyBody
<1>1. Len(Sent) = Len(page.header) + 2 + Len(page.body)
      /\ Len(page.header) \in Nat /\ Len(page.body) \in Nat
    BY Parts DEF PageInv
<1>2. Len(link) + received <= Len(page.header) + Len(page.body) + 2
    <2> DEFINE h == Len(page.header)
               b == Len(page.body)
    <2>1. h + 2 + b = h + b + 2
        <3>1. h \in Nat /\ b \in Nat
            BY <1>1
        <3> HIDE DEF h, b
        <3> QED BY <3>1
    <2>2. Len(link) + received <= Len(Sent)
        BY DEF PageInv
    <2> QED BY <1>1, <2>1, <2>2
<1>3. HttpGet!TypeOK
    BY <1>2 DEF HttpGet!TypeOK, PageInv
<1>4. HttpGet!OnlyBody
    BY DEF HttpGet!OnlyBody, PageInv, PagePart
<1> QED BY <1>3, <1>4

PageIInv == program = "httpget" => PageInv

\* However a page comes in parts, httpget writes a piece of its body, and all of a
\* page that comes at once.
THEOREM OnlyBodyWritten == Spec => []OnlyBody
<1>1. HttpGet!HttpGetAssumption
    BY FiltersBounds
<1>2. Init => PageIInv
    BY <1>1, PageStarts DEF Init, PageIInv
<1>3. PageIInv /\ [Next]_<<program, bignumVars, compilerVars, pageVars, queueVars, boardVars, storeVars>>
         => PageIInv'
    <2> SUFFICES ASSUME PageIInv,
                        [Next]_<<program, bignumVars, compilerVars, pageVars, queueVars, boardVars, storeVars>>,
                        program' = "httpget"
                 PROVE  PageInv'
        BY DEF PageIInv
    <2>1. program = "httpget" /\ PageInv
        BY DEF Next, PageIInv
    <2>2. CASE HttpGet!Next
        BY <1>1, <2>1, <2>2, PageReceives, PageCloses DEF HttpGet!Next
    <2>3. CASE UNCHANGED pageVars
        BY <2>1, <2>3 DEF pageVars, PageInv, PagePart, Sent, Gone
    <2>4. HttpGet!Next \/ UNCHANGED pageVars
        BY <2>1 DEF Next, Returned
    <2> QED BY <2>2, <2>3, <2>4
<1>4. PageIInv => OnlyBody
    BY <1>1, PageSafe DEF OnlyBody, PageIInv
<1> QED BY <1>2, <1>3, <1>4, PTL DEF Spec

-----------------------------------------------------------------------------
(* ilogic                                                                  *)

BoardInv == Ilogic!TypeOK /\ Ilogic!ColourOfState

\* A window without a cell pressed.
NonePressed ==
    /\ body = [r \in Ilogic!Rows |-> [c \in Ilogic!Columns |-> "NotPressed"]]
    /\ colour = [cell \in Ilogic!Cells |-> Ilogic!color_of_state("NotPressed")]
    /\ pointer = <<>> /\ corner \in {"title", "right", "wrong"}

LEMMA CellIs ==
    ASSUME NEW cell \in Ilogic!Cells
    PROVE  cell = <<cell[1], cell[2]>> /\ cell[1] \in Ilogic!Rows /\ cell[2] \in Ilogic!Columns
BY DEF Ilogic!Cells

LEMMA ColourIs == \A s : Ilogic!color_of_state(s) \in {"White", "Blue", "selcol"}
BY DEF Ilogic!color_of_state

LEMMA EmptyBoard == NonePressed => BoardInv
<1> SUFFICES ASSUME NonePressed PROVE BoardInv
    OBVIOUS
<1>1. colour \in [Ilogic!Cells -> {"White", "Blue", "selcol"}]
    BY ColourIs DEF NonePressed
<1>2. body \in [Ilogic!Rows -> [Ilogic!Columns -> {"Pressed", "NotPressed"}]]
    BY DEF NonePressed
<1>3. \A cell \in Ilogic!Cells : Ilogic!State(cell) = "NotPressed"
    BY CellIs DEF Ilogic!State, NonePressed
<1>4. Ilogic!ColourOfState
    BY <1>3 DEF Ilogic!ColourOfState, NonePressed
<1> QED BY <1>1, <1>2, <1>4 DEF BoardInv, Ilogic!TypeOK, NonePressed

LEMMA BoardStep ==
    ASSUME BoardInv, Ilogic!Next
    PROVE  BoardInv'
<1>0. /\ pointer \in Ilogic!Cells \cup {<<>>}
      /\ body \in [Ilogic!Rows -> [Ilogic!Columns -> {"Pressed", "NotPressed"}]]
      /\ colour \in [Ilogic!Cells -> {"White", "Blue", "selcol"}]
      /\ corner \in {"title", "right", "wrong"}
      /\ \A cell \in Ilogic!Cells \ {pointer} : colour[cell] = Ilogic!color_of_state(Ilogic!State(cell))
    BY DEF BoardInv, Ilogic!TypeOK, Ilogic!ColourOfState
<1>1. spec' = spec /\ Ilogic!Rows' = Ilogic!Rows /\ Ilogic!Columns' = Ilogic!Columns
      /\ Ilogic!Cells' = Ilogic!Cells
    <2>1. spec' = spec
        BY DEF Ilogic!Next, Ilogic!focus, Ilogic!unfocus, Ilogic!pressed, Ilogic!clear_all,
               Ilogic!check, Ilogic!reset_corner
    <2> QED BY <2>1 DEF Ilogic!Rows, Ilogic!Columns, Ilogic!Cells
<1>2. ASSUME NEW cell \in Ilogic!Cells, Ilogic!focus(cell) PROVE BoardInv'
    <2>1. /\ pointer = <<>> /\ pointer' = cell /\ colour' = [colour EXCEPT ![cell] = "selcol"]
          /\ body' = body /\ corner' = corner
        BY <1>2 DEF Ilogic!focus
    <2>2. colour' \in [Ilogic!Cells -> {"White", "Blue", "selcol"}]
        BY <1>0, <2>1
    <2>3. Ilogic!TypeOK'
        BY <1>0, <1>1, <2>1, <2>2 DEF Ilogic!TypeOK
    <2>4. \A other \in Ilogic!Cells \ {cell} :
             colour'[other] = Ilogic!color_of_state(Ilogic!State(other))
        <3> SUFFICES ASSUME NEW other \in Ilogic!Cells, other # cell
                     PROVE  colour'[other] = Ilogic!color_of_state(Ilogic!State(other))
            OBVIOUS
        <3>1. other # pointer
            BY <2>1, CellIs
        <3> QED BY <1>0, <2>1, <3>1
    <2>5. Ilogic!ColourOfState'
        BY <1>1, <2>1, <2>4 DEF Ilogic!ColourOfState, Ilogic!State
    <2> QED BY <2>3, <2>5 DEF BoardInv
<1>3. CASE Ilogic!unfocus
    <2>1. /\ pointer \in Ilogic!Cells /\ pointer' = <<>>
          /\ colour' = [colour EXCEPT ![pointer] = Ilogic!color_of_state(Ilogic!State(pointer))]
          /\ body' = body /\ corner' = corner
        BY <1>0, <1>3 DEF Ilogic!unfocus
    <2>2. colour' \in [Ilogic!Cells -> {"White", "Blue", "selcol"}]
        BY <1>0, <2>1, ColourIs
    <2>3. Ilogic!TypeOK'
        BY <1>0, <1>1, <2>1, <2>2 DEF Ilogic!TypeOK
    <2>4. \A other \in Ilogic!Cells : colour'[other] = Ilogic!color_of_state(Ilogic!State(other))
        BY <1>0, <2>1
    <2>5. Ilogic!ColourOfState'
        BY <1>1, <2>1, <2>4 DEF Ilogic!ColourOfState, Ilogic!State
    <2> QED BY <2>3, <2>5 DEF BoardInv
<1>4. CASE Ilogic!pressed
    <2> DEFINE r == pointer[1]
               c == pointer[2]
               after == Ilogic!toggle(body[r][c])
    <2>1. /\ pointer \in Ilogic!Cells /\ pointer' = pointer
          /\ body' = [body EXCEPT ![r][c] = after]
          /\ colour' = [colour EXCEPT ![pointer] = Ilogic!color_of_state(after)]
          /\ corner' = corner
        BY <1>0, <1>4 DEF Ilogic!pressed, Ilogic!State
    <2>2. colour' \in [Ilogic!Cells -> {"White", "Blue", "selcol"}]
        BY <1>0, <2>1, ColourIs
    <2>3. pointer = <<r, c>> /\ r \in Ilogic!Rows /\ c \in Ilogic!Columns
          /\ after \in {"Pressed", "NotPressed"}
        BY <2>1, CellIs DEF Ilogic!toggle
    <2> HIDE DEF r, c, after
    <2>4. body' \in [Ilogic!Rows -> [Ilogic!Columns -> {"Pressed", "NotPressed"}]]
        BY <1>0, <2>1, <2>3
    <2>5. Ilogic!TypeOK'
        BY <1>0, <1>1, <2>1, <2>2, <2>4 DEF Ilogic!TypeOK
    <2>6. ASSUME NEW other \in Ilogic!Cells, other # pointer
          PROVE  body'[other[1]][other[2]] = body[other[1]][other[2]] /\ colour'[other] = colour[other]
        <3>1. /\ other = <<other[1], other[2]>>
              /\ other[1] \in Ilogic!Rows /\ other[2] \in Ilogic!Columns
            BY CellIs
        <3>2. other[1] # r \/ other[2] # c
            BY <2>3, <2>6, <3>1
        <3>3. body'[other[1]][other[2]] = body[other[1]][other[2]]
            BY <1>0, <2>1, <2>3, <3>1, <3>2
        <3>4. colour'[other] = colour[other]
            BY <1>0, <2>1, <2>6
        <3> QED BY <3>3, <3>4
    <2>7. Ilogic!ColourOfState'
        BY <1>0, <1>1, <2>1, <2>6 DEF Ilogic!ColourOfState, Ilogic!State
    <2> QED BY <2>5, <2>7 DEF BoardInv
<1>5. CASE Ilogic!clear_all
    <2>1. NonePressed'
        BY <1>0, <1>1, <1>5 DEF Ilogic!clear_all, NonePressed, Ilogic!color_of_state
    <2>2. NonePressed' => BoardInv'
        BY EmptyBoard, PTL
    <2> QED BY <2>1, <2>2
<1>6. CASE Ilogic!check \/ Ilogic!reset_corner
    <2>1. /\ body' = body /\ colour' = colour /\ pointer' = pointer
          /\ corner' \in {"title", "right", "wrong"}
        BY <1>6 DEF Ilogic!check, Ilogic!reset_corner
    <2>2. Ilogic!TypeOK'
        BY <1>0, <1>1, <2>1 DEF Ilogic!TypeOK
    <2>3. Ilogic!ColourOfState'
        BY <1>0, <1>1, <2>1 DEF Ilogic!ColourOfState, Ilogic!State
    <2> QED BY <2>2, <2>3 DEF BoardInv
<1> QED BY <1>2, <1>3, <1>4, <1>5, <1>6 DEF Ilogic!Next

\* Every cell on the window has the colour of its state unless the pointer is in
\* it, whatever was pressed and cleared.
THEOREM ColoursRight == Spec => [](Ilogic!TypeOK /\ Ilogic!ColourOfState)
<1> DEFINE allVars == <<program, bignumVars, compilerVars, pageVars, queueVars, boardVars, storeVars>>
<1>1. Init => BoardInv
    <2> SUFFICES ASSUME Init PROVE BoardInv
        OBVIOUS
    <2>1. Ilogic!Window
        BY DEF Init, NoBoard, Ilogic!Init
    <2>2. NonePressed
        BY <2>1 DEF Ilogic!Window, NonePressed
    <2> QED BY <2>2, EmptyBoard
<1>2. BoardInv /\ [Next]_allVars => BoardInv'
    <2> SUFFICES ASSUME BoardInv, [Next]_allVars PROVE BoardInv'
        OBVIOUS
    <2>1. CASE Ilogic!Next
        BY <2>1, BoardStep
    <2>2. CASE UNCHANGED boardVars
        BY <2>2 DEF boardVars, BoardInv, Ilogic!TypeOK, Ilogic!ColourOfState, Ilogic!Cells,
           Ilogic!Rows, Ilogic!Columns, Ilogic!State
    <2>3. Ilogic!Next \/ UNCHANGED boardVars
        BY DEF Next, Returned
    <2> QED BY <2>1, <2>2, <2>3
<1> QED BY <1>1, <1>2, PTL DEF Spec, BoardInv, allVars

-----------------------------------------------------------------------------
(* The places of objects                                                   *)

\* The free places of a class, from first on: `links' are all they lead to, none
\* comes twice, and with the places taken they are all up to the one where new
\* places begin.
Closed(first, col, S) == first \in S /\ \A j \in S : col[j] \in S \cup {-1}

Least(n, first, col, links) ==
    /\ links \in SUBSET (0 .. n) /\ Closed(first, col, links)
    /\ \A S \in SUBSET (0 .. n) : Closed(first, col, S) => links \subseteq S

Once(first, col, links) ==
    /\ \A j \in links : col[j] # first
    /\ \A j, k \in links : col[j] = col[k] /\ col[j] # -1 => j = k

Contiguous(n, col, taken, links) ==
    /\ taken \in SUBSET (0 .. n) /\ taken \cap links = {}
    /\ \E top \in links :
          /\ col[top] = -1 /\ taken \cup links = 0 .. top
          /\ \A i \in 0 .. n : i > top => col[i] = -1

Chain(n, first, col, taken, links) ==
    /\ col \in [0 .. n -> {-1} \cup Nat]
    /\ Least(n, first, col, links) /\ Once(first, col, links) /\ Contiguous(n, col, taken, links)

\* At first nothing is taken and the first place is free.
LEMMA ChainFresh ==
    ASSUME NEW n \in Nat, NEW col, col = [i \in 0 .. n |-> -1]
    PROVE  Chain(n, 0, col, {}, {0})
<1>1. col \in [0 .. n -> {-1} \cup Nat]
    OBVIOUS
<1>2. 0 \in 0 .. n /\ \A i \in 0 .. n : col[i] = -1
    OBVIOUS
<1>3. Least(n, 0, col, {0})
    BY <1>2 DEF Least, Closed
<1>4. Once(0, col, {0})
    BY <1>2 DEF Once
<1>5. Contiguous(n, col, {}, {0})
    <2>1. {} \cup {0} = 0 .. 0
        OBVIOUS
    <2> QED BY <1>2, <2>1 DEF Contiguous
<1> QED BY <1>1, <1>3, <1>4, <1>5 DEF Chain

\* What a chain is good for.
LEMMA ChainFacts ==
    ASSUME NEW n \in Nat, NEW first, NEW col, NEW taken, NEW links,
           Chain(n, first, col, taken, links)
    PROVE  /\ first \in links /\ first \in 0 .. n /\ first \notin taken
           /\ links \in SUBSET (0 .. n) /\ taken \in SUBSET (0 .. n) /\ taken \cap links = {}
           /\ col \in [0 .. n -> {-1} \cup Nat]
           /\ \A j \in links : col[j] = -1 \/ (col[j] \in links /\ col[j] # first)
BY DEF Chain, Least, Closed, Once, Contiguous

\* A place that nothing but the end leads from is all there is.
LEMMA LastOne ==
    ASSUME NEW n \in Nat, NEW first, NEW col, NEW taken, NEW links,
           Chain(n, first, col, taken, links), col[first] = -1
    PROVE  /\ links = {first} /\ taken \cup {first} = 0 .. first
           /\ \A i \in 0 .. n : i > first => col[i] = -1
<1>1. first \in links /\ first \in 0 .. n
    BY ChainFacts
<1>2. Closed(first, col, {first}) /\ {first} \in SUBSET (0 .. n)
    BY <1>1 DEF Closed
<1>3. links \subseteq {first}
    BY <1>2 DEF Chain, Least
<1>4. links = {first}
    BY <1>1, <1>3
<1> QED BY <1>4 DEF Chain, Contiguous

\* The first free place is taken, and its link is the first one now.
LEMMA ChainTakes ==
    ASSUME NEW n \in Nat, NEW first, NEW col, NEW taken, NEW links,
           Chain(n, first, col, taken, links), col[first] # -1,
           NEW new, new = [col EXCEPT ![first] = -1]
    PROVE  Chain(n, col[first], new, taken \cup {first}, links \ {first})
<1> DEFINE next == col[first]
           rest == links \ {first}
<1>1. /\ first \in links /\ first \in 0 .. n /\ first \notin taken
      /\ links \in SUBSET (0 .. n) /\ taken \in SUBSET (0 .. n) /\ taken \cap links = {}
      /\ col \in [0 .. n -> {-1} \cup Nat]
      /\ \A j \in links : col[j] = -1 \/ (col[j] \in links /\ col[j] # first)
    BY ChainFacts
<1>2. /\ new \in [0 .. n -> {-1} \cup Nat] /\ new[first] = -1
      /\ \A j \in 0 .. n : j # first => new[j] = col[j]
    BY <1>1
<1>3. next \in rest
    BY <1>1
<1>4. Closed(next, new, rest)
    BY <1>1, <1>2, <1>3 DEF Closed
<1>5. ASSUME NEW S \in SUBSET (0 .. n), Closed(next, new, S) PROVE rest \subseteq S
    <2>1. Closed(first, col, S \cup {first})
        BY <1>1, <1>2, <1>5 DEF Closed
    <2>2. S \cup {first} \in SUBSET (0 .. n)
        BY <1>1
    <2> QED BY <2>1, <2>2 DEF Chain, Least
<1>6. Least(n, next, new, rest)
    BY <1>1, <1>4, <1>5 DEF Least
<1>7. Once(next, new, rest)
    BY <1>1, <1>2 DEF Once, Chain
<1>8. Contiguous(n, new, taken \cup {first}, rest)
    <2>1. PICK top \in links :
             /\ col[top] = -1 /\ taken \cup links = 0 .. top
             /\ \A i \in 0 .. n : i > top => col[i] = -1
        BY DEF Chain, Contiguous
    <2>2. top \in rest /\ new[top] = -1 /\ (taken \cup {first}) \cup rest = 0 .. top
        BY <1>1, <1>2, <2>1
    <2>3. \A i \in 0 .. n : i > top => new[i] = -1
        BY <1>2, <2>1
    <2>4. (taken \cup {first}) \in SUBSET (0 .. n) /\ (taken \cup {first}) \cap rest = {}
        BY <1>1
    <2> QED BY <2>2, <2>3, <2>4 DEF Contiguous
<1> QED BY <1>2, <1>6, <1>7, <1>8 DEF Chain

\* The first free place is taken and was the only one: a new one begins behind it.
LEMMA ChainGrows ==
    ASSUME NEW n \in Nat, NEW first, NEW col, NEW taken, NEW links,
           Chain(n, first, col, taken, links), col[first] = -1, first < n
    PROVE  Chain(n, first + 1, [col EXCEPT ![first] = -1], taken \cup {first}, {first + 1})
<1> DEFINE next == first + 1
<1>1. /\ first \in 0 .. n /\ col \in [0 .. n -> {-1} \cup Nat]
      /\ taken \in SUBSET (0 .. n) /\ first \in Nat
    BY ChainFacts
<1>2. [col EXCEPT ![first] = -1] = col
    BY <1>1
<1>3. /\ links = {first} /\ taken \cup {first} = 0 .. first
      /\ \A i \in 0 .. n : i > first => col[i] = -1
    BY LastOne
<1>4. next \in 0 .. n /\ next > first /\ col[next] = -1
    BY <1>1, <1>3
<1>5. Least(n, next, col, {next})
    BY <1>4 DEF Least, Closed
<1>6. Once(next, col, {next})
    BY <1>1, <1>4 DEF Once
<1>7. Contiguous(n, col, taken \cup {first}, {next})
    <2>1. (taken \cup {first}) \in SUBSET (0 .. n) /\ next \notin 0 .. first
        BY <1>1
    <2>2. (taken \cup {first}) \cap {next} = {}
        BY <1>3, <2>1
    <2>3. (0 .. first) \cup {next} = 0 .. next
        BY <1>1
    <2>4. \A i \in 0 .. n : i > next => col[i] = -1
        BY <1>1, <1>3
    <2> QED BY <1>3, <1>4, <2>1, <2>2, <2>3, <2>4 DEF Contiguous
<1> QED BY <1>1, <1>2, <1>5, <1>6, <1>7 DEF Chain

\* A new object was destroyed again before it had an id (Adaptor/File.pm:75-76): it
\* leaves a link to the place behind it.
LEMMA ChainLinks ==
    ASSUME NEW n \in Nat, NEW first, NEW col, NEW taken, NEW links,
           Chain(n, first, col, taken, links), col[first] = -1, first < n
    PROVE  Chain(n, first, [col EXCEPT ![first] = first + 1], taken, {first, first + 1})
<1> DEFINE next == first + 1
           new == [col EXCEPT ![first] = next]
<1>1. /\ first \in 0 .. n /\ first \notin taken /\ col \in [0 .. n -> {-1} \cup Nat]
      /\ taken \in SUBSET (0 .. n) /\ first \in Nat
    BY ChainFacts
<1>2. /\ links = {first} /\ taken \cup {first} = 0 .. first
      /\ \A i \in 0 .. n : i > first => col[i] = -1
    BY LastOne
<1>3. next \in 0 .. n /\ next > first /\ next # first /\ next # -1 /\ next \in Nat
    BY <1>1
<1>4. /\ new \in [0 .. n -> {-1} \cup Nat] /\ new[first] = next /\ new[next] = -1
      /\ \A i \in 0 .. n : i > next => new[i] = -1
    <2>1. new \in [0 .. n -> {-1} \cup Nat] /\ new[first] = next
          /\ \A i \in 0 .. n : i # first => new[i] = col[i]
        BY <1>1, <1>3
    <2>2. \A i \in 0 .. n : i > next => i > first /\ i # first
        BY <1>1
    <2> QED BY <1>2, <1>3, <2>1, <2>2
<1> HIDE DEF new, next
<1>5. Least(n, first, new, {first, next})
    BY <1>1, <1>3, <1>4 DEF Least, Closed
<1>6. Once(first, new, {first, next})
    <2>1. first # -1
        BY <1>1
    <2> QED BY <1>3, <1>4, <2>1 DEF Once
<1>7. Contiguous(n, new, taken, {first, next})
    <2>1. next \notin 0 .. first
        BY <1>1, <1>3
    <2>2. taken \cap {first, next} = {}
        BY <1>1, <1>2, <2>1
    <2>3. (0 .. first) \cup {next} = 0 .. next
        BY <1>1 DEF next
    <2>4. taken \cup {first, next} = 0 .. next
        BY <1>2, <2>3
    <2> QED BY <1>1, <1>4, <2>2, <2>4 DEF Contiguous
<1> QED BY <1>4, <1>5, <1>6, <1>7 DEF Chain, new, next

\* A place is given back: it is the first free one and leads to the one before.
LEMMA ChainGivesBack ==
    ASSUME NEW n \in Nat, NEW first, NEW col, NEW taken, NEW links,
           Chain(n, first, col, taken, links), NEW place \in taken
    PROVE  Chain(n, place, [col EXCEPT ![place] = first], taken \ {place}, links \cup {place})
<1> DEFINE new == [col EXCEPT ![place] = first]
<1>1. /\ first \in links /\ first \in 0 .. n /\ first \notin taken
      /\ links \in SUBSET (0 .. n) /\ taken \in SUBSET (0 .. n) /\ taken \cap links = {}
      /\ col \in [0 .. n -> {-1} \cup Nat]
      /\ \A j \in links : col[j] = -1 \/ (col[j] \in links /\ col[j] # first)
    BY ChainFacts
<1>2. place \in 0 .. n /\ place \notin links /\ place # -1 /\ first # -1 /\ place # first
    BY <1>1
<1>3. /\ new \in [0 .. n -> {-1} \cup Nat] /\ new[place] = first
      /\ \A j \in 0 .. n : j # place => new[j] = col[j]
    BY <1>1, <1>2
<1> HIDE DEF new
<1>4. Closed(place, new, links \cup {place})
    BY <1>1, <1>2, <1>3 DEF Closed
<1>5. ASSUME NEW S \in SUBSET (0 .. n), Closed(place, new, S)
      PROVE  links \cup {place} \subseteq S
    <2>1. place \in S /\ first \in S
        BY <1>2, <1>3, <1>5 DEF Closed
    <2>2. Closed(first, col, links \cap S)
        <3> SUFFICES ASSUME NEW j \in links \cap S PROVE col[j] \in (links \cap S) \cup {-1}
            BY <1>1, <2>1 DEF Closed
        <3>1. new[j] = col[j] /\ new[j] \in S \cup {-1}
            BY <1>1, <1>2, <1>3, <1>5 DEF Closed
        <3> QED BY <1>1, <3>1
    <2>3. links \cap S \in SUBSET (0 .. n)
        BY <1>1
    <2>4. links \subseteq links \cap S
        BY <2>2, <2>3 DEF Chain, Least
    <2> QED BY <2>1, <2>4
<1>6. Least(n, place, new, links \cup {place})
    BY <1>1, <1>2, <1>4, <1>5 DEF Least
<1>7. Once(place, new, links \cup {place})
    <2>1. \A j \in links : new[j] = col[j]
        BY <1>1, <1>2, <1>3
    <2>2. \A j \in links \cup {place} : new[j] # place
        BY <1>1, <1>2, <1>3, <2>1
    <2>3. \A j, k \in links : col[j] = col[k] /\ col[j] # -1 => j = k
        BY DEF Chain, Once
    <2>4. \A j, k \in links \cup {place} : new[j] = new[k] /\ new[j] # -1 => j = k
        BY <1>1, <1>2, <1>3, <2>1, <2>3
    <2> QED BY <2>2, <2>4 DEF Once
<1>8. Contiguous(n, new, taken \ {place}, links \cup {place})
    <2>1. PICK top \in links :
             /\ col[top] = -1 /\ taken \cup links = 0 .. top
             /\ \A i \in 0 .. n : i > top => col[i] = -1
        BY DEF Chain, Contiguous
    <2>2. top # place /\ new[top] = -1 /\ (taken \ {place}) \cup (links \cup {place}) = 0 .. top
        BY <1>1, <1>2, <1>3, <2>1
    <2>3. \A i \in 0 .. n : i > top => new[i] = -1
        <3>1. place \in 0 .. top
            BY <2>1
        <3>2. top \in 0 .. n
            BY <1>1
        <3>3. ~(place > top)
            BY <3>1, <3>2
        <3> QED BY <1>3, <2>1, <3>3
    <2>4. (taken \ {place}) \in SUBSET (0 .. n)
          /\ (taken \ {place}) \cap (links \cup {place}) = {}
        BY <1>1
    <2> QED BY <2>2, <2>3, <2>4 DEF Contiguous
<1> QED BY <1>3, <1>6, <1>7, <1>8 DEF Chain, new

\* An object gets its id: no link changes.
LEMMA ChainNamed ==
    ASSUME NEW n \in Nat, NEW first, NEW col, NEW taken, NEW links,
           Chain(n, first, col, taken, links), NEW place \in taken, NEW id \in Nat
    PROVE  Chain(n, first, [col EXCEPT ![place] = id], taken, links)
<1> DEFINE new == [col EXCEPT ![place] = id]
<1>1. /\ first \in links /\ first \in 0 .. n
      /\ links \in SUBSET (0 .. n) /\ taken \in SUBSET (0 .. n) /\ taken \cap links = {}
      /\ col \in [0 .. n -> {-1} \cup Nat]
      /\ \A j \in links : col[j] = -1 \/ (col[j] \in links /\ col[j] # first)
    BY ChainFacts
<1>2. place \in 0 .. n /\ place \notin links
    BY <1>1
<1>3. /\ new \in [0 .. n -> {-1} \cup Nat]
      /\ \A j \in 0 .. n : j # place => new[j] = col[j]
    BY <1>1, <1>2
<1> HIDE DEF new
<1>4. \A j \in links : new[j] = col[j]
    BY <1>1, <1>2, <1>3
<1>5. Closed(first, new, links)
    BY <1>1, <1>4 DEF Closed
<1>6. ASSUME NEW S \in SUBSET (0 .. n), Closed(first, new, S) PROVE links \subseteq S
    <2>1. Closed(first, col, links \cap S)
        <3> SUFFICES ASSUME NEW j \in links \cap S PROVE col[j] \in (links \cap S) \cup {-1}
            BY <1>1, <1>6 DEF Closed
        <3>1. new[j] = col[j] /\ new[j] \in S \cup {-1}
            BY <1>4, <1>6 DEF Closed
        <3> QED BY <1>1, <3>1
    <2>2. links \cap S \in SUBSET (0 .. n)
        BY <1>1
    <2>3. links \subseteq links \cap S
        BY <2>1, <2>2 DEF Chain, Least
    <2> QED BY <2>3
<1>7. Least(n, first, new, links)
    BY <1>1, <1>5, <1>6 DEF Least
<1>8. Once(first, new, links)
    BY <1>4 DEF Chain, Once
<1>9. Contiguous(n, new, taken, links)
    <2>1. PICK top \in links :
             /\ col[top] = -1 /\ taken \cup links = 0 .. top
             /\ \A i \in 0 .. n : i > top => col[i] = -1
        BY DEF Chain, Contiguous
    <2>2. \A i \in 0 .. n : i > top => new[i] = -1
        <3>1. place \in 0 .. top /\ top \in 0 .. n
            BY <1>1, <2>1
        <3>2. ~(place > top)
            BY <3>1
        <3> QED BY <1>3, <2>1, <3>2
    <2> QED BY <1>1, <1>4, <2>1, <2>2 DEF Contiguous
<1> QED BY <1>3, <1>7, <1>8, <1>9 DEF Chain, new
-----------------------------------------------------------------------------
(* Objects                                                                 *)

Employees == 0 .. Places["Employee"]
Departments == 0 .. Places["Department"]
Everything == ({"Employee"} \X Employees) \cup ({"Department"} \X Departments)

\* What is named, and the departments of what is named.
Named == held \cup ObjectStore!Range(all_instances)
Reach(named, d) ==
    named \cup {<<"Department", d[i]>> :
                   i \in {j \in Employees : <<"Employee", j>> \in named /\ d[j] # -1}}
Taken(c) == {i \in 0 .. Places[c] : <<c, i>> \in Reach(Named, dept)}

StoreKinds ==
    /\ DOMAIN free = ObjectStore!Classes /\ DOMAIN column = ObjectStore!Classes
    /\ dept \in [Employees -> {-1} \cup Departments]
    /\ Named \subseteq Everything
    /\ adaptor \in BOOLEAN
    /\ skipped \subseteq DOMAIN all_instances
    /\ time \in Nat /\ object_cnt \in Nat
    /\ disk \subseteq ObjectStore!Classes \X Nat
    /\ \A id \in DOMAIN all_instances : id \in Nat /\ id < time + object_cnt

PlacesChained ==
    \A c \in ObjectStore!Classes :
        \E links : Chain(Places[c], free[c], column[c], Taken(c), links)

IdsOfNamed ==
    \A object \in Reach(Named, dept) :
        LET id == column[object[1]][object[2]]
        IN  {i \in DOMAIN all_instances : all_instances[i] = object} =
                IF id = -1 THEN {} ELSE {id}

NoneLeft == \A i \in Employees : <<"Employee", i>> \notin Reach(Named, dept) => dept[i] = -1

StoreInv == StoreKinds /\ PlacesChained /\ IdsOfNamed /\ NoneLeft

\* The classes and their places.
LEMMA ClassesAre ==
    /\ ObjectStore!Classes = {"Employee", "Department"}
    /\ ObjectStore!undef = -1
    /\ \A c \in ObjectStore!Classes : Places[c] \in Nat /\ ObjectStore!Column(c) = 0 .. Places[c]
    /\ ObjectStore!Column("Employee") = Employees
    /\ ObjectStore!Column("Department") = Departments
    /\ ObjectStore!Epoch \in Nat /\ Places["Employee"] \in Nat /\ Places["Department"] \in Nat
<1>1. Places \in [{"Employee", "Department"} -> Nat]
    BY FiltersBounds DEF ObjectStore!ObjectStoreAssumption, ObjectStore!Classes
<1>2. Places["Employee"] \in Nat /\ Places["Department"] \in Nat
    BY <1>1
<1> QED
    BY <1>1, <1>2 DEF ObjectStore!Classes, ObjectStore!undef, ObjectStore!Column, Employees,
       Departments, ObjectStore!Epoch

\* The objects alive are those within reach.
LEMMA AliveIs ==
    ASSUME NEW references, NEW instances, NEW department
    PROVE  ObjectStore!Alive(references, instances, department) =
               Reach(references \cup ObjectStore!Range(instances), department)
BY ClassesAre DEF ObjectStore!Alive, Reach

LEMMA ObjectsAre == ObjectStore!Objects = Reach(Named, dept)
BY AliveIs DEF ObjectStore!Objects, Named

\* An employee is within reach when it is named, a department when it is named or
\* that of an employee named.
LEMMA Reached ==
    ASSUME NEW named, named \subseteq Everything, NEW d, d \in [Employees -> {-1} \cup Departments]
    PROVE  /\ Reach(named, d) \subseteq Everything
           /\ \A i : <<"Employee", i>> \in Reach(named, d) <=> <<"Employee", i>> \in named
           /\ \A x : <<"Department", x>> \in Reach(named, d) <=>
                 \/ <<"Department", x>> \in named
                 \/ \E i \in Employees : <<"Employee", i>> \in named /\ d[i] # -1 /\ d[i] = x
<1>1. \A o : o \in Reach(named, d) <=>
         \/ o \in named
         \/ \E i \in Employees :
               <<"Employee", i>> \in named /\ d[i] # -1 /\ o = <<"Department", d[i]>>
    BY DEF Reach
<1>2. \A i \in Employees : d[i] # -1 => d[i] \in Departments
    OBVIOUS
<1>3. Reach(named, d) \subseteq Everything
    <2> SUFFICES ASSUME NEW i \in Employees, d[i] # -1
                 PROVE  <<"Department", d[i]>> \in Everything
        BY <1>1
    <2>1. d[i] \in Departments
        BY <1>2
    <2> QED BY <2>1 DEF Everything
<1>4. "Employee" # "Department"
    OBVIOUS
<1> QED BY <1>1, <1>3, <1>4

\* An object is its class and its place.
LEMMA ObjectIs ==
    ASSUME NEW object \in Everything
    PROVE  /\ object = <<object[1], object[2]>>
           /\ \/ object[1] = "Employee" /\ object[2] \in Employees
              \/ object[1] = "Department" /\ object[2] \in Departments
           /\ object[1] \in ObjectStore!Classes /\ object[2] \in 0 .. Places[object[1]]
BY ClassesAre DEF Everything, Employees, Departments

\* StoreInv is more than what is promised of the objects.
LEMMA StoreSafe ==
    ASSUME StoreInv
    PROVE  ObjectStore!ObjectsApart
<1>1. ASSUME NEW c \in ObjectStore!Classes
      PROVE  /\ free[c] \in 0 .. Places[c] /\ column[c] \in [0 .. Places[c] -> {-1} \cup Nat]
             /\ Taken(c) \cap ObjectStore!Linked(c) = {}
             /\ \E top \in ObjectStore!Linked(c) :
                   column[c][top] = -1 /\ Taken(c) \cup ObjectStore!Linked(c) = 0 .. top
    <2>0. Places[c] \in Nat /\ ObjectStore!Column(c) = 0 .. Places[c] /\ ObjectStore!undef = -1
        BY ClassesAre
    <2>1. PICK links : Chain(Places[c], free[c], column[c], Taken(c), links)
        BY DEF StoreInv, PlacesChained
    <2>2. links \in SUBSET (0 .. Places[c]) /\ Closed(free[c], column[c], links)
          /\ \A S \in SUBSET (0 .. Places[c]) : Closed(free[c], column[c], S) => links \subseteq S
        BY <2>1 DEF Chain, Least
    <2>3. ObjectStore!Linked(c) =
             {i \in 0 .. Places[c] :
                \A S \in SUBSET (0 .. Places[c]) : Closed(free[c], column[c], S) => i \in S}
        BY <2>0 DEF ObjectStore!Linked, Closed
    <2>4. ObjectStore!Linked(c) = links
        BY <2>2, <2>3
    <2>5. free[c] \in 0 .. Places[c] /\ column[c] \in [0 .. Places[c] -> {-1} \cup Nat]
        BY <2>0, <2>1, ChainFacts
    <2> QED BY <2>1, <2>4, <2>5 DEF Chain, Contiguous
<1>2. ObjectStore!TypeOK
    <2>1. \A object \in held \cup ObjectStore!Range(all_instances) :
             object[1] \in ObjectStore!Classes /\ object[2] \in ObjectStore!Column(object[1])
        <3> SUFFICES ASSUME NEW object \in Everything
                     PROVE  /\ object[1] \in ObjectStore!Classes
                            /\ object[2] \in ObjectStore!Column(object[1])
            BY DEF StoreInv, StoreKinds, Named
        <3> QED BY ObjectIs, ClassesAre
    <2>2. \A c \in ObjectStore!Classes :
             /\ free[c] \in ObjectStore!Column(c)
             /\ column[c] \in [ObjectStore!Column(c) -> {ObjectStore!undef} \cup Nat]
        BY <1>1, ClassesAre
    <2>3. dept \in [ObjectStore!Column("Employee") ->
                      {ObjectStore!undef} \cup ObjectStore!Column("Department")]
        BY ClassesAre DEF StoreInv, StoreKinds
    <2> QED BY <2>1, <2>2, <2>3 DEF ObjectStore!TypeOK, StoreInv, StoreKinds
<1>3. ObjectStore!PlacesApart
    <2> SUFFICES ASSUME NEW c \in ObjectStore!Classes
                 PROVE  LET taken == {i \in ObjectStore!Column(c) : <<c, i>> \in ObjectStore!Objects}
                        IN  /\ taken \cap ObjectStore!Linked(c) = {}
                            /\ \E top \in ObjectStore!Linked(c) :
                                  /\ column[c][top] = ObjectStore!undef
                                  /\ taken \cup ObjectStore!Linked(c) = 0 .. top
        BY DEF ObjectStore!PlacesApart
    <2>1. {i \in ObjectStore!Column(c) : <<c, i>> \in ObjectStore!Objects} = Taken(c)
        BY ClassesAre, ObjectsAre DEF Taken
    <2> QED BY <1>1, <2>1, ClassesAre
<1>4. ObjectStore!IdsApart
    BY ClassesAre, ObjectsAre DEF ObjectStore!IdsApart, StoreInv, IdsOfNamed
<1>5. ObjectStore!Cleared
    BY ClassesAre, ObjectsAre DEF ObjectStore!Cleared, StoreInv, NoneLeft
<1> QED BY <1>2, <1>3, <1>4, <1>5 DEF ObjectStore!ObjectsApart

\* A program that begins has no object, whatever the time is.
NewStore ==
    /\ free = ObjectStore!Fresh.free /\ column = ObjectStore!Fresh.column
    /\ dept = ObjectStore!Fresh.dept /\ held = {} /\ adaptor = FALSE /\ all_instances = <<>>
    /\ skipped = {} /\ object_cnt = 0 /\ time \in Nat
    /\ disk \subseteq ObjectStore!Classes \X Nat

LEMMA StoreFresh == NewStore => StoreInv
<1> SUFFICES ASSUME NewStore PROVE StoreInv
    OBVIOUS
<1> USE DEF NewStore
<1>1. /\ free = [c \in ObjectStore!Classes |-> 0]
      /\ column = [c \in ObjectStore!Classes |-> [i \in ObjectStore!Column(c) |-> -1]]
      /\ dept = [i \in Employees |-> -1]
    BY ClassesAre DEF ObjectStore!Fresh
<1>2. DOMAIN all_instances = {}
    OBVIOUS
<1>3. Named = {} /\ Reach(Named, dept) = {}
    BY <1>2 DEF Named, ObjectStore!Range, Reach
<1>4. StoreKinds
    BY <1>1, <1>2, <1>3 DEF StoreKinds
<1>5. PlacesChained
    <2> SUFFICES ASSUME NEW c \in ObjectStore!Classes
                 PROVE  Chain(Places[c], free[c], column[c], Taken(c), {0})
        BY DEF PlacesChained
    <2>1. Taken(c) = {} /\ free[c] = 0 /\ column[c] = [i \in 0 .. Places[c] |-> -1]
          /\ Places[c] \in Nat
        BY <1>1, <1>3, ClassesAre DEF Taken
    <2> QED BY <2>1, ChainFresh
<1>6. IdsOfNamed
    BY <1>3 DEF IdsOfNamed
<1>7. NoneLeft
    BY <1>1 DEF NoneLeft
<1> QED BY <1>4, <1>5, <1>6, <1>7 DEF StoreInv

\* What is within reach stays, and so do the objects.
LEMMA SameObjects ==
    ASSUME StoreInv, Reach(Named, dept)' = Reach(Named, dept), Named' \subseteq Everything,
           UNCHANGED <<free, column, dept, all_instances, object_cnt, time>>,
           adaptor' \in BOOLEAN, skipped' \subseteq DOMAIN all_instances,
           disk' \subseteq ObjectStore!Classes \X Nat
    PROVE  StoreInv'
<1>1. StoreKinds'
    BY DEF StoreInv, StoreKinds
<1>2. PlacesChained'
    <2>1. \A c \in ObjectStore!Classes : Taken(c)' = Taken(c)
        BY DEF Taken
    <2> QED BY <2>1 DEF StoreInv, PlacesChained
<1>3. IdsOfNamed'
    BY DEF StoreInv, IdsOfNamed
<1>4. NoneLeft'
    BY DEF StoreInv, NoneLeft
<1> QED BY <1>1, <1>2, <1>3, <1>4 DEF StoreInv

\* A name more for what is within reach brings nothing within reach.
LEMMA NamedAgain ==
    ASSUME NEW named, named \subseteq Everything, NEW d, d \in [Employees -> {-1} \cup Departments],
           NEW more, more \subseteq Reach(named, d),
           \A i : <<"Employee", i>> \in more => <<"Employee", i>> \in named
    PROVE  Reach(named \cup more, d) = Reach(named, d)
BY DEF Reach

\* Records are of objects.
LEMMA RecordsAre ==
    ASSUME StoreInv
    PROVE  ObjectStore!Records \subseteq ObjectStore!Classes \X Nat
<1> SUFFICES ASSUME NEW id \in DOMAIN all_instances
             PROVE  <<all_instances[id][1], id>> \in ObjectStore!Classes \X Nat
    BY DEF ObjectStore!Records, ObjectStore!Pass
<1>1. all_instances[id] \in Everything /\ id \in Nat
    BY DEF StoreInv, StoreKinds, Named, ObjectStore!Range
<1> QED BY <1>1, ObjectIs

LEMMA GetDeptKeeps ==
    ASSUME StoreInv, NEW i \in Employees, ObjectStore!GetDept(i)
    PROVE  StoreInv'
<1>1. /\ <<"Employee", i>> \in held /\ dept[i] # -1
      /\ held' = held \cup {<<"Department", dept[i]>>}
      /\ UNCHANGED <<free, column, dept, all_instances, object_cnt, time, adaptor, skipped, disk>>
    BY ClassesAre DEF ObjectStore!GetDept, ObjectStore!storeVars
<1>2. Named' = Named \cup {<<"Department", dept[i]>>}
    BY <1>1 DEF Named, ObjectStore!Range
<1>3. Named \subseteq Everything /\ dept \in [Employees -> {-1} \cup Departments]
    BY DEF StoreInv, StoreKinds
<1>4. <<"Department", dept[i]>> \in Reach(Named, dept)
    BY <1>1 DEF Reach, Named
<1>5. \A x : <<"Employee", x>> \in {<<"Department", dept[i]>>} => <<"Employee", x>> \in Named
    OBVIOUS
<1>6. Reach(Named, dept)' = Reach(Named', dept)
    BY <1>1 DEF Reach
<1>7. Reach(Named, dept)' = Reach(Named, dept)
    BY <1>2, <1>3, <1>4, <1>5, <1>6, NamedAgain
<1>8. Named' \subseteq Everything
    BY <1>2, <1>3, <1>4, Reached
<1> QED BY <1>1, <1>7, <1>8, SameObjects DEF StoreInv, StoreKinds

LEMMA RetrieveKeeps ==
    ASSUME StoreInv, NEW c \in ObjectStore!Classes, ObjectStore!retrieve_where(c)
    PROVE  StoreInv'
<1>1. PICK retval \in SUBSET ObjectStore!Of(c, ObjectStore!Pass) :
         held' = held \cup {all_instances[id] : id \in retval}
    BY DEF ObjectStore!retrieve_where
<1>2. /\ UNCHANGED <<free, column, dept, all_instances, object_cnt, time, adaptor, disk>>
      /\ skipped' = {}
    BY DEF ObjectStore!retrieve_where
<1>3. {all_instances[id] : id \in retval} \subseteq ObjectStore!Range(all_instances)
    BY DEF ObjectStore!Range, ObjectStore!Of, ObjectStore!Pass
<1>4. Named' = Named
    BY <1>1, <1>2, <1>3 DEF Named, ObjectStore!Range
<1>5. Reach(Named, dept)' = Reach(Named, dept)
    BY <1>2, <1>4 DEF Reach
<1> QED BY <1>2, <1>4, <1>5, SameObjects DEF StoreInv, StoreKinds

LEMMA IllFormedKeeps ==
    ASSUME StoreInv, NEW c \in ObjectStore!Classes, ObjectStore!IllFormed(c)
    PROVE  StoreInv'
<1>1. UNCHANGED <<free, column, dept, held, all_instances, object_cnt, time, adaptor, disk>>
    BY DEF ObjectStore!IllFormed, ObjectStore!objectVars
<1>2. skipped' \subseteq DOMAIN all_instances
    <2>1. skipped \subseteq DOMAIN all_instances
        BY DEF StoreInv, StoreKinds
    <2>2. CASE ObjectStore!Of(c, ObjectStore!Pass) = {}
        BY <2>2 DEF ObjectStore!IllFormed
    <2>3. CASE ObjectStore!Of(c, ObjectStore!Pass) # {}
        <3>1. PICK first \in ObjectStore!Of(c, ObjectStore!Pass),
                   before \in SUBSET (ObjectStore!Pass \ ObjectStore!Of(c, ObjectStore!Pass)) :
                 skipped' = skipped \cup {first} \cup before
            BY <2>3 DEF ObjectStore!IllFormed
        <3> QED BY <2>1, <3>1 DEF ObjectStore!Of, ObjectStore!Pass
    <2> QED BY <2>2, <2>3
<1>3. Named' = Named /\ Reach(Named, dept)' = Reach(Named, dept)
    BY <1>1 DEF Named, Reach, ObjectStore!Range
<1> QED BY <1>1, <1>2, <1>3, SameObjects DEF StoreInv, StoreKinds

LEMMA FlushKeeps ==
    ASSUME StoreInv, ObjectStore!flush
    PROVE  StoreInv'
<1>1. /\ UNCHANGED <<free, column, dept, held, all_instances, object_cnt, time, adaptor>>
      /\ disk' = ObjectStore!Records /\ skipped' = {}
    BY DEF ObjectStore!flush, ObjectStore!objectVars
<1>2. Named' = Named /\ Reach(Named, dept)' = Reach(Named, dept)
    BY <1>1 DEF Named, Reach, ObjectStore!Range
<1> QED BY <1>1, <1>2, RecordsAre, SameObjects DEF StoreInv, StoreKinds

LEMMA RestartKeeps ==
    ASSUME StoreInv, ObjectStore!Restart
    PROVE  StoreInv'
<1>1. disk' \subseteq ObjectStore!Classes \X Nat
    BY RecordsAre DEF ObjectStore!Restart, StoreInv, StoreKinds
<1>2. time' \in Nat
    BY DEF ObjectStore!Restart, StoreInv, StoreKinds
<1>3. /\ free' = ObjectStore!Fresh.free /\ column' = ObjectStore!Fresh.column
      /\ dept' = ObjectStore!Fresh.dept /\ held' = {} /\ adaptor' = FALSE
      /\ all_instances' = <<>> /\ skipped' = {} /\ object_cnt' = 0
    BY DEF ObjectStore!Restart
<1>4. NewStore'
    BY <1>1, <1>2, <1>3 DEF NewStore, ObjectStore!Fresh
<1>5. NewStore' => StoreInv'
    BY StoreFresh, PTL
<1> QED BY <1>4, <1>5

\* The types in StoreInv, once more.
LEMMA Kinds ==
    ASSUME StoreInv
    PROVE  /\ Named \subseteq Everything /\ dept \in [Employees -> {-1} \cup Departments]
           /\ Reach(Named, dept) \subseteq Everything
           /\ \A c \in ObjectStore!Classes :
                 /\ Taken(c) \in SUBSET (0 .. Places[c])
                 /\ free[c] \in 0 .. Places[c] /\ free[c] \notin Taken(c)
                 /\ column[c] \in [0 .. Places[c] -> {-1} \cup Nat]
                 /\ \E links : Chain(Places[c], free[c], column[c], Taken(c), links)
<1>1. Named \subseteq Everything /\ dept \in [Employees -> {-1} \cup Departments]
    BY DEF StoreInv, StoreKinds
<1>2. ASSUME NEW c \in ObjectStore!Classes
      PROVE  /\ Taken(c) \in SUBSET (0 .. Places[c])
             /\ free[c] \in 0 .. Places[c] /\ free[c] \notin Taken(c)
             /\ column[c] \in [0 .. Places[c] -> {-1} \cup Nat]
             /\ \E links : Chain(Places[c], free[c], column[c], Taken(c), links)
    <2>1. PICK links : Chain(Places[c], free[c], column[c], Taken(c), links)
        BY DEF StoreInv, PlacesChained
    <2>2. Places[c] \in Nat
        BY ClassesAre
    <2> QED BY <2>1, <2>2, ChainFacts
<1> QED BY <1>1, <1>2, Reached

\* Where the attributes of an object are is where no other object's are.
LEMMA Elsewhere ==
    ASSUME StoreInv, NEW c \in ObjectStore!Classes, NEW p \in 0 .. Places[c],
           NEW value, NEW after, after = [column EXCEPT ![c][p] = value],
           NEW object \in Everything, object # <<c, p>>
    PROVE  after[object[1]][object[2]] = column[object[1]][object[2]]
<1>1. object = <<object[1], object[2]>> /\ object[1] \in ObjectStore!Classes
      /\ object[2] \in 0 .. Places[object[1]]
    BY ObjectIs
<1>2. DOMAIN column = ObjectStore!Classes
    BY DEF StoreInv, StoreKinds
<1>3. column[c] \in [0 .. Places[c] -> {-1} \cup Nat]
      /\ column[object[1]] \in [0 .. Places[object[1]] -> {-1} \cup Nat]
    BY <1>1, Kinds
<1>4. CASE object[1] # c
    BY <1>1, <1>2, <1>3, <1>4
<1>5. CASE object[1] = c /\ object[2] # p
    BY <1>1, <1>2, <1>3, <1>5
<1> QED BY <1>1, <1>4, <1>5

LEMMA NewKeeps ==
    ASSUME StoreInv, NEW c \in ObjectStore!Classes, ObjectStore!new(c)
    PROVE  StoreInv'
<1> DEFINE p == free[c]
           next == column[c][p]
           o == <<c, p>>
<1>1. /\ p < Places[c]
      /\ free' = [free EXCEPT ![c] = IF next # -1 THEN next ELSE p + 1]
      /\ column' = [column EXCEPT ![c][p] = -1]
      /\ held' = held \cup {o}
      /\ UNCHANGED <<dept, adaptor, all_instances, skipped, object_cnt, time, disk>>
    BY ClassesAre DEF ObjectStore!new, ObjectStore!storeVars
<1>2. /\ Named \subseteq Everything /\ dept \in [Employees -> {-1} \cup Departments]
      /\ Reach(Named, dept) \subseteq Everything
      /\ p \in 0 .. Places[c] /\ p \notin Taken(c) /\ Places[c] \in Nat
      /\ DOMAIN free = ObjectStore!Classes /\ DOMAIN column = ObjectStore!Classes
    BY Kinds, ClassesAre DEF StoreInv, StoreKinds
<1>3. o \notin Reach(Named, dept) /\ o \notin Named /\ o \in Everything
    <2>1. o \notin Reach(Named, dept)
        BY <1>2 DEF Taken
    <2>2. o \in Everything
        BY <1>2, ClassesAre DEF Everything, Employees, Departments
    <2> QED BY <2>1, <2>2 DEF Reach
<1>4. Named' = Named \cup {o}
    BY <1>1 DEF Named, ObjectStore!Range
<1> DEFINE R == Reach(Named, dept)
<1>5. Reach(Named, dept)' = R \cup {o}
    <2>1. Reach(Named, dept)' = Reach(Named \cup {o}, dept)
        BY <1>1, <1>4 DEF Reach
    <2>2. \A i \in Employees : <<"Employee", i>> = o => dept[i] = -1
        BY <1>3 DEF StoreInv, NoneLeft
    <2>3. Reach(Named \cup {o}, dept) = R \cup {o}
        BY <2>2 DEF Reach
    <2> QED BY <2>1, <2>3
<1>6. StoreKinds'
    <2>1. Named' \subseteq Everything
        BY <1>2, <1>3, <1>4
    <2> QED BY <1>1, <1>2, <2>1 DEF StoreInv, StoreKinds
<1>7. PlacesChained'
    <2> SUFFICES ASSUME NEW k \in ObjectStore!Classes
                 PROVE  \E links : Chain(Places[k], free'[k], column'[k], Taken(k)', links)
        BY DEF PlacesChained
    <2>1. PICK links : Chain(Places[k], free[k], column[k], Taken(k), links)
        BY Kinds
    <2>2. CASE k # c
        <3>1. Taken(k)' = Taken(k)
            BY <1>5, <2>2 DEF Taken
        <3>2. free'[k] = free[k] /\ column'[k] = column[k]
            BY <1>1, <1>2, <2>2
        <3> QED BY <2>1, <3>1, <3>2
    <2>3. CASE k = c
        <3>1. Taken(c)' = Taken(c) \cup {p}
            BY <1>2, <1>5 DEF Taken
        <3>2. column'[c] = [column[c] EXCEPT ![p] = -1]
              /\ free'[c] = IF next # -1 THEN next ELSE p + 1
            BY <1>1, <1>2
        <3> DEFINE col == column[c]
        <3>3. Chain(Places[c], p, col, Taken(c), links)
            BY <2>1, <2>3
        <3>4. CASE next # -1
            <4>1. Chain(Places[c], col[p], [col EXCEPT ![p] = -1], Taken(c) \cup {p}, links \ {p})
                BY <1>2, <3>3, <3>4, ChainTakes
            <4> QED BY <2>3, <3>1, <3>2, <3>4, <4>1
        <3>5. CASE next = -1
            <4>1. Chain(Places[c], p + 1, [col EXCEPT ![p] = -1], Taken(c) \cup {p}, {p + 1})
                BY <1>1, <1>2, <3>3, <3>5, ChainGrows
            <4> QED BY <2>3, <3>1, <3>2, <3>5, <4>1
        <3> QED BY <3>4, <3>5
    <2> QED BY <2>2, <2>3
<1>8. IdsOfNamed'
    <2> SUFFICES ASSUME NEW object \in R \cup {o}
                 PROVE  {i \in DOMAIN all_instances : all_instances[i] = object} =
                            IF column'[object[1]][object[2]] = -1 THEN {}
                            ELSE {column'[object[1]][object[2]]}
        BY <1>1, <1>5 DEF IdsOfNamed
    <2>1. CASE object = o
        <3>1. column'[c][p] = -1
            <4>1. column[c] \in [0 .. Places[c] -> {-1} \cup Nat]
                BY Kinds
            <4> QED BY <1>1, <1>2, <4>1
        <3>2. {i \in DOMAIN all_instances : all_instances[i] = o} = {}
            BY <1>3 DEF Named, ObjectStore!Range
        <3> QED BY <2>1, <3>1, <3>2
    <2>2. CASE object \in R /\ object # o
        <3>1. column'[object[1]][object[2]] = column[object[1]][object[2]]
            <4>1. column' = [column EXCEPT ![c][p] = -1] /\ p \in 0 .. Places[c]
                BY <1>1, <1>2
            <4>2. object \in Everything /\ object # <<c, p>>
                BY <1>2, <2>2
            <4> HIDE DEF p, o, R
            <4> QED BY <4>1, <4>2, Elsewhere
        <3> QED BY <2>2, <3>1 DEF StoreInv, IdsOfNamed
    <2> QED BY <2>1, <2>2
<1>9. NoneLeft'
    BY <1>1, <1>5 DEF StoreInv, NoneLeft
<1> QED BY <1>6, <1>7, <1>8, <1>9 DEF StoreInv

LEMMA LoadAllKeeps ==
    ASSUME StoreInv, ObjectStore!load_all
    PROVE  StoreInv'
<1>1. /\ adaptor' = TRUE
      /\ UNCHANGED <<free, dept, held, all_instances, skipped, object_cnt, time, disk>>
    BY DEF ObjectStore!load_all
<1>2. Named' = Named /\ Reach(Named, dept)' = Reach(Named, dept)
    BY <1>1 DEF Named, Reach, ObjectStore!Range
<1>3. CASE column' = column
    <2>1. skipped' \subseteq DOMAIN all_instances /\ adaptor' \in BOOLEAN
        BY <1>1 DEF StoreInv, StoreKinds
    <2>2. Named' \subseteq Everything /\ disk' \subseteq ObjectStore!Classes \X Nat
        BY <1>1, <1>2 DEF StoreInv, StoreKinds
    <2> QED BY <1>1, <1>2, <1>3, <2>1, <2>2, SameObjects
<1>4. CASE column' # column
    <2>1. PICK record \in disk :
             LET c == record[1]
             IN  /\ free[c] < Places[c] /\ column[c][free[c]] = -1
                 /\ column' = [column EXCEPT ![c][free[c]] = free[c] + 1]
        BY <1>4, ClassesAre DEF ObjectStore!load_all
    <2> DEFINE c == record[1]
               p == free[c]
    <2>2. c \in ObjectStore!Classes
        BY DEF StoreInv, StoreKinds
    <2>3. /\ p < Places[c] /\ column[c][p] = -1 /\ column' = [column EXCEPT ![c][p] = p + 1]
        BY <2>1
    <2> HIDE DEF c
    <2>4. /\ p \in 0 .. Places[c] /\ p \notin Taken(c) /\ Places[c] \in Nat
          /\ DOMAIN column = ObjectStore!Classes
        BY <2>2, Kinds, ClassesAre DEF StoreInv, StoreKinds
    <2>5. StoreKinds'
        <3>1. DOMAIN column' = ObjectStore!Classes
            BY <2>3, <2>4
        <3> QED BY <1>1, <1>2, <3>1 DEF StoreInv, StoreKinds
    <2>6. PlacesChained'
        <3> SUFFICES ASSUME NEW k \in ObjectStore!Classes
                     PROVE  \E links : Chain(Places[k], free'[k], column'[k], Taken(k)', links)
            BY DEF PlacesChained
        <3>1. PICK links : Chain(Places[k], free[k], column[k], Taken(k), links)
            BY Kinds
        <3>2. Taken(k)' = Taken(k) /\ free'[k] = free[k]
            BY <1>1, <1>2 DEF Taken
        <3>3. CASE k # c
            <4>1. column'[k] = column[k]
                BY <2>3, <2>4, <3>3
            <4> QED BY <3>1, <3>2, <4>1
        <3>4. CASE k = c
            <4> DEFINE col == column[c]
            <4>1. column'[c] = [col EXCEPT ![p] = p + 1]
                BY <2>2, <2>3, <2>4
            <4>2. Chain(Places[c], p, col, Taken(c), links)
                BY <3>1, <3>4
            <4>3. Chain(Places[c], p, [col EXCEPT ![p] = p + 1], Taken(c), {p, p + 1})
                BY <2>3, <2>4, <4>2, ChainLinks
            <4> QED BY <3>2, <3>4, <4>1, <4>3
        <3> QED BY <3>3, <3>4
    <2>7. IdsOfNamed'
        <3> SUFFICES ASSUME NEW object \in Reach(Named, dept)
                     PROVE  {i \in DOMAIN all_instances : all_instances[i] = object} =
                                IF column'[object[1]][object[2]] = -1 THEN {}
                                ELSE {column'[object[1]][object[2]]}
            BY <1>1, <1>2 DEF IdsOfNamed
        <3>1. object \in Everything /\ object # <<c, p>>
            BY <2>4, Kinds DEF Taken
        <3>2. column'[object[1]][object[2]] = column[object[1]][object[2]]
            <4> DEFINE v == p + 1
            <4>1. column' = [column EXCEPT ![c][p] = v] /\ p \in 0 .. Places[c]
                BY <2>3, <2>4
            <4> HIDE DEF v, p
            <4> QED BY <2>2, <3>1, <4>1, Elsewhere
        <3> QED BY <3>2 DEF StoreInv, IdsOfNamed
    <2>8. NoneLeft'
        BY <1>1, <1>2 DEF StoreInv, NoneLeft
    <2> QED BY <2>5, <2>6, <2>7, <2>8 DEF StoreInv
<1> QED BY <1>3, <1>4

\* Whose department does not matter.
LEMMA SameReach ==
    ASSUME NEW named, NEW d, NEW e,
           \A j \in Employees : <<"Employee", j>> \in named => d[j] = e[j]
    PROVE  Reach(named, d) = Reach(named, e)
<1>1. ASSUME NEW f, NEW o
      PROVE  o \in Reach(named, f) <=>
                \/ o \in named
                \/ \E i \in Employees :
                      <<"Employee", i>> \in named /\ f[i] # -1 /\ o = <<"Department", f[i]>>
    BY DEF Reach
<1>2. ASSUME NEW o PROVE o \in Reach(named, d) <=> o \in Reach(named, e)
    <2>1. o \in Reach(named, d) <=>
            \/ o \in named
            \/ \E i \in Employees :
                  <<"Employee", i>> \in named /\ d[i] # -1 /\ o = <<"Department", d[i]>>
        BY <1>1
    <2>2. o \in Reach(named, e) <=>
            \/ o \in named
            \/ \E i \in Employees :
                  <<"Employee", i>> \in named /\ e[i] # -1 /\ o = <<"Department", e[i]>>
        BY <1>1
    <2> QED BY <2>1, <2>2
<1> QED BY <1>2

AnyOf(S) == CHOOSE i \in S : TRUE

\* What is destroyed gives its place back: of either class there is one, at most,
\* and what is left has what it had.
LEMMA Destroys ==
    ASSUME StoreInv,
           NEW references, NEW department, department \in [Employees -> {-1} \cup Departments],
           references \cup ObjectStore!Range(all_instances) \subseteq Everything,
           Reach(references \cup ObjectStore!Range(all_instances), department)
               \subseteq Reach(Named, dept),
           \A i \in Employees : <<"Employee", i>> \notin Reach(Named, dept) => department[i] = -1,
           \A c \in ObjectStore!Classes : \E last :
               \A x : /\ <<c, x>> \in Reach(Named, dept)
                      /\ <<c, x>> \notin Reach(references \cup ObjectStore!Range(all_instances), department)
                      => x = last,
           ObjectStore!DESTROY(references, all_instances, department, column),
           UNCHANGED <<adaptor, skipped, object_cnt, time, disk>>
    PROVE  StoreInv'
<1> DEFINE named == references \cup ObjectStore!Range(all_instances)
           R == Reach(Named, dept)
           alive == Reach(named, department)
           returned(c) == {i \in 0 .. Places[c] : <<c, i>> \in R /\ <<c, i>> \notin alive}
<1>1. /\ held' = references /\ all_instances' = all_instances
      /\ dept' = [i \in DOMAIN dept |-> IF i \in returned("Employee") THEN -1 ELSE department[i]]
      /\ column' = [c \in ObjectStore!Classes |->
                      [i \in ObjectStore!Column(c) |->
                          IF i \in returned(c) THEN free[c] ELSE column[c][i]]]
      /\ free' = [c \in ObjectStore!Classes |->
                    IF returned(c) = {} THEN free[c] ELSE AnyOf(returned(c))]
    <2> DEFINE gone == ObjectStore!Objects \ ObjectStore!Alive(references, all_instances, department)
               given(c) == {i \in ObjectStore!Column(c) : <<c, i>> \in gone}
    <2>1. /\ held' = references /\ all_instances' = all_instances
          /\ dept' = [i \in DOMAIN dept |->
                        IF i \in given("Employee") THEN ObjectStore!undef ELSE department[i]]
          /\ column' = [c \in ObjectStore!Classes |->
                          [i \in ObjectStore!Column(c) |->
                              IF i \in given(c) THEN free[c] ELSE column[c][i]]]
          /\ free' = [c \in ObjectStore!Classes |->
                        IF given(c) = {} THEN free[c] ELSE AnyOf(given(c))]
        BY DEF ObjectStore!DESTROY, AnyOf
    <2>2. \A c \in ObjectStore!Classes : given(c) = returned(c)
        <3>1. gone = R \ alive
            BY AliveIs, ObjectsAre
        <3> HIDE DEF gone, R, alive
        <3> QED BY <3>1, ClassesAre
    <2>3. "Employee" \in ObjectStore!Classes /\ ObjectStore!undef = -1
        BY ClassesAre
    <2> HIDE DEF given, returned
    <2>4. dept' = [i \in DOMAIN dept |-> IF i \in returned("Employee") THEN -1 ELSE department[i]]
        <3>1. given("Employee") = returned("Employee")
            BY <2>2, <2>3
        <3> QED BY <2>1, <2>3, <3>1
    <2>5. column' = [c \in ObjectStore!Classes |->
                      [i \in ObjectStore!Column(c) |->
                          IF i \in returned(c) THEN free[c] ELSE column[c][i]]]
        BY <2>1, <2>2
    <2>6. free' = [c \in ObjectStore!Classes |->
                    IF returned(c) = {} THEN free[c] ELSE AnyOf(returned(c))]
        BY <2>1, <2>2
    <2> QED BY <2>1, <2>4, <2>5, <2>6
<1>2. /\ Named \subseteq Everything /\ dept \in [Employees -> {-1} \cup Departments]
      /\ R \subseteq Everything /\ alive \subseteq R
    BY Kinds
<1>3. Named' = named
    BY <1>1 DEF Named, ObjectStore!Range
<1>4. /\ dept' \in [Employees -> {-1} \cup Departments]
      /\ \A i \in Employees : dept'[i] = IF i \in returned("Employee") THEN -1 ELSE department[i]
    BY <1>1, <1>2
<1>5. Reach(Named, dept)' = alive
    <2>1. \A j \in Employees : <<"Employee", j>> \in named => dept'[j] = department[j]
        <3> SUFFICES ASSUME NEW j \in Employees, <<"Employee", j>> \in named
                     PROVE  dept'[j] = department[j]
            OBVIOUS
        <3>1. <<"Employee", j>> \in alive
            BY DEF Reach
        <3>2. j \notin returned("Employee")
            BY <3>1
        <3> HIDE DEF returned
        <3> QED BY <1>4, <3>2
    <2>2. Reach(Named, dept)' = Reach(named, dept')
        BY <1>3 DEF Reach
    <2> HIDE DEF named, returned
    <2>3. Reach(named, dept') = Reach(named, department)
        BY <2>1, SameReach
    <2> QED BY <2>2, <2>3
<1> HIDE DEF named, R, alive, returned
<1>6. StoreKinds'
    <2>1. DOMAIN free' = ObjectStore!Classes /\ DOMAIN column' = ObjectStore!Classes
        BY <1>1
    <2>2. Named' \subseteq Everything
        BY <1>3 DEF named
    <2> QED BY <1>1, <1>4, <2>1, <2>2 DEF StoreInv, StoreKinds
<1>7. PlacesChained'
    <2> SUFFICES ASSUME NEW c \in ObjectStore!Classes
                 PROVE  \E links : Chain(Places[c], free'[c], column'[c], Taken(c)', links)
        BY DEF PlacesChained
    <2>1. PICK links : Chain(Places[c], free[c], column[c], Taken(c), links)
        BY Kinds
    <2>2. /\ Places[c] \in Nat /\ ObjectStore!Column(c) = 0 .. Places[c]
          /\ column[c] \in [0 .. Places[c] -> {-1} \cup Nat]
        BY ClassesAre, Kinds
    <2>3. Taken(c)' = Taken(c) \ returned(c) /\ returned(c) \subseteq Taken(c)
        BY <1>2, <1>5 DEF Taken, returned, R
    <2>4. column'[c] = [i \in 0 .. Places[c] |-> IF i \in returned(c) THEN free[c] ELSE column[c][i]]
        BY <1>1, <2>2
    <2>5. CASE returned(c) = {}
        <3>1. column'[c] = column[c]
            BY <2>2, <2>4, <2>5
        <3>2. free'[c] = free[c]
            BY <1>1, <2>5
        <3>3. Taken(c)' = Taken(c)
            BY <2>3, <2>5
        <3> QED BY <2>1, <3>1, <3>2, <3>3
    <2>6. CASE returned(c) # {}
        <3>1. PICK last : \A x \in returned(c) : x = last
            <4>1. PICK last : \A x : <<c, x>> \in R /\ <<c, x>> \notin alive => x = last
                BY DEF R, alive, named
            <4> QED BY <4>1 DEF returned
        <3>2. returned(c) = {last}
            BY <2>6, <3>1
        <3>3. free'[c] = last
            <4>1. free'[c] = AnyOf(returned(c))
                BY <1>1, <2>6
            <4>2. AnyOf(returned(c)) \in returned(c)
                BY <2>6 DEF AnyOf
            <4> QED BY <3>1, <4>1, <4>2
        <3> DEFINE col == column[c]
        <3>4. column'[c] = [col EXCEPT ![last] = free[c]]
            BY <2>2, <2>4, <3>2
        <3>5. last \in Taken(c) /\ Taken(c)' = Taken(c) \ {last}
            BY <2>3, <3>2
        <3>6. Chain(Places[c], last, [col EXCEPT ![last] = free[c]], Taken(c) \ {last}, links \cup {last})
            BY <2>1, <2>2, <3>5, ChainGivesBack
        <3> QED BY <3>3, <3>4, <3>5, <3>6
    <2> QED BY <2>5, <2>6
<1>8. IdsOfNamed'
    <2> SUFFICES ASSUME NEW object \in alive
                 PROVE  {i \in DOMAIN all_instances : all_instances[i] = object} =
                            IF column'[object[1]][object[2]] = -1 THEN {}
                            ELSE {column'[object[1]][object[2]]}
        BY <1>1, <1>5 DEF IdsOfNamed
    <2>1. /\ object = <<object[1], object[2]>> /\ object[1] \in ObjectStore!Classes
          /\ object[2] \in 0 .. Places[object[1]]
        BY <1>2, ObjectIs
    <2>2. object[2] \notin returned(object[1])
        BY <2>1 DEF returned
    <2>3. column'[object[1]][object[2]] = column[object[1]][object[2]]
        BY <1>1, <2>1, <2>2, ClassesAre
    <2>4. object \in Reach(Named, dept)
        BY <1>2 DEF R
    <2> QED BY <2>3, <2>4 DEF StoreInv, IdsOfNamed
<1>9. NoneLeft'
    <2> SUFFICES ASSUME NEW i \in Employees, <<"Employee", i>> \notin alive PROVE dept'[i] = -1
        BY <1>5 DEF NoneLeft
    <2>1. CASE <<"Employee", i>> \in R
        <3>1. i \in returned("Employee")
            BY <2>1, ClassesAre DEF returned, Employees
        <3> QED BY <1>4, <3>1
    <2>2. CASE <<"Employee", i>> \notin R
        <3>1. department[i] = -1
            BY <2>2 DEF R
        <3> QED BY <1>4, <3>1
    <2> QED BY <2>1, <2>2
<1> QED BY <1>6, <1>7, <1>8, <1>9 DEF StoreInv

\* Of a class there is at most one object that only this one name held: itself, or
\* its department.
LEMMA DropKeeps ==
    ASSUME StoreInv, NEW object \in held, ObjectStore!Drop(object)
    PROVE  StoreInv'
<1> DEFINE named == (held \ {object}) \cup ObjectStore!Range(all_instances)
           R == Reach(Named, dept)
           alive == Reach(named, dept)
<1>1. /\ Named \subseteq Everything /\ dept \in [Employees -> {-1} \cup Departments]
      /\ object \in Everything
    BY Kinds DEF Named
<1>2. named \subseteq Named /\ Named \subseteq named \cup {object}
    BY DEF Named
<1>3. named \subseteq Everything
    BY <1>1, <1>2
<1>4. alive \subseteq R
    BY <1>2 DEF Reach
<1>5. \A i : <<"Employee", i>> \in R /\ <<"Employee", i>> \notin alive => <<"Employee", i>> = object
    BY <1>1, <1>2, <1>3, Reached
<1>6. \A x : <<"Department", x>> \in R /\ <<"Department", x>> \notin alive =>
         \/ <<"Department", x>> = object
         \/ \E i \in Employees : <<"Employee", i>> = object /\ dept[i] = x
    <2> SUFFICES ASSUME NEW x, <<"Department", x>> \in R, <<"Department", x>> \notin alive,
                        <<"Department", x>> # object
                 PROVE  \E i \in Employees : <<"Employee", i>> = object /\ dept[i] = x
        OBVIOUS
    <2> HIDE DEF named
    <2>1. <<"Department", x>> \notin Named
        BY <1>1, <1>2, <1>3, Reached
    <2>2. PICK i \in Employees : <<"Employee", i>> \in Named /\ dept[i] # -1 /\ dept[i] = x
        BY <1>1, <2>1, Reached
    <2>3. <<"Employee", i>> \notin named
        BY <1>1, <1>3, <2>2, Reached
    <2> QED BY <1>2, <2>2, <2>3
<1>7. \A c \in ObjectStore!Classes : \E last :
         \A x : <<c, x>> \in R /\ <<c, x>> \notin alive => x = last
    <2> HIDE DEF R, alive
    <2>1. \E last : \A x : <<"Employee", x>> \in R /\ <<"Employee", x>> \notin alive => x = last
        <3> WITNESS object[2]
        <3> QED BY <1>5
    <2>2. \E last : \A x : <<"Department", x>> \in R /\ <<"Department", x>> \notin alive => x = last
        <3>1. CASE object[1] = "Department"
            <4> WITNESS object[2]
            <4> QED BY <1>6, <3>1
        <3>2. CASE object[1] # "Department"
            <4> WITNESS dept[object[2]]
            <4> QED BY <1>6, <3>2
        <3> QED BY <3>1, <3>2
    <2> QED BY <2>1, <2>2, ClassesAre
<1>8. ObjectStore!DESTROY(held \ {object}, all_instances, dept, column)
      /\ UNCHANGED <<adaptor, skipped, object_cnt, time, disk>>
    BY DEF ObjectStore!Drop
<1>9. \A i \in Employees : <<"Employee", i>> \notin R => dept[i] = -1
    BY DEF StoreInv, NoneLeft
<1> QED BY <1>1, <1>3, <1>4, <1>7, <1>8, <1>9, Destroys

LEMMA SetDeptKeeps ==
    ASSUME StoreInv, NEW i \in Employees, NEW d \in {-1} \cup Departments,
           ObjectStore!SetDept(i, d)
    PROVE  StoreInv'
<1> DEFINE department == [dept EXCEPT ![i] = d]
           named == held \cup ObjectStore!Range(all_instances)
           R == Reach(Named, dept)
           alive == Reach(named, department)
<1>1. /\ <<"Employee", i>> \in held /\ (d # -1 => <<"Department", d>> \in held)
      /\ ObjectStore!DESTROY(held, all_instances, department, column)
      /\ UNCHANGED <<adaptor, skipped, object_cnt, time, disk>>
    BY ClassesAre DEF ObjectStore!SetDept
<1>2. Named \subseteq Everything /\ dept \in [Employees -> {-1} \cup Departments] /\ named = Named
    BY Kinds DEF Named
<1>3. department \in [Employees -> {-1} \cup Departments] /\ department[i] = d
      /\ \A j \in Employees : j # i => department[j] = dept[j]
    BY <1>2
<1> HIDE DEF department, named
<1>4. alive \subseteq R
    <2> SUFFICES ASSUME NEW j \in Employees, <<"Employee", j>> \in Named, department[j] # -1
                 PROVE  <<"Department", department[j]>> \in R
        BY <1>2 DEF Reach
    <2>1. CASE j = i
        BY <1>1, <1>3, <2>1 DEF Reach, Named
    <2>2. CASE j # i
        BY <1>3, <2>2 DEF Reach
    <2> QED BY <2>1, <2>2
<1>5. \A x : <<"Employee", x>> \in R => <<"Employee", x>> \in alive
    BY <1>2, <1>3, Reached
<1>6. \A x : <<"Department", x>> \in R /\ <<"Department", x>> \notin alive => x = dept[i]
    <2> SUFFICES ASSUME NEW x, <<"Department", x>> \in R, <<"Department", x>> \notin alive
                 PROVE  x = dept[i]
        OBVIOUS
    <2>1. <<"Department", x>> \notin Named
        BY <1>2, <1>3, Reached
    <2>2. PICK j \in Employees : <<"Employee", j>> \in Named /\ dept[j] # -1 /\ dept[j] = x
        BY <1>2, <2>1, Reached
    <2>3. department[j] # x
        BY <1>2, <1>3, <2>2, Reached
    <2> QED BY <1>3, <2>2, <2>3
<1>7. \A c \in ObjectStore!Classes : \E last :
         \A x : <<c, x>> \in R /\ <<c, x>> \notin alive => x = last
    <2> HIDE DEF R, alive
    <2> QED BY <1>5, <1>6, ClassesAre
<1>8. \A j \in Employees : <<"Employee", j>> \notin R => department[j] = -1
    <2> SUFFICES ASSUME NEW j \in Employees, <<"Employee", j>> \notin R
                 PROVE  department[j] = -1
        OBVIOUS
    <2>1. j # i
        BY <1>1 DEF Reach, Named
    <2> QED BY <1>3, <2>1 DEF StoreInv, NoneLeft
<1>9. named \subseteq Everything
    BY <1>2
<1> QED BY <1>1, <1>3, <1>4, <1>7, <1>8, <1>9, Destroys DEF named

\* What is stored has a place and gets an id that nothing else has.
LEMMA StoreKeeps ==
    ASSUME StoreInv, NEW object \in held,
           NEW now \in time .. ObjectStore!Epoch + Seconds, ObjectStore!store(object, now)
    PROVE  StoreInv'
<1> DEFINE c == object[1]
           p == object[2]
           R == Reach(Named, dept)
           known == column[c][p] # -1
           id == IF known THEN column[c][p] ELSE now + object_cnt
           ids == [column EXCEPT ![c][p] = id]
           instances == [i \in DOMAIN all_instances \cup {id} |->
                           IF i = id THEN object ELSE all_instances[i]]
<1>1. /\ adaptor
      /\ IF known THEN now = time ELSE object_cnt < Stores
      /\ time' = now
      /\ object_cnt' = IF known THEN object_cnt ELSE object_cnt + 1
      /\ ObjectStore!DESTROY(held, instances, dept, ids)
      /\ \/ skipped' = skipped
         \/ skipped' \in SUBSET (DOMAIN all_instances \cup {id})
      /\ UNCHANGED <<adaptor, disk>>
    BY ClassesAre DEF ObjectStore!store
<1>2. /\ Named \subseteq Everything /\ dept \in [Employees -> {-1} \cup Departments]
      /\ object \in Everything /\ object \in Named /\ object \in R /\ R \subseteq Everything
    BY Kinds DEF Named, Reach
<1>3. /\ object = <<c, p>> /\ c \in ObjectStore!Classes /\ p \in 0 .. Places[c]
      /\ p \in Taken(c) /\ Places[c] \in Nat
    BY <1>2, ObjectIs, ClassesAre DEF Taken
<1>4. /\ time \in Nat /\ object_cnt \in Nat /\ now \in Nat /\ now >= time
      /\ DOMAIN column = ObjectStore!Classes /\ DOMAIN free = ObjectStore!Classes
      /\ \A i \in DOMAIN all_instances : i \in Nat /\ i < time + object_cnt
      /\ skipped \subseteq DOMAIN all_instances
    BY DEF StoreInv, StoreKinds
<1>5. \A k \in ObjectStore!Classes : column[k] \in [0 .. Places[k] -> {-1} \cup Nat]
    BY Kinds
<1>6. {i \in DOMAIN all_instances : all_instances[i] = object} = IF known THEN {id} ELSE {}
    BY <1>2 DEF StoreInv, IdsOfNamed
<1>7. id \in Nat /\ id # -1
    <2>1. column[c][p] \in {-1} \cup Nat
        BY <1>3, <1>5
    <2> QED BY <1>4, <2>1
<1>8. known => id \in DOMAIN all_instances /\ all_instances[id] = object
    BY <1>6
<1>9. ~known => id \notin DOMAIN all_instances /\ id = now + object_cnt
    BY <1>4
<1> HIDE DEF c, p, known, id
<1>10. /\ DOMAIN instances = DOMAIN all_instances \cup {id} /\ instances[id] = object
       /\ \A i \in DOMAIN all_instances : i # id => instances[i] = all_instances[i]
    OBVIOUS
<1> HIDE DEF instances
<1>11. \A i \in DOMAIN all_instances : instances[i] = all_instances[i]
    BY <1>8, <1>9, <1>10
<1>12. held \cup ObjectStore!Range(instances) = Named
    BY <1>10, <1>11 DEF Named, ObjectStore!Range
<1>13. /\ held' = held /\ all_instances' = instances /\ dept' = dept
       /\ column' = [k \in ObjectStore!Classes |-> [i \in ObjectStore!Column(k) |-> ids[k][i]]]
       /\ free' = [k \in ObjectStore!Classes |-> free[k]]
    <2>1. ObjectStore!Objects \ ObjectStore!Alive(held, instances, dept) = {}
        BY <1>12, AliveIs, ObjectsAre
    <2> HIDE DEF ids
    <2>2. /\ held' = held /\ all_instances' = instances /\ dept' = [i \in DOMAIN dept |-> dept[i]]
          /\ column' = [k \in ObjectStore!Classes |-> [i \in ObjectStore!Column(k) |-> ids[k][i]]]
          /\ free' = [k \in ObjectStore!Classes |-> free[k]]
        BY <1>1, <2>1 DEF ObjectStore!DESTROY
    <2>3. [i \in DOMAIN dept |-> dept[i]] = dept
        BY <1>2
    <2> QED BY <2>2, <2>3
<1>14. /\ DOMAIN ids = ObjectStore!Classes
       /\ \A k \in ObjectStore!Classes : k # c => ids[k] = column[k]
       /\ ids[c] = [column[c] EXCEPT ![p] = id]
    BY <1>3, <1>4
<1>15. \A k \in ObjectStore!Classes : column'[k] = ids[k] /\ free'[k] = free[k]
    <2> SUFFICES ASSUME NEW k \in ObjectStore!Classes PROVE column'[k] = ids[k] /\ free'[k] = free[k]
        OBVIOUS
    <2>1. ObjectStore!Column(k) = 0 .. Places[k] /\ column[k] \in [0 .. Places[k] -> {-1} \cup Nat]
        BY <1>5, ClassesAre
    <2>2. ids[k] \in [0 .. Places[k] -> {-1} \cup Nat]
        <3> HIDE DEF ids
        <3> QED BY <1>7, <1>14, <2>1
    <2> HIDE DEF ids
    <2>3. column'[k] = [i \in 0 .. Places[k] |-> ids[k][i]]
        BY <1>13, <2>1
    <2> QED BY <1>13, <2>2, <2>3
<1>16. Named' = Named /\ Reach(Named, dept)' = R
    <2>1. Named' = Named
        BY <1>12, <1>13 DEF Named, ObjectStore!Range
    <2> QED BY <1>13, <2>1 DEF Reach
<1>17. StoreKinds'
    <2>1. \A i \in DOMAIN all_instances' : i \in Nat /\ i < time' + object_cnt'
        <3> SUFFICES ASSUME NEW i \in DOMAIN all_instances \cup {id}
                     PROVE  i \in Nat /\ i < time' + object_cnt'
            BY <1>10, <1>13
        <3>1. CASE known
            <4>1. time' = time /\ object_cnt' = object_cnt /\ i \in DOMAIN all_instances
                BY <1>1, <1>8, <3>1
            <4> QED BY <1>4, <4>1
        <3>2. CASE ~known
            <4>1. time' = now /\ object_cnt' = object_cnt + 1
                BY <1>1, <3>2
            <4>2. CASE i = id
                BY <1>4, <1>7, <1>9, <3>2, <4>1, <4>2
            <4>3. CASE i \in DOMAIN all_instances
                <5>1. i \in Nat /\ i < time + object_cnt
                    BY <1>4, <4>3
                <5> QED BY <1>4, <4>1, <5>1
            <4> QED BY <4>2, <4>3
        <3> QED BY <3>1, <3>2
    <2>2. time' \in Nat /\ object_cnt' \in Nat
        BY <1>1, <1>4
    <2>3. skipped' \subseteq DOMAIN all_instances'
        BY <1>1, <1>4, <1>10, <1>13
    <2>4. DOMAIN free' = ObjectStore!Classes /\ DOMAIN column' = ObjectStore!Classes
        BY <1>13
    <2>5. dept' \in [Employees -> {-1} \cup Departments] /\ Named' \subseteq Everything
        BY <1>2, <1>13, <1>16
    <2> QED BY <1>1, <2>1, <2>2, <2>3, <2>4, <2>5 DEF StoreInv, StoreKinds
<1> HIDE DEF ids
<1>18. PlacesChained'
    <2> SUFFICES ASSUME NEW k \in ObjectStore!Classes
                 PROVE  \E links : Chain(Places[k], free'[k], column'[k], Taken(k)', links)
        BY DEF PlacesChained
    <2>1. PICK links : Chain(Places[k], free[k], column[k], Taken(k), links)
        BY Kinds
    <2>2. Taken(k)' = Taken(k)
        BY <1>16 DEF Taken
    <2>3. CASE k # c
        BY <1>14, <1>15, <2>1, <2>2, <2>3
    <2>4. CASE k = c
        <3> DEFINE col == column[c]
        <3>1. Chain(Places[c], free[c], [col EXCEPT ![p] = id], Taken(c), links)
            BY <1>3, <1>7, <2>1, <2>4, ChainNamed
        <3> QED BY <1>14, <1>15, <2>2, <2>4, <3>1
    <2> QED BY <2>3, <2>4
<1>19. IdsOfNamed'
    <2> SUFFICES ASSUME NEW o \in R
                 PROVE  {i \in DOMAIN instances : instances[i] = o} =
                            IF column'[o[1]][o[2]] = -1 THEN {} ELSE {column'[o[1]][o[2]]}
        BY <1>13, <1>16 DEF IdsOfNamed
    <2>1. CASE o = object
        <3>1. column'[c][p] = id
            BY <1>3, <1>5, <1>14, <1>15
        <3>2. {i \in DOMAIN instances : instances[i] = object} = {id}
            BY <1>6, <1>10, <1>11
        <3> QED BY <1>7, <2>1, <3>1, <3>2 DEF c, p
    <2>2. CASE o # object
        <3>1. column'[o[1]][o[2]] = column[o[1]][o[2]]
            <4>1. o \in Everything /\ o # <<c, p>>
                BY <1>2, <1>3, <2>2
            <4>2. ids[o[1]][o[2]] = column[o[1]][o[2]]
                <5>1. ids = [column EXCEPT ![c][p] = id]
                    BY DEF ids
                <5> QED BY <1>3, <4>1, <5>1, Elsewhere
            <4>3. o[1] \in ObjectStore!Classes
                BY <4>1, ObjectIs
            <4> QED BY <1>15, <4>2, <4>3
        <3>2. {i \in DOMAIN instances : instances[i] = o} =
                 {i \in DOMAIN all_instances : all_instances[i] = o}
            BY <1>10, <1>11, <2>2
        <3> QED BY <3>1, <3>2 DEF StoreInv, IdsOfNamed
    <2> QED BY <2>1, <2>2
<1>20. NoneLeft'
    BY <1>13, <1>16 DEF StoreInv, NoneLeft
<1> QED BY <1>17, <1>18, <1>19, <1>20 DEF StoreInv

\* What flush writes is every record unless a pass was left midway.
LEMMA FlushWritesAll ==
    ASSUME StoreInv, ObjectStore!Next, adaptor', skipped = {},
           NEW id \in DOMAIN all_instances, <<all_instances[id][1], id>> \in disk
    PROVE  <<all_instances[id][1], id>> \in disk'
<1>1. CASE disk' = disk
    BY <1>1
<1>2. CASE disk' # disk
    <2>1. ObjectStore!flush
        BY <1>2 DEF ObjectStore!Next, ObjectStore!new, ObjectStore!retrieve_where,
           ObjectStore!IllFormed, ObjectStore!Drop, ObjectStore!store, ObjectStore!SetDept,
           ObjectStore!GetDept, ObjectStore!load_all, ObjectStore!Restart, ObjectStore!storeVars
    <2> QED BY <2>1 DEF ObjectStore!flush, ObjectStore!Records, ObjectStore!Pass
<1> QED BY <1>1, <1>2

\* No two objects have a place, an id or a record in common, whatever is stored,
\* dropped and created again, and a flush keeps what the file holds of the objects
\* stored unless a query has failed.
THEOREM ObjectsStayKept == Spec => ObjectsKept
<1> DEFINE allVars == <<program, bignumVars, compilerVars, pageVars, queueVars, boardVars, storeVars>>
<1>1. Init => StoreInv
    <2> SUFFICES ASSUME ObjectStore!Init PROVE StoreInv
        BY DEF Init
    <2>1. NewStore
        BY ClassesAre DEF ObjectStore!Init, NewStore
    <2> QED BY <2>1, StoreFresh
<1>2. ASSUME StoreInv, ObjectStore!Next PROVE StoreInv'
    <2>1. CASE \E c \in ObjectStore!Classes :
                  ObjectStore!new(c) \/ ObjectStore!retrieve_where(c) \/ ObjectStore!IllFormed(c)
        BY <1>2, <2>1, NewKeeps, RetrieveKeeps, IllFormedKeeps
    <2>2. CASE \E object \in held :
                  \/ ObjectStore!Drop(object)
                  \/ \E now \in time .. ObjectStore!Epoch + Seconds : ObjectStore!store(object, now)
        BY <1>2, <2>2, DropKeeps, StoreKeeps
    <2>3. CASE \E i \in Employees, d \in {-1} \cup Departments : ObjectStore!SetDept(i, d)
        BY <1>2, <2>3, SetDeptKeeps
    <2>4. CASE \E i \in Employees : ObjectStore!GetDept(i)
        BY <1>2, <2>4, GetDeptKeeps
    <2>5. CASE ObjectStore!load_all \/ ObjectStore!flush \/ ObjectStore!Restart
        BY <1>2, <2>5, LoadAllKeeps, FlushKeeps, RestartKeeps
    <2> QED BY <1>2, <2>1, <2>2, <2>3, <2>4, <2>5, ClassesAre DEF ObjectStore!Next
<1>3. ASSUME StoreInv, UNCHANGED storeVars PROVE StoreInv'
    <2>1. UNCHANGED <<free, column, dept, held, adaptor, all_instances, skipped, object_cnt, time, disk>>
        BY <1>3 DEF storeVars
    <2>2. Named' = Named /\ Reach(Named, dept)' = Reach(Named, dept)
        BY <2>1 DEF Named, Reach, ObjectStore!Range
    <2> QED BY <1>3, <2>1, <2>2, SameObjects DEF StoreInv, StoreKinds
<1>4. [Next]_allVars => ObjectStore!Next \/ UNCHANGED storeVars
    BY DEF Next, Returned
<1>5. StoreInv /\ [Next]_allVars => StoreInv'
    BY <1>2, <1>3, <1>4
<1>6. StoreInv => (program = "serialize" => ObjectStore!ObjectsApart)
    BY StoreSafe
<1> DEFINE Kept == \A id \in DOMAIN all_instances :
                      LET record == <<all_instances[id][1], id>>
                      IN  record \in disk /\ skipped = {} /\ adaptor' => record \in disk'
<1>7. StoreInv /\ [Next]_allVars => [Kept]_<<ObjectStore!objectVars, ObjectStore!storeVars>>
    <2> SUFFICES ASSUME StoreInv, [Next]_allVars
                 PROVE  Kept \/ UNCHANGED <<ObjectStore!objectVars, ObjectStore!storeVars>>
        OBVIOUS
    <2>1. CASE ObjectStore!Next
        BY <2>1, FlushWritesAll
    <2>2. CASE UNCHANGED storeVars
        BY <2>2 DEF storeVars, ObjectStore!objectVars, ObjectStore!storeVars
    <2> QED BY <1>4, <2>1, <2>2
<1> HIDE DEF Kept, allVars
<1>8. Spec => []StoreInv
    BY <1>1, <1>5, PTL DEF Spec, allVars
<1>9. Spec => [](program = "serialize" => ObjectStore!ObjectsApart)
    BY <1>6, <1>8, PTL
<1>10. Spec => [][Kept]_<<ObjectStore!objectVars, ObjectStore!storeVars>>
    BY <1>7, <1>8, PTL DEF Spec, allVars
<1> QED BY <1>9, <1>10 DEF ObjectsKept, ObjectStore!FileKept, Kept
==============================================================================
