------------------------------ MODULE HttpGet ------------------------------
(***************************************************************************)
(* httpget (c/network/http_simple): a page is asked for and what comes is  *)
(* written to a file (SOCrecvDataToFile), the header left out.  It ends    *)
(* with a blank line, which is looked for in what one recv has returned;   *)
(* and only what that recv has returned behind it goes to the file.        *)
(*                                                                         *)
(* The blank line is "\r\n\r\n", two pieces "nl" here, of which a recv may *)
(* get one.  memstr compares with what is behind the bytes received, too:  *)
(* what a recv before has left there, or what was in memory ("?").         *)
(***************************************************************************)
EXTENDS Integers, SequencesExt, FiniteSetsExt

CONSTANTS
    Pieces,     (* what pages consist of, "nl" among it                    *)
    Pages,      (* what the server may send: [header, body] of pieces      *)
    Space        (* pieces that tmpbuf has room for                         *)

\* A header has lines and no blank one; the blank line follows.
HttpGetAssumption ==
    /\ Space \in Nat \ {0}
    /\ "nl" \in Pieces /\ "?" \notin Pieces
    /\ Pages \subseteq [header : Seq(Pieces), body : Seq(Pieces)]
    /\ \A p \in Pages : \A i \in DOMAIN p.header :
          p.header[i] = "nl" => i > 1 /\ i < Len(p.header) /\ p.header[i - 1] # "nl"

VARIABLES
    page,       (* the page that is sent                                   *)
    link,       (* what is still to be received                            *)
    tmpbuf,
    head,       (* has the end of the header been found?                   *)
    file,       (* what has been written to the file                       *)
    received,   (* how many times recv has returned something              *)
    end         (* "no", "closed", or "wild": fwrite with a negative size  *)

vars == <<page, link, tmpbuf, head, file, received, end>>

Init ==
    /\ page \in Pages
    /\ link = page.header \o <<"nl", "nl">> \o page.body
    /\ tmpbuf = [i \in 1 .. Space + 1 |-> "?"]
    /\ head = FALSE /\ file = <<>> /\ received = 0 /\ end = "no"

-----------------------------------------------------------------------------
\* memstr: the first of `size' pieces at which a blank line begins, 0 when there
\* is none.  What was in memory may be anything.
Begins(buf, i) == buf[i] = "nl" /\ buf[i + 1] \in {"nl", "?"}
Certain(buf, i) == buf[i] = "nl" /\ buf[i + 1] = "nl"
memstr(buf, size) ==
    {i \in 1 .. size : Begins(buf, i) /\ \A j \in 1 .. i - 1 : ~Certain(buf, j)}
    \cup (IF \E i \in 1 .. size : Certain(buf, i) THEN {} ELSE {0})

\* Mistake: half of the blank line is taken for the page.
BehindHalf(buf, ptr, size) == SubSeq(buf, ptr + 1, size)

\* What is behind the blank line at ptr.
Behind(buf, ptr, size) == SubSeq(buf, ptr + 2, size)

Filled(buf, s) == s \o SubSeq(buf, Len(s) + 1, Len(buf))

Recv ==
    /\ end = "no" /\ link # <<>>
    /\ \E size \in 1 .. Min({Len(link), Space}) :
          LET buf == Filled(tmpbuf, SubSeq(link, 1, size)) IN
          /\ link' = SubSeq(link, size + 1, Len(link))
          /\ tmpbuf' = buf
          /\ IF head THEN UNCHANGED <<head, file, end>>
             ELSE \E ptr \in memstr(buf, size) :
                     /\ head' = (ptr # 0)
                     /\ file' = IF ptr = 0 THEN file ELSE Behind(buf, ptr, size)
                     /\ end' = IF ptr = size THEN "wild" ELSE "no"
    /\ received' = received + 1
    /\ UNCHANGED page

\* The server has closed the connection.
Close ==
    /\ end = "no" /\ link = <<>>
    /\ end' = "closed"
    /\ UNCHANGED <<page, link, tmpbuf, head, file, received>>

Next == Recv \/ Close

Spec == Init /\ [][Next]_vars

-----------------------------------------------------------------------------
TypeOK ==
    /\ page \in Pages /\ head \in BOOLEAN
    /\ Len(tmpbuf) = Space + 1 /\ Len(link) + received <= Len(page.header) + Len(page.body) + 2
    /\ end \in {"no", "closed", "wild"}

\* However the page comes in parts, nothing of the header gets into the file, and
\* what is there is one piece of the page; a page that comes at once is there as
\* a whole.
OnlyBody ==
    /\ end # "wild" =>
          \E i, j \in 0 .. Len(page.body) : file = SubSeq(page.body, i + 1, j)
    /\ end = "closed" /\ received = 1 => file = page.body
=============================================================================
