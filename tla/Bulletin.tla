------------------------------ MODULE Bulletin ------------------------------
(***************************************************************************)
(* The bulletin board daemons (c/network/daemon): bb0d and bb1d accept and *)
(* fork a child per client, which shows a menu and serves what the client  *)
(* chooses until that is 9.  bb9d is the child alone, started by inetd.    *)
(* The client's session passes on what is typed, and leaves after a line   *)
(* that starts with 9.                                                     *)
(*                                                                         *)
(* Nobody waits for the children: those that have ended stay in the table  *)
(* of processes.  A line is 1 or 9, or 0, which stands for no number.      *)
(***************************************************************************)
EXTENDS Naturals, FiniteSets, Sequences

CONSTANTS
    Clients,
    Lines,        (* bound: the lines a client types                       *)
    Procs,        (* children the table of processes has room for          *)
    Terminates,   (* may the parent get SIGTERM (bb1d) or ^C (bb0d)?       *)
    Dies          (* clients that may be killed                            *)

BulletinAssumption ==
    /\ Lines \in Nat /\ Procs \in Nat /\ Terminates \in BOOLEAN /\ Dies \subseteq Clients

VARIABLES
    parent,     (* where it is, and the client it has accepted             *)
    backlog,    (* clients that are not accepted                           *)
    held,       (* who holds the server's end of the client's connection   *)
    child,      (* where the client's child is                             *)
    item,       (* its item, before the first read whatever was there      *)
    lines,      (* what the client has sent that is not read               *)
    tie,        (* what the child's kernel knows of the client's end       *)
    client,     (* "out", "in", "hung" up on and written to, or "over"     *)
    asked,      (* how many lines it has typed                             *)
    answers     (* how many items it was served                            *)

vars == <<parent, backlog, held, child, item, lines, tie, client, asked, answers>>

Items == {1, 9}
Running == {"greet", "menu", "read", "serve"}

Init ==
    /\ parent = [pc |-> "accept", conn |-> {}] /\ backlog = <<>>
    /\ held = [c \in Clients |-> {}]
    /\ child = [c \in Clients |-> "none"]
    /\ item \in [Clients -> Items]
    /\ lines = [c \in Clients |-> <<>>]
    /\ tie = [c \in Clients |-> "open"]
    /\ client = [c \in Clients |-> "out"]
    /\ asked = [c \in Clients |-> 0] /\ answers = [c \in Clients |-> 0]

\* There is a process, or a connection that waits for one, at the other end.
Open(c) == held[c] # {} \/ \E i \in 1 .. Len(backlog) : backlog[i] = c

-----------------------------------------------------------------------------
(* The parent                                                              *)

Accept ==
    /\ parent.pc = "accept" /\ backlog # <<>>
    /\ parent' = [pc |-> "fork", conn |-> {Head(backlog)}]
    /\ backlog' = Tail(backlog)
    /\ held' = [held EXCEPT ![Head(backlog)] = {"parent"}]
    /\ UNCHANGED <<child, item, lines, tie, client, asked, answers>>

Used == Cardinality({c \in Clients : child[c] \in Running \cup {"zombie"}})


\* fork.  When it fails the parent goes on as if there were a child.
Fork(c) ==
    /\ parent.pc = "fork" /\ c \in parent.conn
    /\ parent' = [parent EXCEPT !.pc = "close"]
    /\ IF Used < Procs
       THEN /\ child' = [child EXCEPT ![c] = "greet"]
            /\ held' = [held EXCEPT ![c] = @ \cup {"child"}]
       ELSE UNCHANGED <<child, held>>
    /\ UNCHANGED <<backlog, item, lines, tie, client, asked, answers>>

\* Mistake: the parent keeps the connection.
CloseKeeps(c) ==
    /\ parent.pc = "close" /\ c \in parent.conn
    /\ parent' = [pc |-> "accept", conn |-> {}]
    /\ UNCHANGED <<backlog, held, child, item, lines, tie, client, asked, answers>>

Close(c) ==
    /\ parent.pc = "close" /\ c \in parent.conn
    /\ parent' = [pc |-> "accept", conn |-> {}]
    /\ held' = [held EXCEPT ![c] = @ \ {"parent"}]
    /\ UNCHANGED <<backlog, child, item, lines, tie, client, asked, answers>>

\* ending: the children stay, the clients that are not accepted do not.
Terminate ==
    /\ Terminates /\ parent.pc # "over"
    /\ parent' = [pc |-> "over", conn |-> {}]
    /\ backlog' = <<>>
    /\ held' = [c \in Clients |-> held[c] \ {"parent"}]
    /\ UNCHANGED <<child, item, lines, tie, client, asked, answers>>

-----------------------------------------------------------------------------
(* A child                                                                 *)

\* The child is over, and is not waited for.
Exit(c) ==
    /\ child' = [child EXCEPT ![c] = "zombie"]
    /\ held' = [held EXCEPT ![c] = @ \ {"child"}]

\* A write after which the child goes on at next.  The first one to a client
\* who is gone brings a reset, the next one kills.
Write(c, next) ==
    IF tie[c] = "reset" THEN Exit(c) /\ UNCHANGED tie
    ELSE /\ child' = [child EXCEPT ![c] = next]
         /\ tie' = [tie EXCEPT ![c] = IF @ = "open" THEN @ ELSE "reset"]
         /\ UNCHANGED held

\* The greeting
Greet(c) ==
    /\ child[c] = "greet" /\ Write(c, "menu")
    /\ UNCHANGED <<parent, backlog, item, lines, client, asked, answers>>

Menu(c) ==
    /\ child[c] = "menu" /\ Write(c, "read")
    /\ UNCHANGED <<parent, backlog, item, lines, client, asked, answers>>

\* read and sscanf: of several lines the first counts.  If that is no number,
\* or nothing was read, the item is the one before.
Read(c) ==
    /\ child[c] = "read"
    /\ lines[c] # <<>> \/ tie[c] # "open"
    /\ child' = [child EXCEPT ![c] = "serve"]
    /\ item' = IF lines[c] # <<>> /\ Head(lines[c]) # 0
               THEN [item EXCEPT ![c] = Head(lines[c])] ELSE item
    /\ lines' = [lines EXCEPT ![c] = <<>>]
    /\ UNCHANGED <<parent, backlog, held, tie, client, asked, answers>>

\* process
Process(c) ==
    /\ child[c] = "serve"
    /\ IF item[c] = 9 THEN Exit(c) /\ UNCHANGED <<tie, answers>>
       ELSE /\ Write(c, "menu")
            /\ answers' = [answers EXCEPT ![c] = IF tie[c] = "open" THEN @ + 1 ELSE @]
    /\ UNCHANGED <<parent, backlog, item, lines, client, asked>>

-----------------------------------------------------------------------------
(* A client                                                                *)

Connect(c) ==
    /\ client[c] = "out" /\ parent.pc # "over"
    /\ client' = [client EXCEPT ![c] = "in"]
    /\ backlog' = Append(backlog, c)
    /\ UNCHANGED <<parent, held, child, item, lines, tie, asked, answers>>

\* The client is over.  It hardly ever has read all there is: the reset may
\* overtake any part of what it has sent, l.
Leave(c, l) ==
    /\ client' = [client EXCEPT ![c] = "over"]
    /\ \E k \in 0 .. Len(l) : lines' = [lines EXCEPT ![c] = SubSeq(l, 1, k)]
    /\ \E t \in {"gone", "reset"} : tie' = [tie EXCEPT ![c] = t]

\* session: a line is typed and sent.
Type(c, l) ==
    /\ client[c] \in {"in", "hung"} /\ asked[c] < Lines
    /\ asked' = [asked EXCEPT ![c] = @ + 1]
    /\ LET sent == IF Open(c) THEN Append(lines[c], l) ELSE lines[c] IN
       IF l = 9 \/ client[c] = "hung" THEN Leave(c, sent)
       ELSE /\ lines' = [lines EXCEPT ![c] = sent]
            /\ client' = [client EXCEPT ![c] = IF Open(c) THEN @ ELSE "hung"]
            /\ UNCHANGED tie
    /\ UNCHANGED <<parent, backlog, held, child, item, answers>>

Kill(c) ==
    /\ client[c] \in {"in", "hung"} /\ c \in Dies
    /\ Leave(c, lines[c])
    /\ UNCHANGED <<parent, backlog, held, child, item, asked, answers>>

Serve(c) == Greet(c) \/ Menu(c) \/ Read(c) \/ Process(c)

Next ==
    \/ Accept \/ Terminate
    \/ \E c \in Clients :
          \/ Fork(c) \/ Close(c) \/ Greet(c) \/ Menu(c) \/ Read(c) \/ Process(c)
          \/ Connect(c) \/ Kill(c) \/ \E l \in {1, 9, 0} : Type(c, l)

Safety == Init /\ [][Next]_vars

\* The server's processes run; the clients need not type.
Fairness ==
    /\ WF_vars(Accept \/ \E c \in Clients : Fork(c) \/ Close(c))
    /\ \A c \in Clients : WF_vars(Serve(c))

Spec == Safety /\ Fairness

-----------------------------------------------------------------------------
(* Properties                                                              *)

TypeOK ==
    /\ parent \in [pc : {"accept", "fork", "close", "over"}, conn : SUBSET Clients]
    /\ backlog \in Seq(Clients)
    /\ held \in [Clients -> SUBSET {"parent", "child"}]
    /\ child \in [Clients -> Running \cup {"none", "zombie"}]
    /\ item \in [Clients -> Items]
    /\ lines \in [Clients -> Seq({1, 9, 0})]
    /\ tie \in [Clients -> {"open", "gone", "reset"}]
    /\ client \in [Clients -> {"out", "in", "hung", "over"}]
    /\ asked \in [Clients -> 0 .. Lines] /\ answers \in [Clients -> 0 .. Lines]

\* Nobody is served what he has not asked for, though the item of an earlier
\* line is served again for a line without a number, and when a client is
\* gone: the answers never outnumber the lines read.
Asked == \A c \in Clients : answers[c] + Len(lines[c]) <= asked[c]

\* There are never more children than the table of processes has room for,
\* the ended ones included, and the parent waits for new clients with no
\* connection of an old one in its hand.
Room ==
    /\ Used <= Procs
    /\ parent.pc = "accept" => \A c \in Clients : held[c] \subseteq {"child"}

\* In the end a client who came has found a child, or seen its connection
\* closed, when the table of processes was full or the parent was terminated.
Attended ==
    \A c \in Clients : client[c] = "in" => child[c] \in {"read", "zombie"} \/ ~Open(c)

\* In the end no child outlives its client: it serves the last item to nobody,
\* once or twice, and the second write ends it.
NoOrphan == \A c \in Clients : client[c] = "over" => child[c] \notin Running

\* In the end, when a child has ended its client has learnt of it: nobody else
\* holds the connection for long.
EndSeen == \A c \in Clients : child[c] = "zombie" => held[c] = {}
=============================================================================
