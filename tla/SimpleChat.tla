----------------------------- MODULE SimpleChat -----------------------------
(***************************************************************************)
(* A chat of two programs that take turns (c/network/simple_chat).  The    *)
(* server types a line and reads one, the client reads and types; both     *)
(* look for "quit" in their one buffer at the end of the round: the server *)
(* finds what it read there, the client what it typed.                     *)
(*                                                                         *)
(* A line is two pieces.  A read returns what there is, from one piece to  *)
(* several lines, and the buffer starts with it.                           *)
(***************************************************************************)
EXTENDS Naturals, SequencesExt, FiniteSetsExt

CONSTANTS
    Rounds,     (* bound: the lines each types                             *)
    Splits,     (* may a read return a part of a line?                     *)
    Dies        (* programs that may be killed                             *)

Parties == {"server", "client"}
Other(p) == IF p = "server" THEN "client" ELSE "server"

SimpleChatAssumption == Rounds \in Nat /\ Splits \in BOOLEAN /\ Dies \subseteq Parties

VARIABLES
    pc,         (* where each is in its round, or "over"                   *)
    buf,        (* the start of its buffer                                 *)
    said,       (* how many lines it has typed                             *)
    quit,       (* has it typed "quit"?                                    *)
    link,       (* pieces it has sent that are not read                    *)
    tie         (* what its kernel knows of the other's end                *)

vars == <<pc, buf, said, quit, link, tie>>

Text == <<"te", "xt">>
Quit == <<"qu", "it">>

Init ==
    /\ pc = [p \in Parties |-> IF p = "server" THEN "type" ELSE "read"]
    /\ buf = [p \in Parties |-> <<"", "">>]
    /\ said = [p \in Parties |-> 0] /\ quit = [p \in Parties |-> FALSE]
    /\ link = [p \in Parties |-> <<>>]
    /\ tie = [p \in Parties |-> "open"]

\* The buffer b once the pieces s are read into it.
Filled(b, s) == SubSeq(s \o SubSeq(b, Len(s) + 1, 2), 1, 2)

\* p is over, and l is all it has sent.
End(p, l) ==
    LET q == Other(p) IN
    /\ pc' = [pc EXCEPT ![p] = "over"]
    /\ link' = [link EXCEPT ![p] = l, ![q] = <<>>]
    /\ tie' = [tie EXCEPT ![q] = IF link[q] = <<>> THEN "shut" ELSE "reset"]

\* Mistake: "quit" is not written.
TypeMute(p, line) ==
    /\ pc[p] = "type" /\ said[p] < Rounds /\ tie[p] = "open"
    /\ said' = [said EXCEPT ![p] = @ + 1]
    /\ quit' = [quit EXCEPT ![p] = @ \/ line = Quit]
    /\ buf' = [buf EXCEPT ![p] = line]
    /\ pc' = [pc EXCEPT ![p] = "read"]
    /\ link' = [link EXCEPT ![p] = IF line = Quit THEN @ ELSE @ \o line]
    /\ UNCHANGED tie

\* read(0) and write(soc); the client's round ends here.  The second write to
\* one who is gone kills.
Type(p, line) ==
    /\ pc[p] = "type" /\ said[p] < Rounds
    /\ said' = [said EXCEPT ![p] = @ + 1]
    /\ quit' = [quit EXCEPT ![p] = @ \/ line = Quit]
    /\ buf' = [buf EXCEPT ![p] = line]
    /\ LET l == IF tie[p] = "open" THEN link[p] \o line ELSE link[p] IN
       IF tie[p] = "reset" \/ (p = "client" /\ line = Quit) THEN End(p, l)
       ELSE /\ pc' = [pc EXCEPT ![p] = "read"]
            /\ link' = [link EXCEPT ![p] = l]
            /\ tie' = [tie EXCEPT ![p] = IF @ = "open" THEN @ ELSE "reset"]

\* read(soc) and write(1); the server's round ends here.
Read(p) ==
    LET q == Other(p) IN
    /\ pc[p] = "read"
    /\ \E k \in 0 .. Len(link[q]) :
          /\ k = 0 => link[q] = <<>> /\ tie[p] # "open"
          /\ k > 0 => Splits \/ k = Len(link[q])
          /\ buf' = [buf EXCEPT ![p] = Filled(@, SubSeq(link[q], 1, k))]
          /\ IF p = "server" /\ buf'[p] = Quit THEN End(p, link[p])
             ELSE /\ pc' = [pc EXCEPT ![p] = "type"]
                  /\ link' = [link EXCEPT ![q] = SubSeq(@, k + 1, Len(@))]
                  /\ UNCHANGED tie
    /\ UNCHANGED <<said, quit>>

Kill(p) ==
    /\ pc[p] # "over" /\ p \in Dies
    /\ End(p, link[p])
    /\ UNCHANGED <<buf, said, quit>>

Next ==
    \E p \in Parties :
        \/ Read(p) \/ Kill(p)
        \/ Type(p, Text) \/ Type(p, Quit)

Safety == Init /\ [][Next]_vars

\* read returns when it can; nobody need type.
Fairness == \A p \in Parties : WF_vars(Read(p))

Spec == Safety /\ Fairness

-----------------------------------------------------------------------------
(* Properties                                                              *)

TypeOK ==
    /\ pc \in [Parties -> {"type", "read", "over"}]
    /\ buf \in [Parties -> [1 .. 2 -> {"", "te", "xt", "qu", "it"}]]
    /\ said \in [Parties -> 0 .. Rounds] /\ quit \in [Parties -> BOOLEAN]
    /\ link \in [Parties -> Seq({"te", "xt", "qu", "it"})]
    /\ tie \in [Parties -> {"open", "shut", "reset"}]

\* The two speak in turn, as long as lines come whole: the server is never
\* more than a line ahead, and never behind.
Turns ==
    tie["client"] = "open" /\ tie["server"] = "open" =>
        said["server"] - said["client"] \in {0, 1} /\ said["server"] >= said["client"]

\* Neither waits for the other while he waits, nor does a line in two parts
\* bring that about: who reads has something coming, or the other types.
Waits ==
    \A p \in Parties :
        pc[p] = "read" /\ link[Other(p)] = <<>> /\ tie[p] = "open" =>
            pc[Other(p)] = "type" \/ (pc[Other(p)] = "read" /\ link[p] # <<>>)

\* The server leaves last, unless it is killed: its own "quit" ends nothing,
\* though it stands in the buffer that is compared when a read brings nothing.
LastOut ==
    pc["server"] = "over" /\ "server" \notin Dies => pc["client"] = "over"

\* The client's quit ends the server, as long as lines come whole.
Farewell ==
    quit["client"] ~> pc["server"] = "over"

=============================================================================
