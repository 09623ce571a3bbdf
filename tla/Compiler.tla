------------------------------ MODULE Compiler ------------------------------
(***************************************************************************)
(* The simple compiler (c/compiler/simple): expressions that end in ";"    *)
(* are read from standard input and printed in postfix form.  The parser   *)
(* descends recursively; `calls' is its stack.                             *)
(*                                                                         *)
(* The default case of factor is spelt "defalut" and is an ordinary label: *)
(* a factor may be empty.                                                  *)
(*                                                                         *)
(* What stands for itself (a number, an operator, a parenthesis) is a      *)
(* word of the input, as a name or a keyword is; blanks are left out.      *)
(***************************************************************************)
EXTENDS Integers, SequencesExt, FiniteSetsExt, Functions

CONSTANTS
    Names,      (* names that may be typed                                 *)
    SymMax,     (* SYMMAX                                                  *)
    MaxWords    (* bound: the words of an input                            *)

Keywords == <<"div", "mod">>

CompilerAssumption == Names \cap ToSet(Keywords) = {} /\ SymMax > 2 /\ MaxWords \in Nat

VARIABLES
    text,       (* the words read so far                                   *)
    lookahead,  (* token and tokenval                                      *)
    symtable,   (* the words that have an entry, in their order            *)
    calls,      (* the procedures that have been entered, innermost first  *)
    out,        (* what has been emitted                                   *)
    exit        (* "no", "ok" or the error                                 *)

vars == <<text, lookahead, symtable, calls, out, exit>>

Letters == Names \cup ToSet(Keywords)
Words == Letters \cup {"1", "+", "*", "(", ")", ";"}

Token(t, v) == [t |-> t, v |-> v]
Done == Token("DONE", "")
AddOps == {"+", "-"}
MulOps == {"*", "/", "DIV", "MOD"}

\* A procedure, where it goes on, and the operator it has read last.
Call(p, at, op) == [p |-> p, at |-> at, op |-> op]
Top == Head(calls)
At(p, at) == exit = "no" /\ Top.p = p /\ Top.at = at
GoOn(at, op) == <<Call(Top.p, at, op)>> \o Tail(calls)

-----------------------------------------------------------------------------
\* Mistake: the loop of lookup does not get to the first entry.
FoundBehind(w) == \E k \in 2 .. Len(symtable) : symtable[k] = w

\* lookup and insert: a keyword is one because init has entered it first.
Found(w) == w \in ToSet(symtable)
Full == Len(symtable) + 1 >= SymMax
TokenOf(w) ==
    IF w = "1" THEN Token("NUM", w)
    ELSE IF Found(w) /\ w = "div" THEN Token("DIV", w)
    ELSE IF Found(w) /\ w = "mod" THEN Token("MOD", w)
    ELSE IF w \in Letters THEN Token("ID", w)
    ELSE Token(w, "")

\* lexan, on the way from one step of the parser to the next.
Lexan ==
    \/ /\ lookahead' = Done
       /\ UNCHANGED <<text, symtable, exit>>
    \/ /\ Len(text) < MaxWords
       /\ \E w \in Words :
             /\ text' = Append(text, w)
             /\ IF w \in Letters /\ ~Found(w) /\ Full
                THEN exit' = "symbol table full" /\ UNCHANGED <<lookahead, symtable>>
                ELSE /\ symtable' = IF w \in Letters /\ ~Found(w) THEN Append(symtable, w)
                                    ELSE symtable
                     /\ lookahead' = TokenOf(w)
                     /\ UNCHANGED exit

Match(t) ==
    IF lookahead.t = t THEN Lexan
    ELSE exit' = "syntax error" /\ UNCHANGED <<text, lookahead, symtable>>

Stay == UNCHANGED <<text, lookahead, symtable, exit>>

\* emit.
Emitted(t) == IF t.v = "" THEN t.t ELSE t.v

\* parse: expressions, each with its ";".
Init ==
    /\ text = <<>> /\ lookahead = Token("", "")
    /\ symtable = Keywords /\ calls = <<Call("parse", "first", "")>>
    /\ out = <<>> /\ exit = "no"

ParseFirst == At("parse", "first") /\ Lexan /\ calls' = GoOn("loop", "") /\ UNCHANGED out
ParseLoop ==
    /\ At("parse", "loop")
    /\ IF lookahead = Done
       THEN exit' = "ok" /\ UNCHANGED <<text, lookahead, symtable, calls>>
       ELSE calls' = <<Call("expr", "first", "")>> \o GoOn("end", "") /\ Stay
    /\ UNCHANGED out
ParseEnd == At("parse", "end") /\ Match(";") /\ calls' = GoOn("loop", "") /\ UNCHANGED out

\* expr and term: operands of the procedure `sub' with operators between them,
\* each of which is emitted behind its right one.
Operands(p, sub, ops) ==
    \/ /\ At(p, "first")
       /\ calls' = <<Call(sub, "first", "")>> \o GoOn("loop", "")
       /\ Stay /\ UNCHANGED out
    \/ /\ At(p, "loop") /\ lookahead.t \in ops
       /\ Match(lookahead.t)
       /\ calls' = <<Call(sub, "first", "")>> \o GoOn("emit", Emitted(lookahead))
       /\ UNCHANGED out
    \/ /\ At(p, "loop") /\ lookahead.t \notin ops
       /\ calls' = Tail(calls)
       /\ Stay /\ UNCHANGED out
    \/ /\ At(p, "emit")
       /\ out' = Append(out, Top.op)
       /\ calls' = GoOn("loop", "")
       /\ Stay

Expr == Operands("expr", "term", AddOps)
Term == Operands("term", "factor", MulOps)

Parenthesis ==
    /\ At("factor", "first") /\ lookahead.t = "("
    /\ Match("(")
    /\ calls' = <<Call("expr", "first", "")>> \o GoOn("close", "")
    /\ UNCHANGED out
CloseParenthesis ==
    At("factor", "close") /\ Match(")") /\ calls' = Tail(calls) /\ UNCHANGED out
Operand ==
    /\ At("factor", "first") /\ lookahead.t \in {"NUM", "ID"}
    /\ out' = Append(out, Emitted(lookahead))
    /\ Match(lookahead.t)
    /\ calls' = Tail(calls)
NoFactor ==
    /\ At("factor", "first") /\ lookahead.t \notin {"(", "NUM", "ID"}
    /\ calls' = Tail(calls)
    /\ Stay /\ UNCHANGED out

Factor == Parenthesis \/ CloseParenthesis \/ Operand \/ NoFactor

Next == ParseFirst \/ ParseLoop \/ ParseEnd \/ Expr \/ Term \/ Factor

Spec == Init /\ [][Next]_vars

-----------------------------------------------------------------------------
(* The language and its translation, without a parser.                     *)

Operators == AddOps \cup {"*", "div", "mod"}
Depth(s, k) ==
    Cardinality({j \in 1 .. k : s[j] = "("}) - Cardinality({j \in 1 .. k : s[j] = ")"})

\* Statements of balanced parentheses, with an operator between any two operands.
Accepts(s) ==
    /\ s # <<>> => Last(s) = ";"
    /\ \A k \in DOMAIN s : Depth(s, k) >= 0 /\ (s[k] = ";" => Depth(s, k) = 0)
    /\ \A k \in DOMAIN s \ {1} :
          s[k] \in Names \cup {"1", "("} => s[k - 1] \notin Names \cup {"1", ")"}

Postfix[s \in Seq(Words)] ==
    LET outside(ops) == {k \in DOMAIN s : s[k] \in ops /\ Depth(s, k) = 0}
        at(k) == Postfix[SubSeq(s, 1, k - 1)] \o Postfix[SubSeq(s, k + 1, Len(s))] \o <<s[k]>>
    IN  IF outside({";"}) # {}
        THEN LET k == Max(outside({";"}))
             IN  Postfix[SubSeq(s, 1, k - 1)] \o Postfix[SubSeq(s, k + 1, Len(s))]
        ELSE IF outside(AddOps) # {} THEN at(Max(outside(AddOps)))
        ELSE IF outside(Operators) # {} THEN at(Max(outside(Operators)))
        ELSE IF s # <<>> /\ s[1] = "(" THEN Postfix[SubSeq(s, 2, Len(s) - 1)]
        ELSE s

TypeOK ==
    /\ text \in Seq(Words) /\ Len(text) <= MaxWords
    /\ Len(symtable) < SymMax /\ IsInjective(symtable)
    /\ exit \in {"no", "ok", "syntax error", "symbol table full"}
    /\ exit = "ok" => calls = <<Call("parse", "loop", "")>>

\* What is accepted is the language, and what is printed then is its postfix
\* form: each operator behind the two operands it is meant for.
Translated ==
    /\ exit = "ok" => Accepts(text) /\ out = Postfix[text]
    /\ exit = "syntax error" => ~Accepts(text)

=============================================================================
