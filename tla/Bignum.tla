------------------------------- MODULE Bignum -------------------------------
(***************************************************************************)
(* bignum (c/bignum.c): two numbers are read from the command line,        *)
(* multiplied and printed.  A bignum is a sequence of digits, the lowest   *)
(* first, in two's complement, and contract_bignum keeps it as short as    *)
(* the sign allows.  mul_bignum takes the digits as they are, and so the   *)
(* numbers as if they had no sign.                                         *)
(*                                                                         *)
(* A digit is an unsigned short in the code and of base Base here; the     *)
(* argument's digits are decimal in the code and of base Radix here.  Four *)
(* of them are at most one of Base, on which parse_bignum relies.          *)
(***************************************************************************)
EXTENDS Integers, SequencesExt, FiniteSetsExt

CONSTANTS
    Base,       (* 65536                                                   *)
    Radix,      (* 10                                                      *)
    MaxDigits   (* bound: the digits of an argument                        *)

BignumAssumption ==
    /\ Base \in Nat /\ Base % 2 = 0 /\ Radix \in Nat \ {0, 1}
    /\ Radix * Radix * Radix * Radix <= Base /\ MaxDigits \in Nat \ {0}

VARIABLES
    argv,       (* the arguments: a sign and digits, the highest first     *)
    big,        (* big1, big2 and big3, as far as there are                *)
    out         (* what is printed: a sign and digits, the lowest first    *)

vars == <<argv, big, out>>

Args ==
    [sign : BOOLEAN, text : UNION {[1 .. n -> 0 .. Radix - 1] : n \in 1 .. MaxDigits}]

Init == argv \in [1 .. 2 -> Args] /\ big = <<>> /\ out = <<>>

-----------------------------------------------------------------------------
\* The highest bit of a digit.
High(d) == d >= Base \div 2

\* Mistake: the digit that keeps the sign goes as well.
ContractAll(v) ==
    LET fill == Last(v)
        len == Max({0} \cup {i \in DOMAIN v : v[i] # fill})
    IN  IF fill \notin {0, Base - 1} THEN v
        ELSE IF len = 0 THEN <<fill>>
        ELSE SubSeq(v, 1, len)

\* contract_bignum takes away the highest digits that only repeat the sign: zeros
\* of a positive, 0xffff of a negative number, but for one that keeps it.
Contract(v) ==
    LET fill == Last(v)
        len == Max({0} \cup {i \in DOMAIN v : v[i] # fill})
    IN  IF fill \notin {0, Base - 1} THEN v
        ELSE IF len = 0 THEN <<fill>>
        ELSE SubSeq(v, 1, IF High(v[len]) # High(fill) THEN len + 1 ELSE len)

\* The digits of a number that has these amounts at its places, with a carry from
\* place to place, and the carry that is left.
Carried(first, amounts) ==
    LET place(acc, n) == [v |-> Append(acc.v, (acc.carry + n) % Base),
                          carry |-> (acc.carry + n) \div Base]
    IN  FoldLeft(place, [v |-> <<>>, carry |-> first], amounts)

\* ~ and + 1; what is carried beyond the last digit is lost.
Negated(v) == Carried(1, [i \in DOMAIN v |-> Base - 1 - v[i]]).v

\* parse_bignum: room for one digit of Base for four of the argument, sign
\* included, and one more; each digit multiplies what there is and is added.
Zeros(n) == [i \in 1 .. n |-> 0]
Room(a) == (Len(a.text) + (IF a.sign THEN 1 ELSE 0)) \div 4 + 2
Times(v, d) == Carried(d, [i \in DOMAIN v |-> v[i] * Radix])
Read(a) == FoldLeft(LAMBDA v, d : Times(v, d).v, Zeros(Room(a)), a.text)
Parse(a) == Contract(IF a.sign THEN Negated(Read(a)) ELSE Read(a))

\* mul_bignum: for each digit of the shorter number the longer one is added,
\* and what is carried goes to the digit behind, which is zero so far.
Row(v, b, s, i) ==
    LET row == Carried(0, [j \in DOMAIN b |-> v[i + j - 1] + b[j] * s[i]])
    IN  [k \in DOMAIN v |->
            IF k \in i .. i + Len(b) - 1 THEN row.v[k - i + 1]
            ELSE IF k = i + Len(b) THEN (v[k] + row.carry) % Base
            ELSE v[k]]
Mul(l, r) ==
    LET b == IF Len(l) > Len(r) THEN l ELSE r
        s == IF Len(l) > Len(r) THEN r ELSE l
    IN  Contract(FoldLeftDomain(LAMBDA v, i : Row(v, b, s, i), Zeros(Len(l) + Len(r)), s))

\* completion_bignum, and print_bignum without the layout of the digits.
Completed(v) ==
    LET n == Negated(v) IN SubSeq(n, 1, Max({0} \cup {i \in DOMAIN n : n[i] # 0}))
Printed(v) ==
    IF v = <<0>> THEN [sign |-> FALSE, digits |-> <<0>>]
    ELSE IF Last(v) = 0 THEN [sign |-> FALSE, digits |-> Front(v)]
    ELSE IF High(Last(v)) THEN [sign |-> TRUE, digits |-> Completed(v)]
    ELSE [sign |-> FALSE, digits |-> v]

\* main.
ParseNext ==
    Len(big) < 2 /\ big' = Append(big, Parse(argv[Len(big) + 1])) /\ UNCHANGED <<argv, out>>
Multiply ==
    Len(big) = 2 /\ big' = Append(big, Mul(big[1], big[2])) /\ UNCHANGED <<argv, out>>
Output ==
    Len(big) = 3 /\ out = <<>> /\ out' = <<Printed(big[3])>> /\ UNCHANGED <<argv, big>>

Next == ParseNext \/ Multiply \/ Output

Spec == Init /\ [][Next]_vars

-----------------------------------------------------------------------------
Power(b, n) == FoldLeft(LAMBDA x, i : x * b, 1, Zeros(n))
Sum(v) == FoldLeftDomain(LAMBDA x, i : x + v[i] * Power(Base, i - 1), 0, v)

\* What is meant by an argument, a bignum and a line of output.
Meant(a) ==
    LET n == FoldLeft(LAMBDA x, d : x * Radix + d, 0, a.text) IN IF a.sign THEN -n ELSE n
Value(v) == IF High(Last(v)) THEN Sum(v) - Power(Base, Len(v)) ELSE Sum(v)
Shown(o) == IF o.sign THEN -Sum(o.digits) ELSE Sum(o.digits)

TypeOK ==
    /\ argv \in [1 .. 2 -> Args] /\ Len(big) <= 3 /\ Len(out) <= 1
    /\ \A k \in DOMAIN big : big[k] # <<>> /\ Range(big[k]) \subseteq 0 .. Base - 1

\* Parsing makes of an argument the number it means, in the fewest digits that
\* keep its sign, within the memory it has asked for.
ParsedRight ==
    /\ \A k \in DOMAIN big \cap {1, 2} :
          Value(big[k]) = Meant(argv[k]) /\ Contract(big[k]) = big[k]
    /\ \A k \in 1 .. 2 : \A n \in 0 .. Len(argv[k].text) - 1 :
          Times(Read([argv[k] EXCEPT !.text = SubSeq(@, 1, n)]), argv[k].text[n + 1]).carry = 0

\* Without signs the product is right, and whatever the number, what is printed
\* is what it is.
ProductRight ==
    /\ Len(big) = 3 /\ ~argv[1].sign /\ ~argv[2].sign =>
          Value(big[3]) = Meant(argv[1]) * Meant(argv[2])
    /\ \A o \in ToSet(out) : Shown(o) = Value(big[3])

\* The product of a number and one with a sign is printed as that product, which
\* is what bignumcheck.rb compares with.
SignedProduct ==
    ~argv[1].sign /\ argv[2].sign =>
        \A o \in ToSet(out) : Shown(o) = Meant(argv[1]) * Meant(argv[2])
=============================================================================
