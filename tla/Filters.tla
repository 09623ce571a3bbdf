------------------------------ MODULE Filters ------------------------------
(***************************************************************************)
(* The programs in which no two things are ever done at a time, for model  *)
(* checking: bignum (Bignum), the simple compiler (Compiler), httpget      *)
(* (HttpGet), the queue of two lists (Queue2), ilogic (Ilogic) and a       *)
(* program that stores objects (ObjectStore).  `program' says which runs.  *)
(***************************************************************************)
EXTENDS Integers, Queue2

CONSTANTS
    Pieces, Pages, Space,                                    (* HttpGet     *)
    Puzzles,                                                (* Ilogic      *)
    Places, Stores, Seconds                                 (* ObjectStore *)

VARIABLES
    program,
    argv, big, digits,                                      (* Bignum      *)
    text, lookahead, symtable, calls, out, exit,            (* Compiler    *)
    page, link, tmpbuf, head, file, received, end,          (* HttpGet     *)
    spec, body, colour, pointer, corner,                    (* Ilogic      *)
    free, column, dept, held, adaptor, all_instances,       (* ObjectStore *)
    skipped, object_cnt, time, disk

\* Four digits of base 2 are one of base 16, which is more than the program's
\* four of base 10 are of 65536.
Bignum == INSTANCE Bignum WITH Base <- 16, Radix <- 2, MaxDigits <- 5, out <- digits

Compiler == INSTANCE Compiler WITH Names <- {"a", "b"}, SymMax <- 4, MaxWords <- 6

HttpGet == INSTANCE HttpGet

Ilogic == INSTANCE Ilogic

ObjectStore == INSTANCE ObjectStore WITH file <- disk

bignumVars == <<argv, big, digits>>
compilerVars == <<text, lookahead, symtable, calls, out, exit>>
pageVars == <<page, link, tmpbuf, head, file, received, end>>
boardVars == <<spec, body, colour, pointer, corner>>
storeVars == <<free, column, dept, held, adaptor, all_instances, skipped, object_cnt, time, disk>>

ASSUME FiltersBounds ==
    /\ Bignum!BignumAssumption /\ Compiler!CompilerAssumption
    /\ HttpGet!HttpGetAssumption /\ ObjectStore!ObjectStoreAssumption

NoNumbers == argv = <<>> /\ big = <<>> /\ digits = <<>>
NoPage ==
    /\ page = <<>> /\ link = <<>> /\ tmpbuf = <<>> /\ head = FALSE
    /\ file = <<>> /\ received = 0 /\ end = "no"

NoBoard == spec = [h_spec |-> << <<1>> >>, v_spec |-> << <<1>> >>] /\ Ilogic!Window

Init ==
    /\ Compiler!Init /\ QueueInit /\ ObjectStore!Init
    /\ \/ program = "bignum" /\ Bignum!Init /\ NoPage /\ NoBoard
       \/ /\ program \in {"simple", "queue_module", "serialize"}
          /\ NoNumbers /\ NoPage /\ NoBoard
       \/ program = "httpget" /\ HttpGet!Init /\ NoNumbers /\ NoBoard
       \/ program = "ilogic" /\ Ilogic!Init /\ NoNumbers /\ NoPage

\* The program has returned.
Returned ==
    /\ \/ program = "bignum" /\ digits # <<>>
       \/ program = "simple" /\ exit # "no"
       \/ program = "httpget" /\ end # "no"
    /\ UNCHANGED <<bignumVars, compilerVars, pageVars, queueVars, boardVars, storeVars>>

Next ==
    /\ UNCHANGED program
    /\ \/ /\ program = "bignum" /\ Bignum!Next
          /\ UNCHANGED <<compilerVars, pageVars, queueVars, boardVars, storeVars>>
       \/ /\ program = "simple" /\ Compiler!Next
          /\ UNCHANGED <<bignumVars, pageVars, queueVars, boardVars, storeVars>>
       \/ /\ program = "httpget" /\ HttpGet!Next
          /\ UNCHANGED <<bignumVars, compilerVars, queueVars, boardVars, storeVars>>
       \/ /\ program = "queue_module" /\ QueueNext
          /\ UNCHANGED <<bignumVars, compilerVars, pageVars, boardVars, storeVars>>
       \/ /\ program = "ilogic" /\ Ilogic!Next
          /\ UNCHANGED <<bignumVars, compilerVars, pageVars, queueVars, storeVars>>
       \/ /\ program = "serialize" /\ ObjectStore!Next
          /\ UNCHANGED <<bignumVars, compilerVars, pageVars, queueVars, boardVars>>
       \/ Returned

Spec ==
    Init /\ [][Next]_<<program, bignumVars, compilerVars, pageVars, queueVars, boardVars, storeVars>>

-----------------------------------------------------------------------------
(* Properties                                                              *)

\* Bignum makes of every argument the number it means, in the fewest digits that
\* keep its sign, multiplies those without a sign and prints what it has.
NumbersRight == program = "bignum" => Bignum!TypeOK /\ Bignum!ParsedRight /\ Bignum!ProductRight

\* The compiler accepts its language, whatever the order in which the procedures
\* call each other, and what it prints is the postfix form.
Translated == Compiler!TypeOK /\ Compiler!Translated

\* However a page comes in parts, httpget writes a piece of its body, and all of a
\* page that comes at once.
OnlyBody == program = "httpget" => HttpGet!TypeOK /\ HttpGet!OnlyBody

\* Ilogic says "right" of the picture that is asked for and of no other, and every
\* cell on the window has the colour of its state unless the pointer is in it.
PictureJudged == Ilogic!Judged /\ [](Ilogic!TypeOK /\ Ilogic!ColourOfState)

\* No two objects have a place, an id or a record in common, whatever is stored,
\* dropped and created again, and a flush keeps what the file holds of the objects
\* stored unless a query has failed.
ObjectsKept ==
    /\ [](program = "serialize" => ObjectStore!ObjectsApart)
    /\ ObjectStore!FileKept
=============================================================================
