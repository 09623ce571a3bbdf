---------------------------- MODULE ObjectStore ----------------------------
(***************************************************************************)
(* The objects of ObjectTemplate.pm and the file of Adaptor/File.pm, as    *)
(* serialize.plx uses them.  An object is a number, its place in one array *)
(* per attribute; the places given back are linked through the array of    *)
(* the first attribute, which here is `_id', the one that the adaptor      *)
(* names objects by.                                                       *)
(***************************************************************************)
EXTENDS Integers, Functions

CONSTANTS
    Places,     (* bound: of the places that either class comes to         *)
    Stores,     (* bound: of the objects stored in a run                   *)
    Seconds     (* bound: of the time that passes                          *)

Classes == {"Employee", "Department"}

ObjectStoreAssumption == Places \in [Classes -> Nat] /\ Stores \in Nat /\ Seconds \in Nat

VARIABLES
    free,           (* $_free of either class                              *)
    column,         (* @_free, which is the column of `_id'                *)
    dept,           (* the column of that attribute of an employee         *)
    held,           (* the objects that the program has a reference to     *)
    adaptor,        (* whether there is one                                *)
    all_instances,  (* of the adaptor: the object of each id               *)
    skipped,        (* the ids that the next `each' does not come to       *)
    object_cnt, time, file

objectVars == <<free, column, dept, held>>
storeVars == <<adaptor, all_instances, skipped, object_cnt, time, file>>

undef == -1
Column(c) == 0 .. Places[c]
Epoch == Places["Employee"] + Places["Department"] + 1

Fresh == [free |-> [c \in Classes |-> 0],
          column |-> [c \in Classes |-> [i \in Column(c) |-> undef]],
          dept |-> [i \in Column("Employee") |-> undef]]

\* The time is past every place: it counts from 1970.
Init ==
    /\ free = Fresh.free /\ column = Fresh.column /\ dept = Fresh.dept /\ held = {}
    /\ adaptor = FALSE /\ all_instances = <<>> /\ skipped = {} /\ object_cnt = 0
    /\ time = Epoch /\ file = {}

\* The objects that something refers to: the program, the adaptor or an employee.
Alive(references, instances, department) ==
    LET named == references \union Range(instances)
    IN  named \union {<<"Department", department[i]>> :
                        i \in {j \in Column("Employee") : <<"Employee", j>> \in named /\ department[j] # undef}}

Objects == Alive(held, all_instances, dept)

-----------------------------------------------------------------------------
(* ObjectTemplate                                                          *)

\* The references are changed to these, and what nothing refers to any more is
\* destroyed: the attributes become undefined, the place is the first free one.
\* The department of a destroyed employee may follow it.
DESTROY(references, instances, department, ids) ==
    LET gone == Objects \ Alive(references, instances, department)
        back(c) == {i \in Column(c) : <<c, i>> \in gone}
    IN  /\ held' = references
        /\ all_instances' = instances
        /\ dept' = [i \in DOMAIN dept |-> IF i \in back("Employee") THEN undef ELSE department[i]]
        /\ column' = [c \in Classes |->
                        [i \in Column(c) |-> IF i \in back(c) THEN free[c] ELSE ids[c][i]]]
        /\ free' = [c \in Classes |-> IF back(c) = {} THEN free[c] ELSE CHOOSE i \in back(c) : TRUE]

\* Mistake: the link stays where the id of the object goes.
newLinked(c) ==
    LET inst_id == free[c]
        next == column[c][inst_id]
    IN  /\ inst_id < Places[c]
        /\ free' = [free EXCEPT ![c] = IF next # undef THEN next ELSE inst_id + 1]
        /\ held' = held \union {<<c, inst_id>>}
        /\ UNCHANGED <<column, dept, storeVars>>

new(c) ==
    LET inst_id == free[c]
        next == column[c][inst_id]
    IN  /\ inst_id < Places[c]
        /\ free' = [free EXCEPT ![c] = IF next # undef THEN next ELSE inst_id + 1]
        /\ column' = [column EXCEPT ![c][inst_id] = undef]
        /\ held' = held \union {<<c, inst_id>>}
        /\ UNCHANGED <<dept, storeVars>>

\* A variable of the program goes out of scope.
Drop(object) ==
    /\ DESTROY(held \ {object}, all_instances, dept, column)
    /\ UNCHANGED <<adaptor, skipped, object_cnt, time, file>>

\* $employee->dept($department), or undef.
SetDept(i, d) ==
    /\ <<"Employee", i>> \in held
    /\ d # undef => <<"Department", d>> \in held
    /\ DESTROY(held, all_instances, [dept EXCEPT ![i] = d], column)
    /\ UNCHANGED <<adaptor, skipped, object_cnt, time, file>>

\* $employee->dept
GetDept(i) ==
    /\ <<"Employee", i>> \in held /\ dept[i] # undef
    /\ held' = held \union {<<"Department", dept[i]>>}
    /\ UNCHANGED <<free, column, dept, storeVars>>

-----------------------------------------------------------------------------
(* Adaptor::File                                                           *)

\* A pass of `each' over all_instances begins where the one before was left, and
\* after its end the next begins at the start.
Pass == DOMAIN all_instances \ skipped

Of(c, ids) == {id \in ids : all_instances[id][1] = c}

\* load_all takes the number of the attributes for their list and dies inside its
\* eval: all it does is to create an object of the class that the file begins with,
\* which is destroyed again.
load_all ==
    /\ ~adaptor /\ adaptor' = TRUE
    /\ IF file = {} THEN UNCHANGED column
       ELSE \E record \in file :
                LET c == record[1]
                IN  /\ free[c] < Places[c]
                    /\ column' = IF column[c][free[c]] # undef THEN column
                                 ELSE [column EXCEPT ![c][free[c]] = free[c] + 1]
    /\ UNCHANGED <<free, dept, held, all_instances, skipped, object_cnt, time, file>>

\* An object that enters the hash while a pass is left midway may move the others.
store(object, now) ==
    LET c == object[1]
        known == column[c][object[2]] # undef
        id == IF known THEN column[c][object[2]] ELSE now + object_cnt
        instances == [i \in DOMAIN all_instances \union {id} |->
                        IF i = id THEN object ELSE all_instances[i]]
    IN  /\ adaptor /\ object \in held
        /\ IF known THEN now = time ELSE object_cnt < Stores
        /\ time' = now
        /\ object_cnt' = IF known THEN object_cnt ELSE object_cnt + 1
        /\ DESTROY(held, instances, dept, [column EXCEPT ![c][object[2]] = id])
        /\ skipped' \in IF skipped = {} \/ id \in DOMAIN all_instances THEN {skipped}
                        ELSE SUBSET (DOMAIN all_instances \union {id})
        /\ UNCHANGED <<adaptor, file>>

Records == {<<all_instances[id][1], id>> : id \in Pass}

flush ==
    /\ adaptor
    /\ file' = Records /\ skipped' = {}
    /\ UNCHANGED <<objectVars, adaptor, all_instances, object_cnt, time>>

\* A query returns some of the objects of its class.
retrieve_where(c) ==
    /\ adaptor
    /\ \E retval \in SUBSET Of(c, Pass) : held' = held \union {all_instances[id] : id \in retval}
    /\ skipped' = {}
    /\ UNCHANGED <<free, column, dept, adaptor, all_instances, object_cnt, time, file>>

\* One that names an attribute which the class has not dies at the first object of
\* the class, inside the eval: the pass is left there.
IllFormed(c) ==
    /\ adaptor
    /\ IF Of(c, Pass) = {} THEN skipped' = {}
       ELSE \E first \in Of(c, Pass), before \in SUBSET (Pass \ Of(c, Pass)) :
                skipped' = skipped \union {first} \union before
    /\ UNCHANGED <<objectVars, adaptor, all_instances, object_cnt, time, file>>

\* The program ends and is run again, maybe within the same second; a flush may
\* have come as far as some of its records.
Restart ==
    /\ file' \in {file} \union (IF adaptor THEN SUBSET Records ELSE {})
    /\ free' = Fresh.free /\ column' = Fresh.column /\ dept' = Fresh.dept /\ held' = {}
    /\ adaptor' = FALSE /\ all_instances' = <<>> /\ skipped' = {} /\ object_cnt' = 0
    /\ UNCHANGED time

Next ==
    \/ \E c \in Classes : new(c) \/ retrieve_where(c) \/ IllFormed(c)
    \/ \E object \in held :
            Drop(object) \/ \E now \in time .. Epoch + Seconds : store(object, now)
    \/ \E i \in Column("Employee"), d \in {undef} \union Column("Department") : SetDept(i, d)
    \/ \E i \in Column("Employee") : GetDept(i)
    \/ load_all \/ flush \/ Restart

Spec == Init /\ [][Next]_<<objectVars, storeVars>>

-----------------------------------------------------------------------------
(* Properties                                                              *)

TypeOK ==
    /\ \A c \in Classes : free[c] \in Column(c) /\ column[c] \in [Column(c) -> {undef} \union Nat]
    /\ dept \in [Column("Employee") -> {undef} \union Column("Department")]
    /\ \A object \in held \union Range(all_instances) :
            object[1] \in Classes /\ object[2] \in Column(object[1])
    /\ adaptor \in BOOLEAN
    /\ skipped \subseteq DOMAIN all_instances

\* The places that the links lead to, from the first free one on: no fewer hold it
\* and all that they lead to.
Linked(c) ==
    {i \in Column(c) :
        \A S \in SUBSET Column(c) :
            free[c] \in S /\ (\A j \in S : column[c][j] \in S \union {undef}) => i \in S}

\* Every place up to the one where new places begin is an object or is linked once,
\* never both (ObjectTemplate.pm:53, 130): no two objects get the same place, and
\* none is lost.
PlacesApart ==
    \A c \in Classes :
        LET taken == {i \in Column(c) : <<c, i>> \in Objects}
        IN  /\ taken \intersect Linked(c) = {}
            /\ \E top \in Linked(c) :
                    column[c][top] = undef /\ taken \union Linked(c) = 0 .. top

\* An object that was not stored has no id and one that was has its own, although
\* the column holds links, too: nobody is stored in the place of another
\* (ObjectTemplate.pm:56, File.pm:29-34).
IdsApart ==
    \A object \in Objects :
        LET id == column[object[1]][object[2]]
        IN  {i \in DOMAIN all_instances : all_instances[i] = object} =
                IF id = undef THEN {} ELSE {id}

\* A new object has no attribute of the one whose place it gets.
Cleared == \A i \in Column("Employee") : <<"Employee", i>> \notin Objects => dept[i] = undef

ObjectsApart == TypeOK /\ PlacesApart /\ IdsApart /\ Cleared

\* What the file holds of the objects stored in this run stays in it at every
\* flush, unless a query has failed and nothing has been through all the objects
\* since (File.pm:93), or the program ends at it.
FileKept ==
    [][\A id \in DOMAIN all_instances :
            LET record == <<all_instances[id][1], id>>
            IN  record \in file /\ skipped = {} /\ adaptor' => record \in file']_<<objectVars, storeVars>>
=============================================================================
