----------------------------- MODULE MCFilters ------------------------------
(***************************************************************************)
(* Filters on small pages and boards, and few objects.                     *)
(***************************************************************************)
EXTENDS Filters

\* Pages whose header has one line and two, with blank lines in the body.
MCPages ==
    [header : {<<"h">>, <<"h", "nl", "h">>},
     body : {<<>>, <<"b">>, <<"b", "nl", "nl", "c">>, <<"nl", "b", "c">>}]

\* Boards of two rows and three columns; the runs beside the rows may be anything.
MCPuzzles ==
    [h_spec : [1 .. 2 -> {<<>>, <<0>>, <<1>>, <<2>>, <<3>>, <<1, 1>>}],
     v_spec : {<< <<1>>, <<0>>, <<1>> >>, << <<2>>, <<0>>, <<2>> >>,
               << <<1>>, <<1>>, <<2>> >>, << <<2>>, <<1>>, <<2>> >>}]

\* Two employees and a department at a time, two of which are stored.
MCPlaces == [Employee |-> 2, Department |-> 1]
=============================================================================
