---------------------------- MODULE MCRaceTrack -----------------------------
(***************************************************************************)
(* RaceTrack on small stages of three columns and three rows: two players  *)
(* and one alone, on two stages each.                                      *)
(***************************************************************************)
EXTENDS RaceTrack

\* Two players have little room, and a stage is a wall but for a lane or a cell.
\* The first stage of the one alone has a wall on the starting cell and one on
\* the way up, the second a closed top row.
MCRaces ==
    {[num |-> 2, final |-> 2,
      walls |-> <<Cells \ {<<2, 1>>, <<2, 2>>}, Cells \ {<<3, 3>>}>>],
     [num |-> 1, final |-> 2,
      walls |-> <<{<<2, 3>>, <<1, 2>>, <<3, 1>>}, {<<1, 1>>, <<2, 1>>, <<3, 1>>, <<2, 2>>}>>]}
=============================================================================
