---------------------------- MODULE MCFlightStream ----------------------------
(***************************************************************************)
(* Bounded instances of FlightStream: eight batches against the code's     *)
(* channel of four, among them batches that need one, two and no data      *)
(* message.                                                                *)
(***************************************************************************)
EXTENDS FlightStream

MCEnds == [k \in 0..8 |-> <<0, 0, 1, 3, 4, 4, 5, 6, 7>>[k + 1]]
===============================================================================
