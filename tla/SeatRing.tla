------------------------------ MODULE SeatRing ------------------------------
(***************************************************************************)
(* The ring of seats shared by the two games: seats are numbered from 0,   *)
(* play moves clockwise to the next seat that satisfies a condition, and   *)
(* amounts of chips are added up over the seats.                           *)
(*                                                                         *)
(* Sums are written out for the eight seats a table can have, so that the  *)
(* provers can compute with them.                                          *)
(***************************************************************************)
EXTENDS Integers

CONSTANT MaxSeats        \* number of seats of a table (8 in poker, 3 in landlord)

ASSUME SeatsAssumption == MaxSeats \in 2..8

Seats  == 0 .. MaxSeats - 1
NoSeat == -1

\* Clockwise steps from one seat to another; a full circle back to itself.
Distance(from, s) ==
  LET d == (s - from) % MaxSeats IN IF d = 0 THEN MaxSeats ELSE d

\* The first member of S met when walking clockwise from a seat (or from
\* NoSeat, the position before seat 0).
NextIn(S, from) ==
  IF S = {} THEN NoSeat
  ELSE CHOOSE s \in S : \A o \in S : Distance(from, s) <= Distance(from, o)

\* Sum of a function over the seats.
SeatSum(f) ==
  LET at(s) == IF s \in Seats THEN f[s] ELSE 0
  IN  at(0) + at(1) + at(2) + at(3) + at(4) + at(5) + at(6) + at(7)

=============================================================================
