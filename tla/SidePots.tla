------------------------------ MODULE SidePots ------------------------------
(***************************************************************************)
(* How the chips committed to a poker hand are returned and awarded: the   *)
(* refund of the part of the largest bet nobody matched, and the layers of *)
(* the pot (a main pot and side pots), each split between the best hands   *)
(* among the players who put chips into it and did not fold.               *)
(*                                                                         *)
(* "committed" is what each seat put in, "contesting" the seats that did   *)
(* not fold, and "rank" the strength of the seats' best five cards.        *)
(***************************************************************************)
EXTENDS SeatRing, FiniteSets

\* The seat that alone committed the most, if there is one.
SoleLeader(committed) ==
  {s \in Seats : \A o \in Seats \ {s} : committed[o] < committed[s]}

\* What the others matched of the largest bet.
Matched(committed, s) ==
  CHOOSE m \in {committed[o] : o \in Seats \ {s}} :
    \A o \in Seats \ {s} : committed[o] <= m

\* Chips handed back before the pot is awarded.
Refund(committed) ==
  [s \in Seats |-> IF s \in SoleLeader(committed)
                     THEN committed[s] - Matched(committed, s) ELSE 0]

\* Each distinct amount committed is the top of a layer; the layer is named by
\* the first seat that committed that amount.
NamesLayer(committed, r) ==
  committed[r] > 0 /\ \A o \in Seats : committed[o] = committed[r] => r <= o

\* Mutant: every layer starts from zero.
BelowNothing(committed, top) == 0

\* The amount at which the layer that ends at "top" starts.
Below(committed, top) ==
  CHOOSE b \in {0} \cup {committed[o] : o \in Seats} :
    /\ b < top
    /\ \A o \in Seats : committed[o] < top => committed[o] <= b

Contributors(committed, top) == {s \in Seats : committed[s] >= top}

LayerAmount(committed, top) ==
  (top - Below(committed, top)) * Cardinality(Contributors(committed, top))

\* Mutant: who did not fold competes for every layer.
LayerWinnersAnyone(committed, contesting, rank, top) ==
  {s \in contesting : \A o \in contesting : rank[o] <= rank[s]}

\* Mutant: equal hands do not win.
LayerWinnersUnequalled(committed, contesting, rank, top) ==
  LET eligible == Contributors(committed, top) \cap contesting
  IN  {s \in eligible : \A o \in eligible \ {s} : rank[o] < rank[s]}

\* The best hands among the contributors that did not fold.
LayerWinners(committed, contesting, rank, top) ==
  LET eligible == Contributors(committed, top) \cap contesting
  IN  {s \in eligible : \A o \in eligible : rank[o] <= rank[s]}

\* Mutant: the odd chips are not paid.
ShareRoundedDown(amount, winners, button, s) == amount \div Cardinality(winners)

\* An equal share, plus one odd chip for the winners first on the button's left.
Share(amount, winners, button, s) ==
  LET ahead == {o \in winners : Distance(button, o) < Distance(button, s)}
  IN  (amount \div Cardinality(winners))
        + (IF Cardinality(ahead) < amount % Cardinality(winners) THEN 1 ELSE 0)

\* What a seat wins of all the layers. A layer whose contributors have all
\* folded has no winner and is paid to nobody.
Payout(committed, contesting, rank, button) ==
  [s \in Seats |->
     SeatSum([r \in Seats |->
       LET winners == LayerWinners(committed, contesting, rank, committed[r])
       IN  IF NamesLayer(committed, r) /\ s \in winners
             THEN Share(LayerAmount(committed, committed[r]), winners, button, s)
             ELSE 0])]

=============================================================================
