------------------------------ MODULE MCLandlord ------------------------------
(* Small deals of the landlord game, chosen so that bombs, the rocket, attached
   cards, springs and long chains come up. *)
EXTENDS LandlordScene, TLC

Bag(f) == [r \in Ranks |-> IF r \in DOMAIN f THEN f[r] ELSE 0]

\* seat 1 holds a bomb if it gets the bottom
Bombs == [hands |-> (0 :> Bag(3 :> 1)) @@ (1 :> Bag(5 :> 3)) @@ (2 :> Bag(4 :> 1)),
          bottom |-> Bag(5 :> 1)]
\* whoever becomes landlord holds two cards against one each; seat 0 the rocket
Jokers == [hands |-> (0 :> Bag(16 :> 1)) @@ (1 :> Bag(3 :> 1)) @@ (2 :> Bag(4 :> 1)),
           bottom |-> Bag(17 :> 1)]
\* the bottom brings seat 1 single cards for a plane of three
Planes == [hands |-> (0 :> Bag(14 :> 1)) @@ (1 :> Bag(3 :> 3 @@ 4 :> 3 @@ 5 :> 3)) @@ (2 :> Bag(15 :> 1)),
           bottom |-> Bag(10 :> 1 @@ 12 :> 1 @@ 16 :> 1)]
SmallDeals == {Bombs, Jokers}
PlaneDeal  == {Planes}

\* every set of cards from 10 to the two, with either joker or both
Laydowns  == [10..15 -> 0..4] \X [16..17 -> 0..1]
SomeCards == {[r \in Ranks |-> IF r \in 10..15 THEN l[1][r] ELSE IF r > 15 THEN l[2][r] ELSE 0] : l \in Laydowns}

Symmetry   == Permutations(Users)
=============================================================================
