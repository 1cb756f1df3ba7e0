---------------------------- MODULE LandlordCards ----------------------------
(***************************************************************************)
(* The combinations of landlord (dou dizhu), internal/landlord/             *)
(* combination.go.  Suits decide nothing, so a set of cards is the number   *)
(* of its cards of each rank.                                               *)
(***************************************************************************)
EXTENDS Sums, FiniteSets

CONSTANTS
  Ranks,             \* ranks of the deck, with the values of card.go: 3 .. 10,
                     \* J Q K A = 11 .. 14, the two, the small and the big joker
  Samples            \* sets of cards on which the rules are compared

Ace        == 14
Two        == 15
SmallJoker == 16
BigJoker   == 17


Cards    == [Ranks -> 0..4]

ASSUME CardsAssumption == Ranks \subseteq 3..BigJoker /\ Samples \subseteq Cards

NoCards  == [r \in Ranks |-> 0]
Size(c)  == SumOf(c, Ranks)
RanksIn(c)       == {r \in Ranks : c[r] > 0}
With(c, n)       == {r \in Ranks : c[r] = n}
AllCount(c, R, n) == \A r \in R : c[r] = n

\* Whether hand has the cards, and what is left of it without them.
Holds(hand, c)  == \A r \in Ranks : c[r] <= hand[r]
Minus(hand, c)  == [r \in Ranks |-> hand[r] - c[r]]
Plus(hand, c)   == [r \in Ranks |-> hand[r] + c[r]]

\* The nonempty sets of cards somebody can pick from his hand.
Picks(hand) ==
  {[r \in Ranks |-> Cardinality({x \in S : x[1] = r})] :
     S \in SUBSET (UNION {{r} \X (1..hand[r]) : r \in RanksIn(hand)})} \ {NoCards}

Kinds == {"single", "pair", "triple", "triple_single", "triple_pair", "straight",
          "consecutive_pairs", "plane", "plane_singles", "plane_pairs",
          "four_singles", "four_pairs", "bomb", "rocket"}

NoCombination == [kind |-> "none", main |-> 0, length |-> 0, chain |-> 0]
Combination   == [kind : Kinds, main : Ranks, length : 1..20, chain : 0..12] \cup {NoCombination}

Consecutive(R) == R = Min(R)..Max(R)

\* classifyPlane: the size of the wings follows from the number of cards alone,
\* the first rule that divides it applies.
PlaneWing(n) ==
  IF n >= 6 /\ n % 3 = 0 THEN 0
  ELSE IF n >= 8 /\ n % 4 = 0 THEN 1
  ELSE IF n >= 10 /\ n % 5 = 0 THEN 2 ELSE -1
PlaneKind(wing) == <<"plane", "plane_singles", "plane_pairs">>[wing + 1]

\* The lowest ranks at which the triples of a plane may start.
PlaneStarts(c, wing, chain) ==
  {s \in Ranks :
     LET main == s..s + chain - 1
     IN  /\ s + chain - 1 <= Ace /\ main \subseteq With(c, 3)
         /\ wing = 0 => RanksIn(c) = main
         /\ wing = 2 => AllCount(c, RanksIn(c) \ main, 2)}

\* Mutant: chains may hold the two and the jokers.
ChainableHigh(c) == Consecutive(RanksIn(c))

\* Ranks in a row, none above the ace.
Chainable(c) == Consecutive(RanksIn(c)) /\ Max(RanksIn(c)) <= Ace

Classify(c) ==
  LET n     == Size(c)
      R     == RanksIn(c)
      wing  == PlaneWing(n)
      chain == n \div (3 + wing)
      is(kind, main, links) == [kind |-> kind, main |-> main, length |-> n, chain |-> links]
  IN  CASE n = 0                                     -> NoCombination
        [] n = 2 /\ R = {SmallJoker, BigJoker}       -> is("rocket", BigJoker, 0)
        [] n = 4 /\ AllCount(c, R, 4)                -> is("bomb", Max(R), 0)
        [] n = 1                                     -> is("single", Max(R), 0)
        [] n = 2 /\ AllCount(c, R, 2)                -> is("pair", Max(R), 0)
        [] n = 3 /\ AllCount(c, R, 3)                -> is("triple", Max(R), 0)
        [] n = 4 /\ With(c, 3) # {}                  -> is("triple_single", Max(With(c, 3)), 0)
        [] n = 5 /\ With(c, 3) # {} /\ With(c, 2) # {} -> is("triple_pair", Max(With(c, 3)), 0)
        [] n >= 5 /\ AllCount(c, R, 1) /\ Chainable(c) -> is("straight", Max(R), n)
        [] n >= 6 /\ AllCount(c, R, 2) /\ Chainable(c) -> is("consecutive_pairs", Max(R), n \div 2)
        [] wing # -1 /\ chain >= 2 /\ PlaneStarts(c, wing, chain) # {}
             -> is(PlaneKind(wing), Min(PlaneStarts(c, wing, chain)) + chain - 1, chain)
        [] n = 6 /\ With(c, 4) # {}                  -> is("four_singles", Max(With(c, 4)), 0)
        [] n = 8 /\ \E f \in With(c, 4) :
             Cardinality(R \ {f}) = 2 /\ AllCount(c, R \ {f}, 2)
             -> is("four_pairs", Max(With(c, 4)), 0)
        [] OTHER                                     -> NoCombination

Beats(next, previous) ==
  \/ next.kind = "rocket" /\ previous.kind # "rocket"
  \/ next.kind = "bomb" /\ previous.kind \notin {"bomb", "rocket"}
  \/ /\ next.kind # "rocket"
     /\ <<next.kind, next.length, next.chain>> = <<previous.kind, previous.length, previous.chain>>
     /\ next.main > previous.main

-----------------------------------------------------------------------------
(* The combinations docs/LANDLORD_RULES.md:18-23 lists.                     *)

\* A chain of at least `least` ranks, none above the ace, each n times.
IsChain(c, R, n, least) ==
  /\ Cardinality(R) >= least /\ Consecutive(R) /\ Max(R) <= Ace /\ AllCount(c, R, n)

\* A body of triples, each with `wing` cards attached (none, any one, or a pair).
IsPlane(c, R, wing) ==
  LET rest == RanksIn(c) \ R
  IN  /\ IsChain(c, R, 3, 2)
      /\ Size(c) = (3 + wing) * Cardinality(R)
      /\ wing = 2 => AllCount(c, rest, 2)

Documented(c) ==
  LET n == Size(c)
      R == RanksIn(c)
  IN  \/ Cardinality(R) = 1
      \/ R = {SmallJoker, BigJoker} /\ n = 2
      \/ \E r \in R : c[r] = 3 /\ (n = 4 \/ (n = 5 /\ AllCount(c, R \ {r}, 2)))
      \/ \E r \in R : c[r] = 4 /\ n = 6
      \/ \E r \in R : c[r] = 4 /\ n = 8 /\ AllCount(c, R \ {r}, 2)
      \/ IsChain(c, R, 1, 5) \/ IsChain(c, R, 2, 3)
      \/ \E a, b \in R, wing \in 0..2 : a < b /\ a..b \subseteq R /\ IsPlane(c, a..b, wing)

\* A plane with wings whose number of cards also divides as one with smaller wings.
Shadowed(c) ==
  \E a, b \in RanksIn(c), wing \in 1..2 :
    /\ a < b /\ a..b \subseteq RanksIn(c) /\ IsPlane(c, a..b, wing)
    /\ PlaneWing(Size(c)) < wing

\* Classify accepts the cards exactly if the rules list them, but for the planes
\* whose wings it looks for in the wrong order (combination.go:126).
AsDocumented(c) ==
  /\ Classify(c) # NoCombination => Documented(c)
  /\ Documented(c) /\ ~Shadowed(c) => Classify(c) # NoCombination

=============================================================================
