---------------------------- MODULE LandlordTable ----------------------------
(***************************************************************************)
(* The landlord table (internal/landlord/table.go): three players bid for   *)
(* the landlord's part, then play against each other until a hand is empty. *)
(* One action per operation: Join, Leave, Ready, Act (bid, play, pass) and  *)
(* Timeout.  The shuffle is a choice among Deals.                           *)
(***************************************************************************)
EXTENDS SeatRing, LandlordCards

CONSTANTS
  Users, NoUser,
  BaseStake,       \* chips a stake is counted in
  BuyIns,          \* chips a player may sit down with
  Deals,           \* what the shuffle of one pack may yield: the hands by seat,
                   \* none of them empty, and the bottom
  MaxHands,        \* bound: hands dealt
  MaxChips,        \* bound: chips brought to the table
  MaxBadShuffles,  \* bound: shuffles that find no random source
  MaxBids          \* bound: bids of one hand, 3 but after a failed shuffle

ASSUME LandlordAssumption ==
  /\ MaxSeats = 3
  /\ NoUser \notin Users
  /\ BaseStake \in Nat \ {0} /\ BuyIns \subseteq Nat \ {0}
  /\ \A d \in Deals :
       /\ d.hands \in [Seats -> Cards \ {NoCards}] /\ d.bottom \in Cards
       /\ \A r \in Ranks : d.bottom[r] + d.hands[0][r] + d.hands[1][r] + d.hands[2][r] <= 4
  /\ {MaxHands, MaxChips, MaxBadShuffles} \subseteq Nat
  /\ MaxBids \in Nat /\ MaxBids > MaxSeats

VARIABLES
  table,     \* the table's state
  supply,    \* history: chips brought to the table minus chips taken away
  deck,      \* history: all cards of the hand that was dealt last
  played,    \* history: the cards played of them
  passers,   \* history: seats that passed since the last play
  bad        \* history: shuffles that failed

vars == <<table, supply, deck, played, passers, bad>>

-----------------------------------------------------------------------------
(* Data *)

NoResult == [winner |-> NoSeat, stake |-> 0, payout |-> [s \in Seats |-> 0]]

Everyone(x) == [s \in Seats |-> x]

NewTable ==
  [user |-> Everyone(NoUser), stack |-> Everyone(0), hand |-> Everyone(NoCards),
   ready |-> Everyone(FALSE), bid |-> Everyone(0), plays |-> Everyone(0),
   phase |-> "waiting", dealer |-> NoSeat, acting |-> NoSeat, bottom |-> NoCards,
   highestBid |-> 0, highestBidder |-> NoSeat, bidCount |-> 0, landlord |-> NoSeat,
   last |-> NoCombination, lastSeat |-> NoSeat, trickOpen |-> FALSE, passCount |-> 0,
   multiplier |-> 1, handID |-> 0, turnID |-> 0, expired |-> FALSE, result |-> NoResult]

HandActive(t)  == t.phase \in {"bidding", "playing"}
SeatOf(t, u)   == {s \in Seats : t.user[s] = u}
Occupied(t)    == {s \in Seats : t.user[s] # NoUser}
Playable(t)    == {s \in Occupied(t) : t.stack[s] > 0}
Smaller(a, b)  == IF a <= b THEN a ELSE b

-----------------------------------------------------------------------------
(* Steps the operations are made of *)

\* Mutant: a new decision is due under the old turn number.
SetActingSameTurn(t, s) == [t EXCEPT !.acting = s, !.expired = FALSE]

SetActing(t, s) == [t EXCEPT !.acting = s, !.turnID = @ + 1, !.expired = FALSE]
NextSeat(t, s)  == NextIn(Playable(t), s)

\* dealLocked: the deal d starts a hand; the turn to bid first moves on by a seat.
Dealt(t, d) ==
  LET fresh == [t EXCEPT
        !.handID = @ + 1, !.phase = "bidding", !.bottom = d.bottom, !.hand = d.hands,
        !.highestBid = 0, !.highestBidder = NoSeat, !.bidCount = 0, !.landlord = NoSeat,
        !.last = NoCombination, !.lastSeat = NoSeat, !.trickOpen = FALSE,
        !.passCount = 0, !.multiplier = 1, !.result = NoResult,
        !.dealer = NextSeat(t, t.dealer),
        !.ready = Everyone(FALSE), !.bid = Everyone(0), !.plays = Everyone(0)]
  IN  SetActing(fresh, fresh.dealer)

\* Mutant: the bottom is shown, but not taken.
CrownedWithout(t) ==
  SetActing([t EXCEPT !.landlord = t.highestBidder, !.phase = "playing",
                      !.trickOpen = FALSE, !.passCount = 0], t.highestBidder)

\* finalizeLandlordLocked: the highest bidder takes the bottom and leads.
Crowned(t) ==
  LET s == t.highestBidder
  IN  SetActing([t EXCEPT !.landlord = s, !.hand[s] = Plus(@, t.bottom),
                          !.phase = "playing", !.trickOpen = FALSE, !.passCount = 0], s)

\* bidLocked up to where it may deal again.
BidMade(t, s, n) ==
  [t EXCEPT !.bid[s] = n, !.bidCount = @ + 1,
            !.highestBid = IF n > @ THEN n ELSE @,
            !.highestBidder = IF n > t.highestBid THEN s ELSE @]

\* Spring, and its opposite, double the stake once more.
Factor(t, winner) ==
  LET farmers == Seats \ {t.landlord}
      spring  == IF winner = t.landlord THEN \A f \in farmers : t.plays[f] = 0
                 ELSE t.plays[t.landlord] = 1
  IN  t.multiplier * (IF spring THEN 2 ELSE 1)

\* Mutant: a landlord who cannot pay both farmers pays each of them all he has.
GainsTwice(t, winner, unit) ==
  LET l == t.landlord
      farmers == Seats \ {l}
      paid == [f \in farmers |-> Smaller(unit, IF winner = l THEN t.stack[f] ELSE t.stack[l])]
      sum  == SumOf(paid, farmers)
  IN  [s \in Seats |-> IF winner = l THEN (IF s = l THEN sum ELSE 0 - paid[s])
                       ELSE IF s = l THEN 0 - sum ELSE paid[s]]

\* finishLocked: what each seat wins.  Farmers pay the landlord what they have of
\* the stake; a landlord pays the second farmer the odd chip of what he has.
Gains(t, winner, unit) ==
  LET l         == t.landlord
      farmers   == Seats \ {l}
      available == Smaller(t.stack[l], 2 * unit)
      half(f)   == IF f = Min(farmers) THEN available \div 2 ELSE available - available \div 2
      paid(f)   == IF winner = l THEN 0 - Smaller(unit, t.stack[f]) ELSE Smaller(unit, half(f))
      f1        == Min(farmers)
      f2        == Max(farmers)
  IN  [s \in Seats |-> IF s = l THEN 0 - paid(f1) - paid(f2) ELSE paid(s)]

Finished(t, winner) ==
  LET unit == BaseStake * t.highestBid * Factor(t, winner)
      gain == Gains(t, winner, unit)
  IN  [t EXCEPT !.multiplier = Factor(t, winner),
                !.stack = [s \in Seats |-> @[s] + gain[s]],
                !.result = [winner |-> winner, stake |-> unit, payout |-> gain],
                !.ready = Everyone(FALSE), !.phase = "complete", !.acting = NoSeat,
                !.expired = FALSE]

-----------------------------------------------------------------------------
(* The operations *)

NothingPlayed == UNCHANGED <<deck, played, passers>>

Join(u, buyIn) ==
  /\ table.handID < MaxHands /\ supply + buyIn <= MaxChips
  /\ ~HandActive(table) /\ SeatOf(table, u) = {} /\ Occupied(table) # Seats
  /\ LET s == Min(Seats \ Occupied(table))
     IN  table' = [table EXCEPT !.user[s] = u, !.stack[s] = buyIn, !.hand[s] = NoCards,
                                !.ready[s] = FALSE, !.bid[s] = 0, !.plays[s] = 0]
  /\ supply' = supply + buyIn
  /\ NothingPlayed /\ UNCHANGED bad

Leave(u) ==
  /\ ~HandActive(table)
  /\ \E s \in SeatOf(table, u) :
       /\ table' = [table EXCEPT !.user[s] = NoUser, !.stack[s] = 0, !.hand[s] = NoCards,
                                 !.bid[s] = 0, !.plays[s] = 0, !.ready = Everyone(FALSE)]
       /\ supply' = supply - table.stack[s]
  /\ NothingPlayed /\ UNCHANGED bad

\* The cards of a new hand, noted for the properties.
Noted(d) ==
  /\ deck' = [r \in Ranks |-> d.bottom[r] + d.hands[0][r] + d.hands[1][r] + d.hands[2][r]]
  /\ played' = NoCards /\ passers' = {}

\* shuffledDeck finds no random source.
BadShuffle == bad < MaxBadShuffles /\ bad' = bad + 1 /\ NothingPlayed

\* A second Ready takes the first one back.
MayReady(u) == table.handID < MaxHands /\ ~HandActive(table) /\ SeatOf(table, u) \cap Playable(table) # {}
Toggled(u)  == [table EXCEPT !.ready = [s \in Seats |-> IF s \in SeatOf(table, u) THEN ~@[s] ELSE @[s]]]
Complete(t) == Playable(t) = Seats /\ \A s \in Seats : t.ready[s]

Ready(u) ==
  /\ MayReady(u) /\ ~Complete(Toggled(u))
  /\ table' = Toggled(u)
  /\ NothingPlayed /\ UNCHANGED <<supply, bad>>

ReadyAndDeal(u) ==
  /\ MayReady(u) /\ Complete(Toggled(u))
  /\ \/ \E d \in Deals : table' = Dealt(Toggled(u), d) /\ Noted(d) /\ UNCHANGED bad
     \/ BadShuffle /\ table' = table
  /\ UNCHANGED supply

\* Mutant: bidding is over when the last of the three is asked.
LastBidAsked(t) == t.bidCount = MaxSeats - 1

LastBid(t) == t.bidCount = MaxSeats

\* bidLocked of the seat to act.  When all three pass the cards are dealt again;
\* if that shuffle fails the bid stays counted and the turn stays where it is.
BidBy(s, n) ==
  LET t == BidMade(table, s, n)
  IN  /\ table.phase = "bidding" /\ (n = 0 \/ n > table.highestBid)
      /\ table.bidCount < MaxBids
      /\ IF n = 3 \/ LastBid(t)
         THEN IF t.highestBidder = NoSeat
              THEN \/ /\ table.handID < MaxHands
                      /\ \E d \in Deals : table' = Dealt(t, d) /\ Noted(d) /\ UNCHANGED bad
                   \/ BadShuffle /\ table' = t
              ELSE table' = Crowned(t) /\ NothingPlayed /\ UNCHANGED bad
         ELSE table' = SetActing(t, NextSeat(t, s)) /\ NothingPlayed /\ UNCHANGED bad

Leads(t, s) == ~t.trickOpen \/ t.lastSeat = s

\* Mutant: a play does not start the count of the passes again.
PlaysOnCounting(t, s, c) ==
  [t EXCEPT !.hand[s] = Minus(@, c), !.plays[s] = @ + 1, !.last = Classify(c),
            !.lastSeat = s, !.trickOpen = TRUE,
            !.multiplier = IF Classify(c).kind \in {"bomb", "rocket"} THEN 2 * @ ELSE @]

Plays(t, s, c) ==
  [t EXCEPT !.hand[s] = Minus(@, c), !.plays[s] = @ + 1, !.last = Classify(c),
            !.lastSeat = s, !.trickOpen = TRUE, !.passCount = 0,
            !.multiplier = IF Classify(c).kind \in {"bomb", "rocket"} THEN 2 * @ ELSE @]

PlayAccepted(s, c) ==
  /\ c # NoCards /\ Holds(table.hand[s], c)
  /\ Classify(c) # NoCombination
  /\ Leads(table, s) \/ Beats(Classify(c), table.last)

PlayBy(s, c) ==
  /\ table.phase = "playing" /\ PlayAccepted(s, c)
  /\ LET t == Plays(table, s, c)
     IN  table' = IF t.hand[s] = NoCards THEN Finished(t, s) ELSE SetActing(t, NextSeat(t, s))
  /\ played' = Plus(played, c) /\ passers' = {}
  /\ UNCHANGED <<deck, bad>>

PassBy(s) ==
  /\ table.phase = "playing" /\ ~Leads(table, s)
  /\ table' = IF table.passCount + 1 >= MaxSeats - 1
              THEN SetActing([table EXCEPT !.trickOpen = FALSE, !.passCount = 0], table.lastSeat)
              ELSE SetActing([table EXCEPT !.passCount = @ + 1], NextSeat(table, s))
  /\ passers' = passers \cup {s}
  /\ UNCHANGED <<deck, played, bad>>

\* Act, before the deadline.
MayAct(s)  == HandActive(table) /\ s = table.acting /\ ~table.expired
Bid(s, n)  == MayAct(s) /\ BidBy(s, n) /\ UNCHANGED supply
Play(s, c) == MayAct(s) /\ PlayBy(s, c) /\ UNCHANGED supply
Pass(s)    == MayAct(s) /\ PassBy(s) /\ UNCHANGED supply

DeadlinePasses ==
  /\ HandActive(table) /\ ~table.expired
  /\ table' = [table EXCEPT !.expired = TRUE]
  /\ NothingPlayed /\ UNCHANGED <<supply, bad>>

Lowest(hand) == [NoCards EXCEPT ![Min(RanksIn(hand))] = 1]

\* The timer of turn id: no bid, the lowest card of a leader, a pass of the others.
Timeout(id) ==
  /\ HandActive(table) /\ table.expired /\ id = table.turnID
  /\ LET s == table.acting
     IN  \/ table.phase = "bidding" /\ BidBy(s, 0)
         \/ table.phase = "playing" /\ Leads(table, s) /\ PlayBy(s, Lowest(table.hand[s]))
         \/ table.phase = "playing" /\ ~Leads(table, s) /\ PassBy(s)
  /\ UNCHANGED supply

-----------------------------------------------------------------------------
Init ==
  /\ table = NewTable
  /\ supply = 0 /\ bad = 0
  /\ deck = NoCards /\ played = NoCards /\ passers = {}

Next ==
  \/ \E u \in Users, b \in BuyIns : Join(u, b)
  \/ \E u \in Users : Leave(u) \/ Ready(u) \/ ReadyAndDeal(u)
  \/ \E s \in Seats, n \in 0..3 : Bid(s, n)
  \/ \E s \in Seats : \E c \in Picks(table.hand[s]) : Play(s, c)
  \/ \E s \in Seats : Pass(s)
  \/ DeadlinePasses
  \/ Timeout(table.turnID)

Spec == Init /\ [][Next]_vars

-----------------------------------------------------------------------------
(* Properties *)

\* The counter a player sees next to his hand (Snapshot, table.go:325-341).
RemainingCounts(t, viewer) ==
  [r \in Ranks |->
     SumOf([s \in Seats |-> t.hand[s][r]], Occupied(t) \ {viewer})
       + (IF t.landlord = NoSeat THEN t.bottom[r] ELSE 0)]

\* However bids, plays, passes, failed shuffles and new deals follow each other,
\* the card counter shows every player exactly the cards of this deal that are
\* neither in his own hand nor on the table: no card is lost, dealt twice, kept
\* from an earlier deal, or handed out with the bottom and still counted in it.
CounterExact ==
  HandActive(table) =>
    \A s \in Seats : RemainingCounts(table, s) = Minus(Minus(deck, table.hand[s]), played)

\* Chips only change hands.  What a hand pays sums to zero, takes from nobody
\* more than he brought into it, from no farmer more than one stake, and two
\* farmers who beat a landlord that cannot pay both share what he has to the chip.
ChipsConserved ==
  /\ SeatSum(table.stack) = supply
  /\ \A s \in Seats : table.stack[s] >= 0
  /\ table.phase = "complete" /\ table.result # NoResult =>
       LET pay == table.result.payout
           farmers == Seats \ {table.landlord}
       IN  /\ SeatSum(pay) = 0
           /\ \A f \in farmers : pay[f] \in -table.result.stake .. table.result.stake
           /\ table.result.winner # table.landlord =>
                \A f, g \in farmers : pay[f] >= 0 /\ pay[f] - pay[g] \in -1..1

\* Bidding goes once around the table, whatever is bid and however often all
\* three pass and new cards are dealt, until somebody bids three or all were asked,
\* and the landlord is the one who bid most.
\* Only a shuffle that fails after the third pass breaks the round (table.go:461).
BidsGoRound ==
  /\ table.phase = "bidding" /\ bad = 0 =>
       table.bidCount < MaxSeats /\ table.acting = (table.dealer + table.bidCount) % MaxSeats
  /\ table.phase = "playing" =>
       /\ \A s \in Seats \ {table.landlord} : table.bid[s] < table.bid[table.landlord]
       /\ bad = 0 => table.bid[table.landlord] = 3 \/ table.bidCount = MaxSeats

\* A round closes only after both other players passed on the last play, one
\* after the other and without a play between, and the one who made it leads.
RoundsCloseAfterTwoPasses ==
  [][(table.trickOpen /\ table.phase = "playing" /\ table'.phase = "playing" /\ ~table'.trickOpen)
       => /\ table'.acting = table.lastSeat
          /\ passers' = Seats \ {table.lastSeat}]_vars

\* Of all the sets of cards a player may lay down, the game accepts exactly those
\* the rules list -- no chain runs into the two or the jokers, no attached card
\* is counted twice -- but for some planes.  The samples are judged once, at the
\* new table, and the hands of the players all the time.
CombinationsAsDocumented ==
  /\ table = NewTable => \A c \in Samples : AsDocumented(c)
  /\ \A s \in Seats : AsDocumented(table.hand[s])

\* What the rules promise whoever leads a round: he may lay down any set of his
\* cards they list, planes with single cards among them (docs/LANDLORD_RULES.md:19).
LeaderPlaysWhatRulesList ==
  table.phase = "playing" /\ Leads(table, table.acting) =>
    \A c \in Picks(table.hand[table.acting]) : Documented(c) => PlayAccepted(table.acting, c)

\* The landlord table keeps the promises the service relies on (game_runtime.go).
Game == INSTANCE CardGame WITH
  JoinMidHand <- FALSE,
  who     <- table.user,
  chips   <- table.stack,
  playing <- IF HandActive(table) THEN Seats ELSE {},
  turn    <- table.turnID,
  expired <- table.expired
ImplementsCardGame == Game!GameSpec
=============================================================================
