------------------------ MODULE LandlordTable_proofs ------------------------
(***************************************************************************)
(* Theorems about LandlordTable, for any users, stakes, deals and bounds.   *)
(*                                                                         *)
(* The invariant LInv says of a table who is to bid and what was bid before *)
(* him (Bidding), which round is open and who passed in it (Playing), where *)
(* the cards of the deal are (Counted), whose the chips are (Funds) and what*)
(* the last hand paid (Paid). A lemma for each thing an operation does to a *)
(* table shows that sound tables go to sound tables; NextKeeps puts them    *)
(* together and says what the step is in the eyes of the service (Does).    *)
(*                                                                         *)
(* Held says that the hands are cards of one pack, which is what is needed  *)
(* of them to judge them: the size of a set of cards settles what its ranks *)
(* can be, so that Classify and the rules agree, and a hand that is played  *)
(* always has a lowest card to lead.                                        *)
(***************************************************************************)
EXTENDS LandlordScene, Sums_proofs

-----------------------------------------------------------------------------
(* The invariant *)

Hands == [Ranks -> Nat]

TableState ==
  [user : [Seats -> Users \cup {NoUser}], stack : [Seats -> Nat], hand : [Seats -> Hands],
   ready : [Seats -> BOOLEAN], bid : [Seats -> 0..3], plays : [Seats -> Nat],
   phase : {"waiting", "bidding", "playing", "complete"},
   dealer : Seats \cup {NoSeat}, acting : Seats \cup {NoSeat}, bottom : Hands,
   highestBid : 0..3, highestBidder : Seats \cup {NoSeat}, bidCount : Nat,
   landlord : Seats \cup {NoSeat},
   last : {NoCombination} \cup {Classify(c) : c \in Hands},
   lastSeat : Seats \cup {NoSeat}, trickOpen : BOOLEAN, passCount : Nat,
   multiplier : Nat, handID : Nat, turnID : Nat, expired : BOOLEAN,
   result : [winner : Seats \cup {NoSeat}, stake : Nat, payout : [Seats -> Int]]]

\* The seat k places on.
On(s, k) == (s + k) % MaxSeats

\* Chips are at occupied seats, and they are those that were brought.
Funds(t, chips) ==
  /\ \A s \in Seats : t.user[s] = NoUser => t.stack[s] = 0
  /\ SeatSum(t.stack) = chips

\* A hand is played by three players with chips, and it is somebody's turn.
Filled(t) ==
  HandActive(t) =>
    /\ \A s \in Seats : t.user[s] # NoUser /\ t.stack[s] > 0
    /\ t.dealer \in Seats /\ t.acting \in Seats

\* While the first three bids are made: whose turn it is, who has not been asked,
\* and that one seat bid most. After a failed shuffle only that no bid is above.
Bidding(t, failed) ==
  t.phase = "bidding" =>
    /\ t.landlord = NoSeat /\ t.highestBid < 3
    /\ \A s \in Seats : t.bid[s] <= t.highestBid
    /\ t.highestBidder = NoSeat => t.highestBid = 0
    /\ t.bidCount >= MaxSeats => failed > 0
    /\ t.bidCount < MaxSeats =>
         /\ t.acting = On(t.dealer, t.bidCount)
         /\ \A k \in t.bidCount..2 : t.bid[On(t.dealer, k)] = 0
         /\ t.highestBidder # NoSeat =>
              /\ t.bid[t.highestBidder] = t.highestBid /\ t.highestBid > 0
              /\ \A s \in Seats \ {t.highestBidder} : t.bid[s] < t.highestBid

\* The landlord bid most, and a round is between the last play and the second pass.
Playing(t, failed, passed) ==
  t.phase = "playing" =>
    /\ t.landlord \in Seats
    /\ \A s \in Seats \ {t.landlord} : t.bid[s] < t.bid[t.landlord]
    /\ failed = 0 => t.bid[t.landlord] = 3 \/ t.bidCount = MaxSeats
    /\ t.trickOpen =>
         /\ t.lastSeat \in Seats /\ t.passCount \in {0, 1}
         /\ t.acting = On(t.lastSeat, 1 + t.passCount)
         /\ passed = {On(t.lastSeat, k) : k \in 1..t.passCount}

\* Every card of the deal is in a hand, in the bottom nobody took yet, or played.
Counted(t, dealt, out) ==
  HandActive(t) =>
    \A r \in Ranks :
      dealt[r] = t.hand[0][r] + t.hand[1][r] + t.hand[2][r]
                   + (IF t.landlord = NoSeat THEN t.bottom[r] ELSE 0) + out[r]

\* What the hand paid, as long as it is shown.
Paid(t) ==
  (t.phase = "complete" /\ t.result # NoResult) =>
    LET pay == t.result.payout
        farmers == Seats \ {t.landlord}
    IN  /\ SeatSum(pay) = 0
        /\ \A f \in farmers : pay[f] \in -t.result.stake .. t.result.stake
        /\ t.result.winner # t.landlord =>
             \A f, g \in farmers : pay[f] >= 0 /\ pay[f] - pay[g] \in -1..1

Sound(t, chips, failed, dealt, out, passed) ==
  /\ t \in TableState /\ chips \in Int /\ failed \in Nat
  /\ dealt \in Hands /\ out \in Hands /\ passed \subseteq Seats
  /\ Funds(t, chips) /\ Filled(t) /\ Bidding(t, failed) /\ Playing(t, failed, passed)
  /\ Counted(t, dealt, out) /\ Paid(t)

LInv == Sound(table, supply, bad, deck, played, passers)

-----------------------------------------------------------------------------
(* Three seats in a ring *)

\* The table has three seats.
LEMMA ThreeSeats == MaxSeats = 3 /\ Seats = {0, 1, 2} /\ NoSeat \notin Seats
BY LandlordAssumption DEF Seats, NoSeat

\* Places along the ring.
LEMMA OnRing ==
  ASSUME NEW s \in Seats
  PROVE  /\ \A k \in Nat : On(s, k) \in Seats
         /\ On(s, 0) = s /\ On(s, 1) # s /\ On(s, 2) # s /\ On(s, 3) = s
         /\ On(s, 1) # On(s, 2) /\ Seats = {s, On(s, 1), On(s, 2)}
         /\ On(On(s, 1), 1) = On(s, 2) /\ On(On(s, 2), 1) = s
<1>1. s = 0 \/ s = 1 \/ s = 2
  BY ThreeSeats
<1>2. \A k \in Nat : On(s, k) \in Seats
  BY <1>1, ThreeSeats DEF On
<1>. QED
  BY <1>1, <1>2, ThreeSeats DEF On

\* When everybody plays, the turn goes to the next seat; from nowhere, to the first.
LEMMA NextOnRing ==
  ASSUME NEW s \in Seats \cup {NoSeat}
  PROVE  NextIn(Seats, s) = On(s, 1) /\ On(s, 1) \in Seats
<1>. DEFINE n == NextIn(Seats, s)
<1>1. s = -1 \/ s = 0 \/ s = 1 \/ s = 2
  BY ThreeSeats DEF NoSeat
<1>2. On(s, 1) \in Seats /\ Distance(s, On(s, 1)) = 1
  BY <1>1, ThreeSeats DEF Distance, On
<1>3. \A o \in Seats : Distance(s, o) \in 1..3
  BY <1>1, ThreeSeats DEF Distance
<1>4. n \in Seats /\ \A o \in Seats : Distance(s, n) <= Distance(s, o)
  <2>1. \E x \in Seats : \A o \in Seats : Distance(s, x) <= Distance(s, o)
    BY <1>2, <1>3
  <2>. QED
    BY <2>1 DEF NextIn
<1>. HIDE DEF n
<1>5. Distance(s, n) = 1
  BY <1>2, <1>3, <1>4
<1>6. n = On(s, 1)
  BY <1>1, <1>4, <1>5, ThreeSeats DEF Distance, On
<1>. QED
  BY <1>2, <1>6 DEF n

\* The sum over three seats.
LEMMA SumOfThree ==
  ASSUME NEW f
  PROVE  SeatSum(f) = f[0] + f[1] + f[2] + 0 + 0 + 0 + 0 + 0
BY ThreeSeats DEF SeatSum

\* It is an integer, adds up, and changes as one of its parts.
LEMMA SumsOfThree ==
  ASSUME NEW f \in [Seats -> Int], NEW g \in [Seats -> Int]
  PROVE  /\ SeatSum(f) \in Int
         /\ SeatSum([s \in Seats |-> f[s] + g[s]]) = SeatSum(f) + SeatSum(g)
         /\ \A r \in Seats : (\A s \in Seats \ {r} : f[s] = g[s])
                               => SeatSum(g) = SeatSum(f) + g[r] - f[r]
<1>1. /\ f[0] \in Int /\ f[1] \in Int /\ f[2] \in Int
      /\ g[0] \in Int /\ g[1] \in Int /\ g[2] \in Int
  BY ThreeSeats
<1>2. SeatSum([s \in Seats |-> f[s] + g[s]]) = SeatSum(f) + SeatSum(g)
  BY <1>1, SumOfThree, ThreeSeats
<1>3. ASSUME NEW r \in Seats, \A s \in Seats \ {r} : f[s] = g[s]
      PROVE  SeatSum(g) = SeatSum(f) + g[r] - f[r]
  BY <1>1, <1>3, SumOfThree, ThreeSeats
<1>4. SeatSum(f) \in Int
  BY <1>1, SumOfThree
<1>. QED
  BY <1>2, <1>3, <1>4

-----------------------------------------------------------------------------
(* Steps on a table *)

\* What stays when only the turn changes.
SameHand(t, u) ==
  /\ u.user = t.user /\ u.stack = t.stack /\ u.hand = t.hand /\ u.bid = t.bid
  /\ u.phase = t.phase /\ u.dealer = t.dealer /\ u.bottom = t.bottom
  /\ u.highestBid = t.highestBid /\ u.highestBidder = t.highestBidder
  /\ u.bidCount = t.bidCount /\ u.landlord = t.landlord /\ u.lastSeat = t.lastSeat
  /\ u.trickOpen = t.trickOpen /\ u.passCount = t.passCount /\ u.result = t.result

\* Giving the turn to a seat.
LEMMA SetActingFacts ==
  ASSUME NEW t \in TableState, NEW s \in Seats \cup {NoSeat}
  PROVE  LET u == SetActing(t, s)
         IN  /\ u \in TableState /\ SameHand(t, u) /\ u.acting = s
             /\ u.turnID = t.turnID + 1 /\ u.expired = FALSE
<1>. DEFINE u == SetActing(t, s)
            n == t.turnID + 1
<1>1. n \in Nat
  BY DEF TableState
<1>2. u = [t EXCEPT !.acting = s, !.turnID = n, !.expired = FALSE]
  BY DEF SetActing
<1>. HIDE DEF n
<1>3. u \in TableState
  BY <1>1, <1>2, ZenonT(60) DEF TableState
<1>4. u.acting = s /\ u.turnID = n /\ u.expired = FALSE /\ SameHand(t, u)
  BY <1>2 DEF TableState, SameHand
<1>. QED
  BY <1>3, <1>4 DEF n

\* A bid.
LEMMA BidMadeFacts ==
  ASSUME NEW t \in TableState, NEW s \in Seats, NEW n \in 0..3
  PROVE  LET u == BidMade(t, s, n)
         IN  /\ u \in TableState
             /\ u.user = t.user /\ u.stack = t.stack /\ u.hand = t.hand
             /\ u.bid = [t.bid EXCEPT ![s] = n] /\ u.bidCount = t.bidCount + 1
             /\ u.highestBid = IF n > t.highestBid THEN n ELSE t.highestBid
             /\ u.highestBidder = IF n > t.highestBid THEN s ELSE t.highestBidder
             /\ u.phase = t.phase /\ u.dealer = t.dealer /\ u.bottom = t.bottom
             /\ u.landlord = t.landlord /\ u.lastSeat = t.lastSeat
             /\ u.trickOpen = t.trickOpen /\ u.passCount = t.passCount
             /\ u.result = t.result /\ u.acting = t.acting
             /\ u.turnID = t.turnID /\ u.expired = t.expired
<1>. DEFINE u == BidMade(t, s, n)
            b == [t.bid EXCEPT ![s] = n]
            c == t.bidCount + 1
            h == IF n > t.highestBid THEN n ELSE t.highestBid
            o == IF n > t.highestBid THEN s ELSE t.highestBidder
<1>1. b \in [Seats -> 0..3] /\ c \in Nat /\ h \in 0..3 /\ o \in Seats \cup {NoSeat}
  BY DEF TableState
<1>2. u = [t EXCEPT !.bid = b, !.bidCount = c, !.highestBid = h, !.highestBidder = o]
  BY DEF BidMade
<1>. HIDE DEF b, c, h, o
<1>3. u \in TableState
  BY <1>1, <1>2, ZenonT(60) DEF TableState
<1>4. /\ u.bid = b /\ u.bidCount = c /\ u.highestBid = h /\ u.highestBidder = o
      /\ u.user = t.user /\ u.stack = t.stack /\ u.hand = t.hand
      /\ u.phase = t.phase /\ u.dealer = t.dealer /\ u.bottom = t.bottom
      /\ u.landlord = t.landlord /\ u.lastSeat = t.lastSeat
      /\ u.trickOpen = t.trickOpen /\ u.passCount = t.passCount
      /\ u.result = t.result /\ u.acting = t.acting
      /\ u.turnID = t.turnID /\ u.expired = t.expired
  BY <1>2 DEF TableState
<1>. QED
  BY <1>3, <1>4 DEF b, c, h, o

\* The fields a deal writes, a few at a time.
LEMMA DealTypes ==
  ASSUME NEW t \in TableState
  PROVE  /\ [t EXCEPT !.highestBid = 0, !.highestBidder = NoSeat, !.bidCount = 0,
                      !.landlord = NoSeat, !.last = NoCombination] \in TableState
         /\ [t EXCEPT !.lastSeat = NoSeat, !.trickOpen = FALSE, !.passCount = 0,
                      !.multiplier = 1] \in TableState
<1>1. 0 \in Nat /\ 1 \in Nat /\ 0 \in 0..3
  OBVIOUS
<1>2. [t EXCEPT !.highestBid = 0, !.highestBidder = NoSeat, !.bidCount = 0,
                !.landlord = NoSeat, !.last = NoCombination] \in TableState
  BY <1>1, Zenon DEF TableState
<1>3. [t EXCEPT !.lastSeat = NoSeat, !.trickOpen = FALSE, !.passCount = 0,
                !.multiplier = 1] \in TableState
  BY <1>1, Zenon DEF TableState
<1>. QED
  BY <1>2, <1>3

\* The cards and the number of the new hand.
LEMMA HandTypes ==
  ASSUME NEW t \in TableState, NEW h \in Nat, NEW b \in Hands, NEW k \in [Seats -> Hands]
  PROVE  [t EXCEPT !.handID = h, !.phase = "bidding", !.bottom = b, !.hand = k] \in TableState
BY Zenon DEF TableState

\* The button, the marks and the result of the new hand.
LEMMA StartTypes ==
  ASSUME NEW t \in TableState, NEW x \in Seats \cup {NoSeat},
         NEW no \in [winner : Seats \cup {NoSeat}, stake : Nat, payout : [Seats -> Int]],
         NEW e1 \in [Seats -> BOOLEAN], NEW e, e \in [Seats -> 0..3], e \in [Seats -> Nat]
  PROVE  [t EXCEPT !.result = no, !.dealer = x, !.ready = e1, !.bid = e, !.plays = e]
           \in TableState
BY Zenon DEF TableState

\* A deal.
LEMMA DealtFacts ==
  ASSUME NEW t \in TableState, NEW d \in Deals, Playable(t) = Seats
  PROVE  LET u == Dealt(t, d)
         IN  /\ u \in TableState
             /\ u.user = t.user /\ u.stack = t.stack
             /\ u.hand = d.hands /\ u.bottom = d.bottom
             /\ u.bid = Everyone(0) /\ u.bidCount = 0 /\ u.highestBid = 0
             /\ u.highestBidder = NoSeat /\ u.landlord = NoSeat
             /\ u.phase = "bidding" /\ u.dealer \in Seats /\ u.acting = u.dealer
             /\ u.turnID = t.turnID + 1 /\ u.expired = FALSE
<1>. DEFINE x == NextSeat(t, t.dealer)
            h == t.handID + 1
            no == NoResult  e == Everyone(0)  e1 == Everyone(FALSE)
            b == d.bottom  k == d.hands
            f1 == [t EXCEPT !.handID = h, !.phase = "bidding", !.bottom = b, !.hand = k]
            f2 == [f1 EXCEPT !.highestBid = 0, !.highestBidder = NoSeat, !.bidCount = 0,
                             !.landlord = NoSeat, !.last = NoCombination]
            f3 == [f2 EXCEPT !.lastSeat = NoSeat, !.trickOpen = FALSE, !.passCount = 0,
                             !.multiplier = 1]
            f == [f3 EXCEPT !.result = no, !.dealer = x, !.ready = e1, !.bid = e, !.plays = e]
<1>1. x \in Seats
  <2>1. t.dealer \in Seats \cup {NoSeat} /\ Seats # {} /\ Seats \in SUBSET Seats
    BY ThreeSeats DEF TableState
  <2>. QED
    BY <2>1, NextOnRing DEF NextSeat
<1>2. /\ h \in Nat /\ b \in Hands /\ k \in [Seats -> Hands]
      /\ no \in [winner : Seats \cup {NoSeat}, stake : Nat, payout : [Seats -> Int]]
      /\ e1 \in [Seats -> BOOLEAN] /\ e \in [Seats -> 0..3] /\ e \in [Seats -> Nat]
  <2>1. Cards \subseteq Hands
    BY DEF Cards, Hands
  <2>2. d.hands \in [Seats -> Cards] /\ d.bottom \in Cards
    BY LandlordAssumption
  <2>. QED
    BY <2>1, <2>2 DEF TableState, NoResult, Everyone
<1>3. Dealt(t, d) = SetActing(f, f.dealer)
  BY DEF Dealt
<1>. HIDE DEF x, h, no, e, e1, b, k
<1>4. f1 \in TableState
  BY <1>2, HandTypes
<1>5. f2 \in TableState
  <2>. HIDE DEF f1
  <2>. QED
    BY <1>4, DealTypes
<1>6. f3 \in TableState
  <2>. HIDE DEF f2
  <2>. QED
    BY <1>5, DealTypes
<1>7. f \in TableState
  <2>. HIDE DEF f3
  <2>. QED
    BY <1>1, <1>2, <1>6, StartTypes
<1>8. /\ f.user = t.user /\ f.stack = t.stack /\ f.hand = k /\ f.bottom = b
      /\ f.bid = e /\ f.bidCount = 0 /\ f.highestBid = 0
      /\ f.highestBidder = NoSeat /\ f.landlord = NoSeat
      /\ f.phase = "bidding" /\ f.dealer = x /\ f.turnID = t.turnID
  BY DEF TableState
<1>. HIDE DEF f
<1>9. /\ SetActing(f, x) \in TableState /\ SameHand(f, SetActing(f, x))
      /\ SetActing(f, x).acting = x /\ SetActing(f, x).turnID = f.turnID + 1
      /\ SetActing(f, x).expired = FALSE
  BY <1>1, <1>7, SetActingFacts
<1>. QED
  BY <1>1, <1>3, <1>8, <1>9 DEF SameHand, k, b, e

\* The highest bidder becomes landlord and takes the bottom.
LEMMA CrownedFacts ==
  ASSUME NEW t \in TableState, t.highestBidder \in Seats
  PROVE  LET u == Crowned(t)  s == t.highestBidder
         IN  /\ u \in TableState
             /\ u.user = t.user /\ u.stack = t.stack /\ u.bid = t.bid
             /\ u.hand = [t.hand EXCEPT ![s] = Plus(t.hand[s], t.bottom)]
             /\ u.bidCount = t.bidCount /\ u.landlord = s /\ u.acting = s
             /\ u.phase = "playing" /\ u.dealer = t.dealer /\ u.trickOpen = FALSE
             /\ u.turnID = t.turnID + 1 /\ u.expired = FALSE
<1>. DEFINE s == t.highestBidder
            k == [t.hand EXCEPT ![s] = Plus(t.hand[s], t.bottom)]
            f == [t EXCEPT !.landlord = s, !.hand = k, !.phase = "playing",
                           !.trickOpen = FALSE, !.passCount = 0]
<1>1. k \in [Seats -> Hands] /\ s \in Seats
  <2>1. t.hand[s] \in Hands /\ t.bottom \in Hands
    BY DEF TableState
  <2>2. Plus(t.hand[s], t.bottom) \in Hands
    BY <2>1 DEF Plus, Hands
  <2>. QED
    BY <2>2 DEF TableState
<1>2. Crowned(t) = SetActing(f, s)
  <2>1. [t EXCEPT !.landlord = s, !.hand[s] = Plus(@, t.bottom), !.phase = "playing",
                  !.trickOpen = FALSE, !.passCount = 0] = f
    BY DEF TableState
  <2>. QED
    BY <2>1 DEF Crowned
<1>3. 0 \in Nat /\ f = [t EXCEPT !.landlord = s, !.hand = k, !.phase = "playing",
                                 !.trickOpen = FALSE, !.passCount = 0]
  OBVIOUS
<1>. HIDE DEF s, k, f
<1>4. f \in TableState
  BY <1>1, <1>3, Zenon DEF TableState
<1>5. /\ f.user = t.user /\ f.stack = t.stack /\ f.bid = t.bid /\ f.hand = k
      /\ f.bidCount = t.bidCount /\ f.landlord = s /\ f.phase = "playing"
      /\ f.dealer = t.dealer /\ f.trickOpen = FALSE /\ f.turnID = t.turnID
  BY <1>3 DEF TableState
<1>6. /\ SetActing(f, s) \in TableState /\ SameHand(f, SetActing(f, s))
      /\ SetActing(f, s).acting = s /\ SetActing(f, s).turnID = f.turnID + 1
      /\ SetActing(f, s).expired = FALSE
  BY <1>1, <1>4, SetActingFacts
<1>. QED
  BY <1>2, <1>5, <1>6 DEF SameHand, s, k

-----------------------------------------------------------------------------
(* Cards *)

\* What is left of a hand, and what a hand with more cards is.
LEMMA CardsMove ==
  ASSUME NEW h \in Hands, NEW c \in Hands
  PROVE  /\ Plus(h, c) \in Hands
         /\ Holds(h, c) => Minus(h, c) \in Hands
BY DEF Plus, Minus, Holds, Hands

\* A player picks a number of cards of each rank.
LEMMA PicksAreCards ==
  ASSUME NEW h \in Hands
  PROVE  Picks(h) \subseteq Hands
<1>. DEFINE All == UNION {{r} \X (1..h[r]) : r \in RanksIn(h)}
            Of(S, r) == {x \in S : x[1] = r}
<1>1. ASSUME NEW S \in SUBSET All, NEW r \in Ranks
      PROVE  Cardinality(Of(S, r)) \in Nat
  <2>1. Of(S, r) \subseteq {r} \X (1..h[r])
    OBVIOUS
  <2>2. IsFiniteSet({r}) /\ IsFiniteSet(1..h[r])
    <3>1. h[r] \in Int
      BY DEF Hands
    <3>2. IsFiniteSet(1..h[r])
      BY <3>1, FS_Interval
    <3>3. IsFiniteSet({r})
      BY FS_Singleton
    <3>. QED
      BY <3>2, <3>3
  <2>3. IsFiniteSet({r} \X (1..h[r]))
    BY <2>2, FS_Product
  <2>4. IsFiniteSet(Of(S, r))
    <3>. HIDE DEF Of
    <3>. QED
      BY <2>1, <2>3, FS_Subset
  <2>. QED
    BY <2>4, FS_CardinalityType
<1>2. ASSUME NEW S \in SUBSET All
      PROVE  [r \in Ranks |-> Cardinality(Of(S, r))] \in Hands
  <2>. HIDE DEF Of, All
  <2>. QED
    BY <1>1 DEF Hands
<1>3. \A c \in Picks(h) : \E S \in SUBSET All : c = [r \in Ranks |-> Cardinality(Of(S, r))]
  BY DEF Picks
<1>. HIDE DEF All, Of
<1>. QED
  BY <1>2, <1>3

\* The timer plays one card.
LEMMA LowestIsCards ==
  ASSUME NEW h
  PROVE  Lowest(h) \in Hands
BY DEF Lowest, NoCards, Hands

\* The count of a rank in the hands of two seats.
LEMMA CountOfTwo ==
  ASSUME NEW f, NEW a, NEW b, a # b, f[a] \in Int, f[b] \in Int
  PROVE  SumOf(f, {a, b}) = f[a] + f[b]
<1>1. IsFiniteSet({}) /\ IsFiniteSet({a})
  BY FS_EmptySet, FS_Singleton
<1>2. SumOf(f, {} \cup {a}) = SumOf(f, {}) + f[a] /\ SumOf(f, {}) = 0
  BY <1>1, SumAdd, SumOfStep
<1>3. SumOf(f, {a} \cup {b}) = SumOf(f, {a}) + f[b]
  BY <1>1, SumAdd
<1>4. {} \cup {a} = {a} /\ {a} \cup {b} = {a, b}
  OBVIOUS
<1>5. SumOf(f, {a}) = 0 + f[a]
  BY <1>2, <1>4
<1>6. SumOf(f, {a, b}) = SumOf(f, {a}) + f[b]
  BY <1>3, <1>4
<1>. QED
  BY <1>5, <1>6

\* Fields a play writes.
LEMMA PlayTypes ==
  ASSUME NEW t \in TableState, NEW k \in [Seats -> Hands], NEW p \in [Seats -> Nat],
         NEW l \in {NoCombination} \cup {Classify(c) : c \in Hands},
         NEW s \in Seats, NEW m \in Nat
  PROVE  [t EXCEPT !.hand = k, !.plays = p, !.last = l, !.lastSeat = s,
                   !.trickOpen = TRUE, !.passCount = 0, !.multiplier = m] \in TableState
<1>1. [t EXCEPT !.hand = k, !.plays = p, !.last = l, !.lastSeat = s] \in TableState
  BY Zenon DEF TableState
<1>. DEFINE u == [t EXCEPT !.hand = k, !.plays = p, !.last = l, !.lastSeat = s]
<1>2. u \in TableState
  BY <1>1
<1>3. [t EXCEPT !.hand = k, !.plays = p, !.last = l, !.lastSeat = s,
                !.trickOpen = TRUE, !.passCount = 0, !.multiplier = m]
        = [u EXCEPT !.trickOpen = TRUE, !.passCount = 0, !.multiplier = m]
  OBVIOUS
<1>4. 0 \in Nat
  OBVIOUS
<1>. HIDE DEF u
<1>5. [u EXCEPT !.trickOpen = TRUE, !.passCount = 0, !.multiplier = m] \in TableState
  BY <1>2, <1>4, Zenon DEF TableState
<1>. QED
  BY <1>3, <1>5

\* The hands without the cards c of seat s.
Without(hands, s, c) == [hands EXCEPT ![s] = Minus(hands[s], c)]

\* A play.
LEMMA PlaysFacts ==
  ASSUME NEW t \in TableState, NEW s \in Seats, NEW c \in Hands, Holds(t.hand[s], c)
  PROVE  LET u == Plays(t, s, c)
         IN  /\ u \in TableState
             /\ u.user = t.user /\ u.stack = t.stack /\ u.bid = t.bid
             /\ u.hand = Without(t.hand, s, c)
             /\ u.phase = t.phase /\ u.dealer = t.dealer /\ u.bottom = t.bottom
             /\ u.highestBid = t.highestBid /\ u.bidCount = t.bidCount
             /\ u.landlord = t.landlord
             /\ u.lastSeat = s /\ u.trickOpen = TRUE /\ u.passCount = 0
             /\ u.turnID = t.turnID /\ u.expired = t.expired
<1>. DEFINE k == [t.hand EXCEPT ![s] = Minus(t.hand[s], c)]
            p == [t.plays EXCEPT ![s] = t.plays[s] + 1]
            l == Classify(c)
            m == IF Classify(c).kind \in {"bomb", "rocket"} THEN 2 * t.multiplier
                 ELSE t.multiplier
            u == [t EXCEPT !.hand = k, !.plays = p, !.last = l, !.lastSeat = s,
                           !.trickOpen = TRUE, !.passCount = 0, !.multiplier = m]
<1>1. k \in [Seats -> Hands]
  <2>1. t.hand \in [Seats -> Hands] /\ t.hand[s] \in Hands
    BY DEF TableState
  <2>2. Minus(t.hand[s], c) \in Hands
    BY <2>1, CardsMove
  <2>. QED
    BY <2>1, <2>2
<1>2. p \in [Seats -> Nat]
  BY DEF TableState
<1>3. l \in {NoCombination} \cup {Classify(x) : x \in Hands}
  OBVIOUS
<1>4. m \in Nat
  BY DEF TableState
<1>5. Plays(t, s, c) = u
  BY DEF Plays, TableState
<1>. HIDE DEF k, p, l, m
<1>6. u \in TableState
  BY <1>1, <1>2, <1>3, <1>4, PlayTypes
<1>7. /\ u.user = t.user /\ u.stack = t.stack /\ u.bid = t.bid /\ u.hand = k
      /\ u.phase = t.phase /\ u.dealer = t.dealer /\ u.bottom = t.bottom
      /\ u.highestBid = t.highestBid /\ u.bidCount = t.bidCount
      /\ u.landlord = t.landlord
      /\ u.lastSeat = s /\ u.trickOpen = TRUE /\ u.passCount = 0
      /\ u.turnID = t.turnID /\ u.expired = t.expired
  BY DEF TableState
<1>8. k = Without(t.hand, s, c)
  BY DEF k, Without
<1>. QED
  BY <1>5, <1>6, <1>7, <1>8

\* The first and the second farmer.
LEMMA Farmers ==
  ASSUME NEW l \in Seats
  PROVE  LET F == Seats \ {l}
         IN  /\ Min(F) \in Seats /\ Max(F) \in Seats /\ Min(F) # Max(F)
             /\ Min(F) # l /\ Max(F) # l /\ Seats = {l, Min(F), Max(F)}
<1>. DEFINE F == Seats \ {l}
<1>1. F = {1, 2} \/ F = {0, 2} \/ F = {0, 1}
  BY ThreeSeats
<1>2. \E x \in F : \A y \in F : x <= y
  BY <1>1
<1>3. \E x \in F : \A y \in F : x >= y
  BY <1>1
<1>4. Min(F) \in F /\ \A y \in F : Min(F) <= y
  <2>. HIDE DEF F
  <2>. QED
    BY <1>2 DEF Min
<1>5. Max(F) \in F /\ \A y \in F : Max(F) >= y
  <2>. HIDE DEF F
  <2>. QED
    BY <1>3 DEF Max
<1>. DEFINE a == Min(F)  b == Max(F)
<1>6. a \in F /\ b \in F /\ (\A y \in F : a <= y) /\ (\A y \in F : b >= y)
  BY <1>4, <1>5
<1>. HIDE DEF a, b
<1>7. a # b /\ Seats = {l, a, b}
  BY <1>1, <1>6, ThreeSeats
<1>. QED
  BY <1>4, <1>5, <1>7 DEF a, b

\* The sum over the landlord and two farmers.
LEMMA SumAround ==
  ASSUME NEW f \in [Seats -> Int], NEW a \in Seats, NEW b \in Seats, NEW c \in Seats,
         a # b, a # c, b # c
  PROVE  SeatSum(f) = f[a] + f[b] + f[c]
<1>1. f[0] \in Int /\ f[1] \in Int /\ f[2] \in Int
  BY ThreeSeats
<1>2. SeatSum(f) = f[0] + f[1] + f[2]
  BY <1>1, SumOfThree
<1>3. a \in {0, 1, 2} /\ b \in {0, 1, 2} /\ c \in {0, 1, 2}
  BY ThreeSeats
<1>4. f[a] + f[b] + f[c] = f[0] + f[1] + f[2]
  <2>1. CASE a = 0
    BY <1>1, <1>3, <2>1
  <2>2. CASE a = 1
    BY <1>1, <1>3, <2>2
  <2>3. CASE a = 2
    BY <1>1, <1>3, <2>3
  <2>. QED
    BY <1>3, <2>1, <2>2, <2>3
<1>. QED
  BY <1>2, <1>4

\* What a hand pays: the sum is zero, nobody pays more than he has, no farmer
\* gets or pays more than the stake, and farmers who are paid are paid alike.
LEMMA GainsFair ==
  ASSUME NEW t \in TableState, NEW w \in Seats, NEW unit \in Nat, t.landlord \in Seats
  PROVE  LET g == Gains(t, w, unit)
             F == Seats \ {t.landlord}
         IN  /\ g \in [Seats -> Int] /\ SeatSum(g) = 0
             /\ \A s \in Seats : t.stack[s] + g[s] >= 0
             /\ \A f \in F : g[f] \in -unit .. unit
             /\ w # t.landlord => \A f, h \in F : g[f] >= 0 /\ g[f] - g[h] \in -1..1
<1>. DEFINE l == t.landlord
            F == Seats \ {l}
            f1 == Min(F)
            f2 == Max(F)
            available == Smaller(t.stack[l], 2 * unit)
            half(f) == IF f = f1 THEN available \div 2 ELSE available - available \div 2
            paid(f) == IF w = l THEN 0 - Smaller(unit, t.stack[f]) ELSE Smaller(unit, half(f))
            g == [s \in Seats |-> IF s = l THEN 0 - paid(f1) - paid(f2) ELSE paid(s)]
<1>1. Gains(t, w, unit) = g
  BY DEF Gains
<1>2. /\ f1 \in Seats /\ f2 \in Seats /\ f1 # f2 /\ f1 # l /\ f2 # l
      /\ Seats = {l, f1, f2} /\ l \in Seats
  BY Farmers
<1>3. \A s \in Seats : t.stack[s] \in Nat
  BY DEF TableState
<1>. HIDE DEF l, f1, f2
<1>4. F = {f1, f2}
  BY <1>2
<1>5. available \in Nat /\ available <= t.stack[l] /\ available <= 2 * unit
  BY <1>2, <1>3 DEF Smaller
<1>. HIDE DEF available
<1>6. /\ half(f1) \in Nat /\ half(f2) \in Nat /\ half(f1) + half(f2) = available
      /\ half(f1) <= half(f2) /\ half(f2) <= half(f1) + 1
  BY <1>2, <1>5
<1>. HIDE DEF half
<1>7. /\ paid(f1) \in Int /\ paid(f2) \in Int
      /\ paid(f1) \in -unit .. unit /\ paid(f2) \in -unit .. unit
      /\ t.stack[f1] + paid(f1) >= 0 /\ t.stack[f2] + paid(f2) >= 0
      /\ t.stack[l] - paid(f1) - paid(f2) >= 0
      /\ w # l => /\ paid(f1) >= 0 /\ paid(f2) >= 0
                  /\ paid(f1) - paid(f2) \in -1..1 /\ paid(f2) - paid(f1) \in -1..1
  <2>1. t.stack[f1] \in Nat /\ t.stack[f2] \in Nat /\ t.stack[l] \in Nat
    BY <1>2, <1>3
  <2>2. CASE w = l
    BY <2>1, <2>2 DEF Smaller
  <2>3. CASE w # l
    BY <1>5, <1>6, <2>1, <2>3 DEF Smaller
  <2>. QED
    BY <2>2, <2>3
<1>. HIDE DEF paid
<1>8. /\ g[l] = 0 - paid(f1) - paid(f2) /\ g[f1] = paid(f1) /\ g[f2] = paid(f2)
      /\ DOMAIN g = Seats /\ g = [s \in Seats |-> g[s]]
  BY <1>2
<1>. HIDE DEF g
<1>9. g \in [Seats -> Int]
  <2>1. \A s \in Seats : g[s] \in Int
    BY <1>2, <1>7, <1>8
  <2>. QED
    BY <1>8, <2>1
<1>10. SeatSum(g) = 0
  <2>1. SeatSum(g) = g[l] + g[f1] + g[f2]
    BY <1>2, <1>9, SumAround
  <2>. QED
    BY <1>7, <1>8, <2>1
<1>11. \A s \in Seats : t.stack[s] + g[s] >= 0
  <2>1. t.stack[l] + g[l] >= 0
    BY <1>2, <1>3, <1>7, <1>8
  <2>. QED
    BY <1>2, <1>7, <1>8, <2>1
<1>12. \A f \in F : g[f] \in -unit .. unit
  BY <1>4, <1>7, <1>8
<1>13. w # l => \A f, h \in F : g[f] >= 0 /\ g[f] - g[h] \in -1..1
  <2>. SUFFICES ASSUME w # l, NEW f \in F, NEW h \in F
       PROVE  g[f] >= 0 /\ g[f] - g[h] \in -1..1
    OBVIOUS
  <2>1. f = f1 \/ f = f2
    BY <1>4
  <2>2. h = f1 \/ h = f2
    BY <1>4
  <2>. QED
    BY <1>7, <1>8, <2>1, <2>2
<1>. QED
  BY <1>1, <1>9, <1>10, <1>11, <1>12, <1>13 DEF l

\* Fields the end of a hand writes.
LEMMA EndTypes ==
  ASSUME NEW t \in TableState, NEW m \in Nat, NEW k \in [Seats -> Nat],
         NEW r \in [winner : Seats \cup {NoSeat}, stake : Nat, payout : [Seats -> Int]],
         NEW e1 \in [Seats -> BOOLEAN]
  PROVE  [t EXCEPT !.multiplier = m, !.stack = k, !.result = r, !.ready = e1,
                   !.phase = "complete", !.acting = NoSeat, !.expired = FALSE] \in TableState
<1>. DEFINE u == [t EXCEPT !.multiplier = m, !.stack = k, !.result = r, !.ready = e1]
<1>1. u \in TableState
  BY Zenon DEF TableState
<1>2. [t EXCEPT !.multiplier = m, !.stack = k, !.result = r, !.ready = e1,
                !.phase = "complete", !.acting = NoSeat, !.expired = FALSE]
        = [u EXCEPT !.phase = "complete", !.acting = NoSeat, !.expired = FALSE]
  OBVIOUS
<1>. HIDE DEF u
<1>3. [u EXCEPT !.phase = "complete", !.acting = NoSeat, !.expired = FALSE] \in TableState
  BY <1>1, ZenonT(60) DEF TableState
<1>. QED
  BY <1>2, <1>3

\* The end of a hand.
LEMMA FinishedFacts ==
  ASSUME NEW t \in TableState, NEW w \in Seats, t.landlord \in Seats
  PROVE  LET u == Finished(t, w)
         IN  /\ u \in TableState /\ Paid(u) /\ SeatSum(u.stack) = SeatSum(t.stack)
             /\ u.user = t.user /\ u.hand = t.hand /\ u.bid = t.bid
             /\ u.phase = "complete" /\ u.turnID = t.turnID /\ u.expired = FALSE
<1>. DEFINE unit == BaseStake * t.highestBid * Factor(t, w)
            m == Factor(t, w)
            g == Gains(t, w, unit)
            k == [s \in Seats |-> t.stack[s] + g[s]]
            r == [winner |-> w, stake |-> unit, payout |-> g]
            e1 == Everyone(FALSE)
            u == [t EXCEPT !.multiplier = m, !.stack = k, !.result = r, !.ready = e1,
                           !.phase = "complete", !.acting = NoSeat, !.expired = FALSE]
<1>1. m \in Nat
  BY DEF Factor, TableState
<1>2. unit \in Nat
  <2>1. BaseStake \in Nat /\ t.highestBid \in Nat
    BY LandlordAssumption DEF TableState
  <2>2. \A a, b \in Nat : a * b \in Nat
    OBVIOUS
  <2>. HIDE DEF m
  <2>3. BaseStake * t.highestBid \in Nat
    BY <2>1, <2>2
  <2>. QED
    BY <1>1, <2>2, <2>3 DEF m
<1>3. Finished(t, w) = u
  BY DEF Finished
<1>. HIDE DEF unit
<1>4. /\ g \in [Seats -> Int] /\ SeatSum(g) = 0
      /\ \A s \in Seats : t.stack[s] + g[s] >= 0
      /\ \A f \in Seats \ {t.landlord} : g[f] \in -unit .. unit
      /\ w # t.landlord => \A f, h \in Seats \ {t.landlord} : g[f] >= 0 /\ g[f] - g[h] \in -1..1
  BY <1>2, GainsFair
<1>. HIDE DEF g, m
<1>5. k \in [Seats -> Nat]
  <2>1. t.stack \in [Seats -> Nat]
    BY DEF TableState
  <2>. QED
    BY <1>4, <2>1
<1>6. SeatSum(k) = SeatSum(t.stack)
  <2>1. t.stack \in [Seats -> Int]
    BY DEF TableState
  <2>2. SeatSum(k) = SeatSum(t.stack) + SeatSum(g)
    BY <1>4, <2>1, SumsOfThree
  <2>3. SeatSum(t.stack) \in Int
    BY <2>1, SumsOfThree
  <2>. QED
    BY <1>4, <2>2, <2>3
<1>7. r \in [winner : Seats \cup {NoSeat}, stake : Nat, payout : [Seats -> Int]]
  BY <1>2, <1>4
<1>8. e1 \in [Seats -> BOOLEAN]
  BY DEF Everyone
<1>9. r.winner = w /\ r.stake = unit /\ r.payout = g
  OBVIOUS
<1>. HIDE DEF k, r, e1
<1>10. u \in TableState
  BY <1>1, <1>5, <1>7, <1>8, EndTypes
<1>11. /\ u.user = t.user /\ u.hand = t.hand /\ u.bid = t.bid /\ u.stack = k
       /\ u.landlord = t.landlord /\ u.result = r
       /\ u.phase = "complete" /\ u.turnID = t.turnID /\ u.expired = FALSE
  BY DEF TableState
<1>. HIDE DEF u
<1>12. Paid(u)
  BY <1>4, <1>9, <1>11 DEF Paid
<1>. QED
  BY <1>3, <1>6, <1>10, <1>11, <1>12

-----------------------------------------------------------------------------
(* Sound tables go to sound tables *)

\* In a running hand every seat plays, and the turn goes around.
LEMMA AllPlay ==
  ASSUME NEW t \in TableState, Filled(t), HandActive(t)
  PROVE  /\ Playable(t) = Seats /\ t.acting \in Seats /\ t.dealer \in Seats
         /\ \A s \in Seats : NextSeat(t, s) = On(s, 1)
<1>1. Playable(t) = Seats
  BY DEF Filled, Playable, Occupied
<1>2. \A s \in Seats : NextSeat(t, s) = On(s, 1)
  BY <1>1, NextOnRing DEF NextSeat
<1>. QED
  BY <1>1, <1>2 DEF Filled

\* Three players with chips still sit there.
LEMMA FilledFrom ==
  ASSUME NEW t, NEW u, Playable(t) = Seats, u.user = t.user, u.stack = t.stack,
         u.dealer \in Seats, u.acting \in Seats
  PROVE  Filled(u)
BY DEF Filled, Playable, Occupied

\* Nobody's chips have moved.
LEMMA FundsFrom ==
  ASSUME NEW t, NEW u, NEW chips, Funds(t, chips), u.user = t.user, u.stack = t.stack
  PROVE  Funds(u, chips)
BY DEF Funds

\* The cards of a deal.
Whole(d) == [r \in Ranks |-> d.bottom[r] + d.hands[0][r] + d.hands[1][r] + d.hands[2][r]]

\* They are counted by rank.
LEMMA WholeType ==
  ASSUME NEW d \in Deals
  PROVE  Whole(d) \in Hands
<1>1. d.hands \in [Seats -> Cards] /\ d.bottom \in Cards
  BY LandlordAssumption
<1>2. d.hands[0] \in Cards /\ d.hands[1] \in Cards /\ d.hands[2] \in Cards
  BY <1>1, ThreeSeats
<1>. SUFFICES ASSUME NEW r \in Ranks
     PROVE  d.bottom[r] + d.hands[0][r] + d.hands[1][r] + d.hands[2][r] \in Nat
  BY DEF Whole, Hands
<1>3. /\ d.hands[0][r] \in Nat /\ d.hands[1][r] \in Nat /\ d.hands[2][r] \in Nat
      /\ d.bottom[r] \in Nat
  BY <1>1, <1>2 DEF Cards
<1>. QED
  BY <1>3

\* A deal among three players with chips.
LEMMA DealSound ==
  ASSUME NEW t \in TableState, NEW chips \in Int, NEW failed \in Nat, NEW d \in Deals,
         Funds(t, chips), Playable(t) = Seats
  PROVE  Sound(Dealt(t, d), chips, failed, Whole(d), NoCards, {})
<1>. DEFINE u == Dealt(t, d)
<1>1. /\ u \in TableState
      /\ u.user = t.user /\ u.stack = t.stack
      /\ u.hand = d.hands /\ u.bottom = d.bottom
      /\ u.bid = Everyone(0) /\ u.bidCount = 0 /\ u.highestBid = 0
      /\ u.highestBidder = NoSeat /\ u.landlord = NoSeat
      /\ u.phase = "bidding" /\ u.dealer \in Seats /\ u.acting = u.dealer
  BY DealtFacts
<1>. HIDE DEF u
<1>2. Funds(u, chips)
  BY <1>1, FundsFrom
<1>3. Filled(u)
  BY <1>1, FilledFrom
<1>4. Bidding(u, failed)
  <2>1. \A s \in Seats : u.bid[s] = 0
    BY <1>1 DEF Everyone
  <2>2. \A k \in 0..2 : On(u.dealer, k) \in Seats
    BY <1>1, OnRing
  <2>3. u.acting = On(u.dealer, u.bidCount)
    BY <1>1, OnRing
  <2>. QED
    BY <1>1, <2>1, <2>2, <2>3, ThreeSeats DEF Bidding
<1>5. Playing(u, failed, {})
  BY <1>1 DEF Playing
<1>6. Counted(u, Whole(d), NoCards)
  <2>1. d.hands \in [Seats -> Cards] /\ d.bottom \in Cards
    BY LandlordAssumption
  <2>2. d.hands[0] \in Cards /\ d.hands[1] \in Cards /\ d.hands[2] \in Cards
    BY <2>1, ThreeSeats
  <2>. SUFFICES ASSUME NEW r \in Ranks
       PROVE Whole(d)[r] = u.hand[0][r] + u.hand[1][r] + u.hand[2][r]
                   + (IF u.landlord = NoSeat THEN u.bottom[r] ELSE 0) + NoCards[r]
    BY DEF Counted
  <2>3. d.hands[0][r] \in Nat /\ d.hands[1][r] \in Nat /\ d.hands[2][r] \in Nat
        /\ d.bottom[r] \in Nat
    BY <2>1, <2>2 DEF Cards
  <2>4. Whole(d)[r] = d.bottom[r] + d.hands[0][r] + d.hands[1][r] + d.hands[2][r]
        /\ NoCards[r] = 0
    BY DEF Whole, NoCards
  <2>. QED
    BY <1>1, <2>3, <2>4
<1>7. Paid(u)
  BY <1>1 DEF Paid
<1>8. NoCards \in Hands /\ Whole(d) \in Hands
  BY WholeType DEF NoCards, Hands
<1>. QED
  BY <1>1, <1>2, <1>3, <1>4, <1>5, <1>6, <1>7, <1>8 DEF Sound, u

\* While bids are counted, the highest bidder is alone with his bid; after a failed
\* shuffle a bid of three is.
LEMMA BidLeads ==
  ASSUME NEW t \in TableState, NEW failed \in Nat, NEW n \in 0..3,
         Filled(t), Bidding(t, failed), t.phase = "bidding",
         n = 0 \/ n > t.highestBid, t.bidCount < MaxSeats \/ n = 3
  PROVE  LET u == BidMade(t, t.acting, n)
         IN  u.highestBidder # NoSeat =>
               /\ u.highestBidder \in Seats
               /\ u.bid[u.highestBidder] = u.highestBid /\ u.highestBid > 0
               /\ \A x \in Seats \ {u.highestBidder} : u.bid[x] < u.highestBid
<1>. DEFINE s == t.acting
            u == BidMade(t, s, n)
<1>1. s \in Seats
  BY DEF Filled, HandActive
<1>2. /\ u \in TableState /\ u.bid = [t.bid EXCEPT ![s] = n]
      /\ u.highestBid = IF n > t.highestBid THEN n ELSE t.highestBid
      /\ u.highestBidder = IF n > t.highestBid THEN s ELSE t.highestBidder
  BY <1>1, BidMadeFacts
<1>. HIDE DEF u
<1>3. /\ t.bid \in [Seats -> 0..3] /\ t.highestBid \in 0..3
      /\ \A x \in Seats : t.bid[x] <= t.highestBid /\ t.bid[x] \in 0..3
  BY DEF Bidding, TableState
<1>. SUFFICES ASSUME u.highestBidder # NoSeat
     PROVE  /\ u.highestBidder \in Seats
            /\ u.bid[u.highestBidder] = u.highestBid /\ u.highestBid > 0
            /\ \A x \in Seats \ {u.highestBidder} : u.bid[x] < u.highestBid
  BY DEF u
<1>4. u.highestBidder \in Seats
  BY <1>2 DEF TableState
<1>5. CASE n > t.highestBid
  <2>1. u.highestBid = n /\ u.highestBidder = s /\ u.bid[s] = n
    BY <1>1, <1>2, <1>3, <1>5
  <2>2. \A x \in Seats \ {s} : u.bid[x] = t.bid[x]
    BY <1>2, <1>3
  <2>. QED
    BY <1>1, <1>3, <1>5, <2>1, <2>2
<1>6. CASE ~(n > t.highestBid)
  <2>1. n = 0 /\ t.bidCount < MaxSeats
    BY <1>3, <1>6, ThreeSeats DEF Bidding
  <2>. DEFINE hb == t.highestBidder
  <2>2. u.highestBid = t.highestBid /\ u.highestBidder = hb
    BY <1>2, <1>6
  <2>3. /\ t.bid[hb] = t.highestBid /\ t.highestBid > 0
        /\ \A x \in Seats \ {hb} : t.bid[x] < t.highestBid
    BY <2>1, <2>2 DEF Bidding
  <2>4. t.bid[s] = 0
    <3>1. t.bidCount \in t.bidCount..2 /\ s = On(t.dealer, t.bidCount)
      BY <2>1, ThreeSeats DEF Bidding, TableState
    <3>. QED
      BY <2>1, <3>1 DEF Bidding
  <2>5. s # hb
    BY <2>3, <2>4
  <2>6. u.bid[s] = 0 /\ \A x \in Seats \ {s} : u.bid[x] = t.bid[x]
    BY <1>1, <1>2, <1>3, <2>1
  <2>. QED
    BY <1>4, <2>2, <2>3, <2>5, <2>6
<1>. QED
  BY <1>5, <1>6

\* All three passed and the shuffle fails: the bid stays counted.
LEMMA BidStays ==
  ASSUME NEW t, NEW chips, NEW failed, NEW dealt, NEW out, NEW passed, NEW n \in 0..3,
         Sound(t, chips, failed, dealt, out, passed), t.phase = "bidding",
         n = 0 \/ n > t.highestBid,
         n = 3 \/ LastBid(BidMade(t, t.acting, n)),
         BidMade(t, t.acting, n).highestBidder = NoSeat
  PROVE  Sound(BidMade(t, t.acting, n), chips, failed + 1, dealt, out, passed)
<1>. DEFINE s == t.acting
            u == BidMade(t, s, n)
<1>1. /\ t \in TableState /\ chips \in Int /\ failed \in Nat
      /\ dealt \in Hands /\ out \in Hands /\ passed \subseteq Seats
      /\ Funds(t, chips) /\ Filled(t) /\ Bidding(t, failed) /\ Counted(t, dealt, out)
  BY DEF Sound
<1>2. /\ Playable(t) = Seats /\ s \in Seats /\ t.dealer \in Seats
  BY <1>1, AllPlay DEF HandActive
<1>3. /\ u \in TableState
      /\ u.user = t.user /\ u.stack = t.stack /\ u.hand = t.hand
      /\ u.bid = [t.bid EXCEPT ![s] = n] /\ u.bidCount = t.bidCount + 1
      /\ u.highestBid = IF n > t.highestBid THEN n ELSE t.highestBid
      /\ u.highestBidder = IF n > t.highestBid THEN s ELSE t.highestBidder
      /\ u.phase = t.phase /\ u.dealer = t.dealer /\ u.bottom = t.bottom
      /\ u.landlord = t.landlord /\ u.acting = t.acting
  BY <1>1, <1>2, BidMadeFacts, ZenonT(60)
<1>4. u.highestBidder = NoSeat /\ (n = 3 \/ u.bidCount = MaxSeats)
  BY DEF LastBid
<1>. HIDE DEF u, s
<1>5. n = 0 /\ ~(n > t.highestBid)
  BY <1>2, <1>3, <1>4, ThreeSeats DEF s
<1>6. /\ u.highestBid = t.highestBid /\ t.highestBidder = NoSeat
  BY <1>3, <1>4, <1>5
<1>7. Funds(u, chips) /\ Filled(u)
  BY <1>1, <1>2, <1>3, FundsFrom, FilledFrom DEF s
<1>8. Bidding(u, failed + 1)
  <2>1. /\ u.landlord = NoSeat /\ u.highestBid < 3 /\ u.highestBid = 0
        /\ \A x \in Seats : t.bid[x] <= t.highestBid
    BY <1>1, <1>3, <1>6 DEF Bidding
  <2>2. \A x \in Seats : u.bid[x] = IF x = s THEN 0 ELSE t.bid[x]
    BY <1>1, <1>3, <1>5 DEF TableState
  <2>3. \A x \in Seats : u.bid[x] <= u.highestBid
    BY <1>6, <2>1, <2>2
  <2>4. failed + 1 > 0
    BY <1>1
  <2>5. ~(u.bidCount < MaxSeats)
    BY <1>4, <1>5, ThreeSeats
  <2>. QED
    BY <1>4, <2>1, <2>3, <2>4, <2>5 DEF Bidding
<1>9. Playing(u, failed + 1, passed) /\ Paid(u)
  BY <1>3 DEF Playing, Paid
<1>10. Counted(u, dealt, out)
  BY <1>1, <1>3 DEF Counted, HandActive
<1>. QED
  BY <1>1, <1>3, <1>7, <1>8, <1>9, <1>10 DEF Sound, u, s

\* The highest bidder becomes landlord.
LEMMA CrownSound ==
  ASSUME NEW t, NEW chips, NEW failed, NEW dealt, NEW out, NEW passed, NEW n \in 0..3,
         Sound(t, chips, failed, dealt, out, passed), t.phase = "bidding",
         n = 0 \/ n > t.highestBid,
         n = 3 \/ LastBid(BidMade(t, t.acting, n)),
         BidMade(t, t.acting, n).highestBidder # NoSeat
  PROVE  Sound(Crowned(BidMade(t, t.acting, n)), chips, failed, dealt, out, passed)
<1>. DEFINE s == t.acting
            u == BidMade(t, s, n)
            w == Crowned(u)
            hb == u.highestBidder
<1>1. /\ t \in TableState /\ chips \in Int /\ failed \in Nat
      /\ dealt \in Hands /\ out \in Hands /\ passed \subseteq Seats
      /\ Funds(t, chips) /\ Filled(t) /\ Bidding(t, failed) /\ Counted(t, dealt, out)
  BY DEF Sound
<1>2. /\ Playable(t) = Seats /\ s \in Seats /\ t.dealer \in Seats
  BY <1>1, AllPlay DEF HandActive
<1>3. /\ u \in TableState
      /\ u.user = t.user /\ u.stack = t.stack /\ u.hand = t.hand
      /\ u.bid = [t.bid EXCEPT ![s] = n] /\ u.bidCount = t.bidCount + 1
      /\ u.highestBid = IF n > t.highestBid THEN n ELSE t.highestBid
      /\ u.highestBidder = IF n > t.highestBid THEN s ELSE t.highestBidder
      /\ u.dealer = t.dealer /\ u.bottom = t.bottom /\ u.landlord = t.landlord
  BY <1>1, <1>2, BidMadeFacts, ZenonT(60)
<1>4. n = 3 \/ u.bidCount = MaxSeats
  BY DEF LastBid
<1>5. t.bidCount < MaxSeats \/ n = 3
  BY <1>1, <1>3, <1>4, ThreeSeats DEF TableState
<1>6. /\ hb \in Seats /\ u.bid[hb] = u.highestBid /\ u.highestBid > 0
      /\ \A x \in Seats \ {hb} : u.bid[x] < u.highestBid
  BY <1>1, <1>5, BidLeads
<1>7. n = 3 => u.highestBid = 3
  BY <1>1, <1>3 DEF Bidding, TableState
<1>8. t.landlord = NoSeat
  BY <1>1 DEF Bidding
<1>9. u.highestBidder \in Seats
  BY <1>6
<1>. HIDE DEF u, s
<1>10. /\ w \in TableState
       /\ w.user = u.user /\ w.stack = u.stack /\ w.bid = u.bid
       /\ w.hand = [u.hand EXCEPT ![hb] = Plus(u.hand[hb], u.bottom)]
       /\ w.bidCount = u.bidCount /\ w.landlord = hb /\ w.acting = hb
       /\ w.phase = "playing" /\ w.dealer = u.dealer /\ w.trickOpen = FALSE
  BY <1>3, <1>9, CrownedFacts
<1>. HIDE DEF w, hb
<1>11. Funds(w, chips) /\ Filled(w)
  <2>1. w.user = t.user /\ w.stack = t.stack /\ w.dealer \in Seats /\ w.acting \in Seats
    BY <1>2, <1>3, <1>6, <1>10
  <2>. QED
    BY <1>1, <1>2, <2>1, FundsFrom, FilledFrom
<1>12. Bidding(w, failed) /\ Paid(w)
  BY <1>10 DEF Bidding, Paid
<1>13. Playing(w, failed, passed)
  BY <1>4, <1>6, <1>7, <1>10 DEF Playing
<1>14. Counted(w, dealt, out)
  <2>. SUFFICES ASSUME NEW r \in Ranks
       PROVE  dealt[r] = w.hand[0][r] + w.hand[1][r] + w.hand[2][r]
                   + (IF w.landlord = NoSeat THEN w.bottom[r] ELSE 0) + out[r]
    BY DEF Counted
  <2>1. dealt[r] = u.hand[0][r] + u.hand[1][r] + u.hand[2][r] + u.bottom[r] + out[r]
    BY <1>1, <1>3, <1>8 DEF Counted, HandActive
  <2>2. /\ u.hand \in [Seats -> Hands] /\ u.bottom \in Hands
    BY <1>3 DEF TableState
  <2>3. /\ u.hand[0][r] \in Nat /\ u.hand[1][r] \in Nat /\ u.hand[2][r] \in Nat
        /\ u.bottom[r] \in Nat /\ out[r] \in Nat
    BY <1>1, <2>2, ThreeSeats DEF Hands
  <2>4. \A x \in Seats : w.hand[x][r] = IF x = hb THEN u.hand[x][r] + u.bottom[r] ELSE u.hand[x][r]
    BY <1>10, <2>2 DEF Plus
  <2>5. hb \in {0, 1, 2} /\ w.landlord # NoSeat
    BY <1>6, <1>10, ThreeSeats
  <2>6. /\ w.hand[0][r] = IF 0 = hb THEN u.hand[0][r] + u.bottom[r] ELSE u.hand[0][r]
        /\ w.hand[1][r] = IF 1 = hb THEN u.hand[1][r] + u.bottom[r] ELSE u.hand[1][r]
        /\ w.hand[2][r] = IF 2 = hb THEN u.hand[2][r] + u.bottom[r] ELSE u.hand[2][r]
    BY <2>4, ThreeSeats
  <2>. DEFINE a == u.hand[0][r]  b == u.hand[1][r]  c == u.hand[2][r]  e == u.bottom[r]
              x == w.hand[0][r]  y == w.hand[1][r]  z == w.hand[2][r]  o == out[r]
  <2>7. /\ a \in Nat /\ b \in Nat /\ c \in Nat /\ e \in Nat /\ o \in Nat
        /\ x = (IF 0 = hb THEN a + e ELSE a) /\ y = (IF 1 = hb THEN b + e ELSE b)
        /\ z = (IF 2 = hb THEN c + e ELSE c)
        /\ dealt[r] = a + b + c + e + o
    BY <2>1, <2>3, <2>6
  <2>. HIDE DEF a, b, c, e, x, y, z, o
  <2>8. a + b + c + e + o = x + y + z + 0 + o
    BY <2>5, <2>7
  <2>. QED
    BY <2>5, <2>7, <2>8 DEF x, y, z, o
<1>. QED
  BY <1>1, <1>10, <1>11, <1>12, <1>13, <1>14 DEF Sound, u, s, w

\* The next player is asked.
LEMMA BidGoesOn ==
  ASSUME NEW t, NEW chips, NEW failed, NEW dealt, NEW out, NEW passed, NEW n \in 0..3,
         Sound(t, chips, failed, dealt, out, passed), t.phase = "bidding",
         n = 0 \/ n > t.highestBid, n # 3, ~LastBid(BidMade(t, t.acting, n))
  PROVE  LET u == BidMade(t, t.acting, n)
         IN  Sound(SetActing(u, NextSeat(u, t.acting)), chips, failed, dealt, out, passed)
<1>. DEFINE s == t.acting
            u == BidMade(t, s, n)
            w == SetActing(u, NextSeat(u, s))
            k == t.bidCount
            d == t.dealer
<1>1. /\ t \in TableState /\ chips \in Int /\ failed \in Nat
      /\ dealt \in Hands /\ out \in Hands /\ passed \subseteq Seats
      /\ Funds(t, chips) /\ Filled(t) /\ Bidding(t, failed) /\ Counted(t, dealt, out)
  BY DEF Sound
<1>2. /\ Playable(t) = Seats /\ s \in Seats /\ d \in Seats
      /\ NextSeat(t, s) = On(s, 1)
  BY <1>1, AllPlay DEF HandActive
<1>3. /\ u \in TableState
      /\ u.user = t.user /\ u.stack = t.stack /\ u.hand = t.hand
      /\ u.bid = [t.bid EXCEPT ![s] = n] /\ u.bidCount = k + 1
      /\ u.highestBid = IF n > t.highestBid THEN n ELSE t.highestBid
      /\ u.highestBidder = IF n > t.highestBid THEN s ELSE t.highestBidder
      /\ u.phase = t.phase /\ u.dealer = d /\ u.bottom = t.bottom
      /\ u.landlord = t.landlord
  BY <1>1, <1>2, BidMadeFacts, ZenonT(60)
<1>4. u.bidCount # MaxSeats
  BY DEF LastBid
<1>5. NextSeat(u, s) = On(s, 1) /\ On(s, 1) \in Seats
  BY <1>2, <1>3, OnRing DEF NextSeat, Playable, Occupied
<1>6. k < MaxSeats => (u.highestBidder # NoSeat =>
               /\ u.bid[u.highestBidder] = u.highestBid /\ u.highestBid > 0
               /\ \A x \in Seats \ {u.highestBidder} : u.bid[x] < u.highestBid)
  BY <1>1, BidLeads
<1>. HIDE DEF u, s, k, d
<1>7. /\ w \in TableState /\ SameHand(u, w) /\ w.acting = On(s, 1)
  BY <1>3, <1>5, SetActingFacts, ZenonT(60)
<1>. HIDE DEF w
<1>8. /\ w.user = t.user /\ w.stack = t.stack /\ w.hand = t.hand /\ w.bid = u.bid
      /\ w.phase = "bidding" /\ w.dealer = d /\ w.bottom = t.bottom
      /\ w.highestBid = u.highestBid /\ w.highestBidder = u.highestBidder
      /\ w.bidCount = k + 1 /\ w.landlord = t.landlord
  BY <1>3, <1>7 DEF SameHand
<1>9. Funds(w, chips) /\ Filled(w)
  BY <1>1, <1>2, <1>5, <1>7, <1>8, FundsFrom, FilledFrom
<1>10. Bidding(w, failed)
  <2>1. /\ t.landlord = NoSeat /\ t.highestBid < 3
        /\ \A x \in Seats : t.bid[x] <= t.highestBid
        /\ t.highestBidder = NoSeat => t.highestBid = 0
        /\ k >= MaxSeats => failed > 0
        /\ k < MaxSeats => /\ s = On(d, k)
                           /\ \A j \in k..2 : t.bid[On(d, j)] = 0
    BY <1>1 DEF Bidding, s, k, d
  <2>2. k \in Nat /\ t.highestBid \in 0..3 /\ t.bid \in [Seats -> 0..3]
    BY <1>1 DEF TableState, k
  <2>3. u.highestBid < 3
    BY <1>3, <2>1, <2>2
  <2>4. \A x \in Seats : u.bid[x] <= u.highestBid
    <3>1. \A x \in Seats : u.bid[x] = IF x = s THEN n ELSE t.bid[x]
      BY <1>3, <2>2
    <3>2. \A x \in Seats : t.bid[x] \in 0..3
      BY <2>2
    <3>. QED
      BY <1>3, <2>1, <2>2, <3>1, <3>2
  <2>5. u.highestBidder = NoSeat => u.highestBid = 0
    BY <1>2, <1>3, <2>1, ThreeSeats
  <2>6. k + 1 >= MaxSeats => failed > 0
    BY <1>3, <1>4, <2>1, <2>2, ThreeSeats
  <2>7. k + 1 < MaxSeats => /\ On(s, 1) = On(d, k + 1)
                            /\ \A j \in (k + 1)..2 : u.bid[On(d, j)] = 0
    <3>. SUFFICES ASSUME k + 1 < MaxSeats
         PROVE  /\ On(s, 1) = On(d, k + 1)
                /\ \A j \in (k + 1)..2 : u.bid[On(d, j)] = 0
      OBVIOUS
    <3>1. (k = 0 \/ k = 1) /\ k < MaxSeats
      BY <2>2, ThreeSeats
    <3>2. s = On(d, k) /\ \A j \in k..2 : t.bid[On(d, j)] = 0
      BY <2>1, <3>1
    <3>3. On(d, 0) = d /\ On(On(d, 1), 1) = On(d, 2)
      BY <1>2, OnRing
    <3>4. On(s, 1) = On(d, k + 1)
      BY <3>1, <3>2, <3>3
    <3>5. \A j \in (k + 1)..2 : On(d, j) # s /\ On(d, j) \in Seats /\ j \in k..2
      <4>1. /\ On(d, 0) # On(d, 1) /\ On(d, 0) # On(d, 2) /\ On(d, 1) # On(d, 2)
            /\ On(d, 1) \in Seats /\ On(d, 2) \in Seats
        BY <1>2, OnRing
      <4>. QED
        BY <3>1, <3>2, <4>1
    <3>6. \A x \in Seats \ {s} : u.bid[x] = t.bid[x]
      BY <1>3, <2>2
    <3>. QED
      BY <3>2, <3>4, <3>5, <3>6
  <2>8. k + 1 < MaxSeats => k < MaxSeats
    BY <2>2, ThreeSeats
  <2>. QED
    BY <1>6, <1>7, <1>8, <2>1, <2>3, <2>4, <2>5, <2>6, <2>7, <2>8 DEF Bidding
<1>11. Playing(w, failed, passed) /\ Paid(w)
  BY <1>8 DEF Playing, Paid
<1>12. Counted(w, dealt, out)
  BY <1>1, <1>8 DEF Counted, HandActive
<1>. QED
  BY <1>1, <1>7, <1>9, <1>10, <1>11, <1>12 DEF Sound, u, s, w

\* A play that leaves the player with cards.
LEMMA PlayGoesOn ==
  ASSUME NEW t, NEW chips, NEW failed, NEW dealt, NEW out, NEW passed, NEW c \in Hands,
         Sound(t, chips, failed, dealt, out, passed), t.phase = "playing",
         Holds(t.hand[t.acting], c)
  PROVE  LET u == Plays(t, t.acting, c)
         IN  Sound(SetActing(u, NextSeat(t, t.acting)), chips, failed, dealt, Plus(out, c), {})
<1>. DEFINE s == t.acting
            u == Plays(t, s, c)
            w == SetActing(u, NextSeat(t, s))
<1>1. /\ t \in TableState /\ chips \in Int /\ failed \in Nat
      /\ dealt \in Hands /\ out \in Hands /\ passed \subseteq Seats
      /\ Funds(t, chips) /\ Filled(t) /\ Playing(t, failed, passed) /\ Counted(t, dealt, out)
  BY DEF Sound
<1>2. /\ Playable(t) = Seats /\ s \in Seats /\ t.dealer \in Seats
      /\ NextSeat(t, s) = On(s, 1) /\ On(s, 1) \in Seats
  BY <1>1, AllPlay, OnRing DEF HandActive
<1>3. /\ u \in TableState
      /\ u.user = t.user /\ u.stack = t.stack /\ u.bid = t.bid
      /\ u.hand = Without(t.hand, s, c)
      /\ u.phase = t.phase /\ u.dealer = t.dealer /\ u.bottom = t.bottom
      /\ u.bidCount = t.bidCount
      /\ u.landlord = t.landlord
      /\ u.lastSeat = s /\ u.trickOpen = TRUE /\ u.passCount = 0
  <2>1. t \in TableState /\ s \in Seats /\ Holds(t.hand[s], c)
    BY <1>1, <1>2
  <2>. HIDE DEF s
  <2>. QED
    BY <2>1, PlaysFacts, ZenonT(60)
<1>. HIDE DEF u, s
<1>4. w \in TableState /\ SameHand(u, w) /\ w.acting = On(s, 1)
  <2>1. w = SetActing(u, On(s, 1)) /\ On(s, 1) \in Seats \cup {NoSeat} /\ u \in TableState
    BY <1>2, <1>3
  <2>. HIDE DEF w
  <2>. QED
    BY <2>1, SetActingFacts
<1>. HIDE DEF w
<1>5. /\ w.user = t.user /\ w.stack = t.stack /\ w.bid = t.bid /\ w.hand = u.hand
      /\ w.phase = "playing" /\ w.dealer = t.dealer /\ w.bottom = t.bottom
      /\ w.bidCount = t.bidCount /\ w.landlord = t.landlord
      /\ w.lastSeat = s /\ w.trickOpen = TRUE /\ w.passCount = 0
  BY <1>3, <1>4 DEF SameHand
<1>6. Funds(w, chips) /\ Filled(w)
  BY <1>1, <1>2, <1>4, <1>5, FundsFrom, FilledFrom
<1>7. Bidding(w, failed) /\ Paid(w)
  BY <1>5 DEF Bidding, Paid
<1>8. Playing(w, failed, {})
  <2>1. {} = {On(s, k) : k \in 1..0} /\ 1 + 0 = 1
    OBVIOUS
  <2>. QED
    BY <1>1, <1>2, <1>4, <1>5, <2>1 DEF Playing
<1>9. Counted(w, dealt, Plus(out, c))
  <2>. SUFFICES ASSUME NEW r \in Ranks
       PROVE  dealt[r] = w.hand[0][r] + w.hand[1][r] + w.hand[2][r]
                   + (IF w.landlord = NoSeat THEN w.bottom[r] ELSE 0) + Plus(out, c)[r]
    BY DEF Counted
  <2>. DEFINE rest == IF t.landlord = NoSeat THEN t.bottom[r] ELSE 0
  <2>1. dealt[r] = t.hand[0][r] + t.hand[1][r] + t.hand[2][r] + rest + out[r]
    BY <1>1 DEF Counted, HandActive
  <2>2. /\ t.hand \in [Seats -> Hands] /\ t.bottom \in Hands
    BY <1>1 DEF TableState
  <2>3. /\ t.hand[0][r] \in Nat /\ t.hand[1][r] \in Nat /\ t.hand[2][r] \in Nat
        /\ rest \in Nat /\ out[r] \in Nat /\ c[r] \in Nat
    BY <1>1, <2>2, ThreeSeats DEF Hands
  <2>4. \A x \in Seats : w.hand[x][r] = IF x = s THEN t.hand[x][r] - c[r] ELSE t.hand[x][r]
    BY <1>3, <1>5, <2>2 DEF Without, Minus
  <2>5. s \in {0, 1, 2} /\ Plus(out, c)[r] = out[r] + c[r]
        /\ (IF w.landlord = NoSeat THEN w.bottom[r] ELSE 0) = rest
    BY <1>2, <1>5, ThreeSeats DEF Plus
  <2>6. /\ w.hand[0][r] = IF 0 = s THEN t.hand[0][r] - c[r] ELSE t.hand[0][r]
        /\ w.hand[1][r] = IF 1 = s THEN t.hand[1][r] - c[r] ELSE t.hand[1][r]
        /\ w.hand[2][r] = IF 2 = s THEN t.hand[2][r] - c[r] ELSE t.hand[2][r]
    BY <2>4, ThreeSeats
  <2>. DEFINE a == t.hand[0][r]  b == t.hand[1][r]  f == t.hand[2][r]  e == c[r]
              x == w.hand[0][r]  y == w.hand[1][r]  z == w.hand[2][r]  o == out[r]
  <2>7. /\ a \in Nat /\ b \in Nat /\ f \in Nat /\ e \in Nat /\ o \in Nat /\ rest \in Nat
        /\ x = (IF 0 = s THEN a - e ELSE a) /\ y = (IF 1 = s THEN b - e ELSE b)
        /\ z = (IF 2 = s THEN f - e ELSE f)
        /\ dealt[r] = a + b + f + rest + o
    BY <2>1, <2>3, <2>6
  <2>. HIDE DEF a, b, f, e, x, y, z, o, rest
  <2>8. a + b + f + rest + o = x + y + z + rest + (o + e)
    BY <2>5, <2>7
  <2>. QED
    BY <2>5, <2>7, <2>8 DEF x, y, z, o, e
<1>10. Plus(out, c) \in Hands
  BY <1>1, CardsMove
<1>. QED
  BY <1>1, <1>4, <1>6, <1>7, <1>8, <1>9, <1>10 DEF Sound, u, s, w

\* Between hands only the chips and what was paid matter.
LEMMA IdleSound ==
  ASSUME NEW t \in TableState, NEW chips \in Int, NEW failed \in Nat, NEW dealt \in Hands,
         NEW out \in Hands, NEW passed \in SUBSET Seats,
         ~HandActive(t), Funds(t, chips), Paid(t)
  PROVE  Sound(t, chips, failed, dealt, out, passed)
BY DEF Sound, HandActive, Filled, Bidding, Playing, Counted

\* A play that empties a hand.
LEMMA PlayEnds ==
  ASSUME NEW t, NEW chips, NEW failed, NEW dealt, NEW out, NEW passed, NEW c \in Hands,
         Sound(t, chips, failed, dealt, out, passed), t.phase = "playing",
         Holds(t.hand[t.acting], c)
  PROVE  LET u == Plays(t, t.acting, c)
         IN  Sound(Finished(u, t.acting), chips, failed, dealt, Plus(out, c), {})
<1>. DEFINE s == t.acting
            u == Plays(t, s, c)
            w == Finished(u, s)
<1>1. /\ t \in TableState /\ chips \in Int /\ failed \in Nat
      /\ dealt \in Hands /\ out \in Hands
      /\ Funds(t, chips) /\ Filled(t) /\ Playing(t, failed, passed)
  BY DEF Sound
<1>2. s \in Seats /\ t.landlord \in Seats /\ \A x \in Seats : t.user[x] # NoUser
  BY <1>1 DEF Filled, Playing, HandActive
<1>3. u \in TableState /\ u.user = t.user /\ u.stack = t.stack /\ u.landlord \in Seats
  <2>1. t \in TableState /\ s \in Seats /\ Holds(t.hand[s], c)
    BY <1>1, <1>2
  <2>. HIDE DEF s
  <2>. QED
    BY <1>2, <2>1, PlaysFacts, ZenonT(60)
<1>. HIDE DEF u, s
<1>4. /\ w \in TableState /\ Paid(w) /\ SeatSum(w.stack) = SeatSum(u.stack)
      /\ w.user = u.user /\ w.phase = "complete"
  BY <1>2, <1>3, FinishedFacts
<1>. HIDE DEF w
<1>5. Funds(w, chips)
  BY <1>1, <1>2, <1>3, <1>4 DEF Funds
<1>6. ~HandActive(w)
  BY <1>4 DEF HandActive
<1>7. Plus(out, c) \in Hands /\ {} \in SUBSET Seats
  BY <1>1, CardsMove
<1>8. Sound(w, chips, failed, dealt, Plus(out, c), {})
  BY <1>1, <1>4, <1>5, <1>6, <1>7, IdleSound
<1>. QED
  BY <1>8 DEF w, u, s

\* What stays when a pass is counted.
SameBut(t, u) ==
  /\ u.user = t.user /\ u.stack = t.stack /\ u.hand = t.hand /\ u.bid = t.bid
  /\ u.phase = t.phase /\ u.dealer = t.dealer /\ u.bottom = t.bottom
  /\ u.bidCount = t.bidCount /\ u.landlord = t.landlord
  /\ u.lastSeat = t.lastSeat /\ u.turnID = t.turnID

\* A pass is counted, or closes the round.
LEMMA PassTypes ==
  ASSUME NEW t \in TableState
  PROVE  /\ LET u == [t EXCEPT !.passCount = t.passCount + 1]
            IN  /\ u \in TableState /\ SameBut(t, u)
                /\ u.trickOpen = t.trickOpen /\ u.passCount = t.passCount + 1
         /\ LET u == [t EXCEPT !.trickOpen = FALSE, !.passCount = 0]
            IN  u \in TableState /\ SameBut(t, u) /\ u.trickOpen = FALSE
<1>. DEFINE n == t.passCount + 1
            u == [t EXCEPT !.passCount = n]
            v == [t EXCEPT !.trickOpen = FALSE, !.passCount = 0]
<1>1. n \in Nat /\ 0 \in Nat
  BY DEF TableState
<1>. HIDE DEF n
<1>2. u \in TableState
  BY <1>1, Zenon DEF TableState
<1>3. v \in TableState
  BY <1>1, Zenon DEF TableState
<1>4. SameBut(t, u) /\ u.passCount = n /\ u.trickOpen = t.trickOpen
  BY Zenon DEF TableState, SameBut
<1>5. SameBut(t, v) /\ v.trickOpen = FALSE
  BY DEF TableState, SameBut
<1>. QED
  BY <1>2, <1>3, <1>4, <1>5 DEF n

\* The table after a pass of the seat to act.
Passed(t, s) ==
  IF t.passCount + 1 >= MaxSeats - 1
  THEN SetActing([t EXCEPT !.trickOpen = FALSE, !.passCount = 0], t.lastSeat)
  ELSE SetActing([t EXCEPT !.passCount = @ + 1], NextSeat(t, s))

\* A pass; the second one in a row closes the round.
LEMMA PassSound ==
  ASSUME NEW t, NEW chips, NEW failed, NEW dealt, NEW out, NEW passed,
         Sound(t, chips, failed, dealt, out, passed), t.phase = "playing",
         ~Leads(t, t.acting)
  PROVE  LET u == Passed(t, t.acting)
         IN  /\ Sound(u, chips, failed, dealt, out, passed \cup {t.acting})
             /\ u.turnID = t.turnID + 1 /\ u.expired = FALSE
             /\ u.user = t.user /\ u.stack = t.stack /\ u.phase = t.phase
             /\ ~u.trickOpen => /\ u.acting = t.lastSeat
                                /\ passed \cup {t.acting} = Seats \ {t.lastSeat}
<1>. DEFINE s == t.acting
            l == t.lastSeat
            u == Passed(t, s)
<1>1. /\ t \in TableState /\ chips \in Int /\ failed \in Nat
      /\ dealt \in Hands /\ out \in Hands /\ passed \subseteq Seats
      /\ Funds(t, chips) /\ Filled(t) /\ Playing(t, failed, passed) /\ Counted(t, dealt, out)
  BY DEF Sound
<1>2. /\ Playable(t) = Seats /\ s \in Seats /\ t.dealer \in Seats
      /\ NextSeat(t, s) = On(s, 1) /\ On(s, 1) \in Seats
  BY <1>1, AllPlay, OnRing DEF HandActive
<1>3. /\ t.trickOpen = TRUE /\ l \in Seats /\ t.passCount \in {0, 1}
      /\ s = On(l, 1 + t.passCount)
      /\ passed = {On(l, k) : k \in 1..t.passCount}
  <2>1. t.trickOpen = TRUE
    BY <1>1 DEF Leads, TableState
  <2>. QED
    BY <1>1, <2>1 DEF Playing
<1>4. /\ t.landlord \in Seats
      /\ \A x \in Seats \ {t.landlord} : t.bid[x] < t.bid[t.landlord]
      /\ failed = 0 => t.bid[t.landlord] = 3 \/ t.bidCount = MaxSeats
  BY <1>1 DEF Playing
<1>5. ASSUME NEW f \in TableState, SameBut(t, f), NEW a \in Seats, NEW q \in SUBSET Seats,
             f.trickOpen => /\ f.passCount \in {0, 1} /\ a = On(l, 1 + f.passCount)
                            /\ q = {On(l, k) : k \in 1..f.passCount}
      PROVE  LET v == SetActing(f, a)
             IN  /\ Sound(v, chips, failed, dealt, out, q)
                 /\ v.turnID = t.turnID + 1 /\ v.expired = FALSE /\ v.acting = a
                 /\ v.user = t.user /\ v.stack = t.stack /\ v.phase = t.phase
                 /\ v.trickOpen = f.trickOpen
  <2>. DEFINE v == SetActing(f, a)
  <2>2. v \in TableState /\ SameHand(f, v) /\ v.acting = a /\ v.turnID = f.turnID + 1
        /\ v.expired = FALSE
    BY SetActingFacts
  <2>. HIDE DEF v
  <2>3. /\ v.user = t.user /\ v.stack = t.stack /\ v.hand = t.hand /\ v.bid = t.bid
        /\ v.phase = t.phase /\ v.dealer = t.dealer /\ v.bottom = t.bottom
        /\ v.bidCount = t.bidCount /\ v.landlord = t.landlord
        /\ v.lastSeat = l /\ v.trickOpen = f.trickOpen /\ v.passCount = f.passCount
        /\ v.turnID = t.turnID + 1
    BY <1>5, <2>2 DEF SameHand, SameBut
  <2>4. Funds(v, chips) /\ Filled(v)
    BY <1>1, <1>2, <2>2, <2>3, FundsFrom, FilledFrom
  <2>5. Bidding(v, failed) /\ Paid(v)
    BY <2>3 DEF Bidding, Paid
  <2>6. Playing(v, failed, q)
    <3>. HIDE DEF l
    <3>. QED
      BY <1>3, <1>4, <1>5, <2>2, <2>3 DEF Playing
  <2>7. Counted(v, dealt, out)
    BY <1>1, <2>3 DEF Counted, HandActive
  <2>. QED
    BY <1>1, <2>2, <2>3, <2>4, <2>5, <2>6, <2>7 DEF Sound, v
<1>6. /\ On(l, 1) \in Seats /\ On(l, 2) \in Seats /\ On(On(l, 1), 1) = On(l, 2)
      /\ Seats \ {l} = {On(l, 1), On(l, 2)}
  BY <1>3, OnRing
<1>. HIDE DEF l, s
<1>7. CASE t.passCount = 0
  <2>. DEFINE f == [t EXCEPT !.passCount = t.passCount + 1]
              q == passed \cup {s}
  <2>1. u = SetActing(f, On(l, 2))
    <3>1. ~(t.passCount + 1 >= MaxSeats - 1)
      BY <1>7, ThreeSeats
    <3>2. s = On(l, 1)
      BY <1>3, <1>7
    <3>. QED
      BY <1>2, <1>6, <3>1, <3>2 DEF Passed
  <2>2. q = {On(l, k) : k \in 1..1} /\ q \in SUBSET Seats
    BY <1>1, <1>2, <1>3, <1>7
  <2>3. f \in TableState /\ SameBut(t, f) /\ f.trickOpen = t.trickOpen /\ f.passCount = 1
    <3>1. /\ f \in TableState /\ SameBut(t, f)
          /\ f.trickOpen = t.trickOpen /\ f.passCount = t.passCount + 1
      BY <1>1, PassTypes, Zenon
    <3>. HIDE DEF f
    <3>. QED
      BY <1>7, <3>1
  <2>. HIDE DEF f, q, u
  <2>4. f.passCount \in {0, 1} /\ On(l, 2) = On(l, 1 + f.passCount)
        /\ q = {On(l, k) : k \in 1..f.passCount}
    BY <2>2, <2>3
  <2>5. /\ Sound(u, chips, failed, dealt, out, q)
        /\ u.turnID = t.turnID + 1 /\ u.expired = FALSE
        /\ u.user = t.user /\ u.stack = t.stack /\ u.phase = t.phase
        /\ u.trickOpen = f.trickOpen
    BY <1>5, <1>6, <2>1, <2>2, <2>3, <2>4
  <2>6. u.trickOpen = TRUE
    BY <1>3, <2>3, <2>5
  <2>. QED
    BY <2>5, <2>6 DEF q, u, s
<1>8. CASE t.passCount = 1
  <2>. DEFINE f == [t EXCEPT !.trickOpen = FALSE, !.passCount = 0]
              q == passed \cup {s}
  <2>1. u = SetActing(f, l)
    BY <1>8, ThreeSeats DEF Passed, l
  <2>2. q = Seats \ {l} /\ q \in SUBSET Seats
    <3>1. passed = {On(l, 1)} /\ s = On(l, 2)
      BY <1>3, <1>8
    <3>. QED
      BY <1>6, <3>1
  <2>3. f \in TableState /\ SameBut(t, f) /\ f.trickOpen = FALSE
    BY <1>1, PassTypes
  <2>. HIDE DEF f, q, u
  <2>4. /\ Sound(u, chips, failed, dealt, out, q)
        /\ u.turnID = t.turnID + 1 /\ u.expired = FALSE /\ u.acting = l
        /\ u.user = t.user /\ u.stack = t.stack /\ u.phase = t.phase
    BY <1>3, <1>5, <2>1, <2>2, <2>3
  <2>. QED
    BY <2>2, <2>4 DEF q, u, s, l
<1>. QED
  BY <1>3, <1>7, <1>8

-----------------------------------------------------------------------------
(* The operations *)

\* What an operation does to the table as the service sees it.
SitsDown(s, u) ==
  /\ ~HandActive(table) /\ ~HandActive(table')
  /\ table.user[s] = NoUser /\ \A o \in Seats : table.user[o] # u
  /\ table'.user = [table.user EXCEPT ![s] = u]
  /\ table'.stack[s] > 0 /\ table'.stack = [table.stack EXCEPT ![s] = table'.stack[s]]
  /\ table'.turnID = table.turnID /\ table'.expired = table.expired

StandsUp(s) ==
  /\ ~HandActive(table) /\ ~HandActive(table')
  /\ table.user[s] # NoUser
  /\ table'.user = [table.user EXCEPT ![s] = NoUser]
  /\ table'.stack = [table.stack EXCEPT ![s] = 0]
  /\ table'.turnID = table.turnID /\ table'.expired = table.expired

Waits ==
  /\ table'.user = table.user /\ table'.stack = table.stack /\ table'.phase = table.phase
  /\ table'.turnID = table.turnID /\ table'.expired = table.expired
  /\ table'.trickOpen = table.trickOpen

StartsHand ==
  /\ ~HandActive(table) /\ HandActive(table') /\ Playable(table) = Seats
  /\ table'.user = table.user /\ table'.stack = table.stack
  /\ table'.turnID = table.turnID + 1 /\ table'.expired = FALSE

\* A decision was made; a round is closed only by the second pass.
MovesOn ==
  /\ HandActive(table) /\ HandActive(table')
  /\ table'.user = table.user /\ table'.stack = table.stack
  /\ table'.turnID = table.turnID + 1 /\ table'.expired = FALSE
  /\ (table.phase = "playing" /\ ~table'.trickOpen) =>
       /\ table'.acting = table.lastSeat /\ passers' = Seats \ {table.lastSeat}

EndsHand ==
  /\ HandActive(table) /\ ~HandActive(table')
  /\ table'.user = table.user /\ SeatSum(table'.stack) = SeatSum(table.stack)
  /\ table'.turnID = table.turnID /\ table'.expired = FALSE

RunsOut ==
  /\ HandActive(table) /\ ~table.expired /\ table'.expired = TRUE
  /\ table'.user = table.user /\ table'.stack = table.stack /\ table'.phase = table.phase
  /\ table'.turnID = table.turnID /\ table'.trickOpen = table.trickOpen

Does ==
  \/ \E s \in Seats, u \in Users : SitsDown(s, u)
  \/ \E s \in Seats : StandsUp(s)
  \/ Waits \/ StartsHand \/ MovesOn \/ EndsHand \/ RunsOut

\* A seat is taken or given up.
LEMMA SeatTypes ==
  ASSUME NEW t \in TableState, NEW w \in [Seats -> Users \cup {NoUser}], NEW k \in [Seats -> Nat],
         NEW h \in [Seats -> Hands], NEW b \in [Seats -> 0..3], NEW p \in [Seats -> Nat],
         NEW e \in [Seats -> BOOLEAN]
  PROVE  [t EXCEPT !.user = w, !.stack = k, !.hand = h, !.ready = e, !.bid = b, !.plays = p]
           \in TableState
<1>. DEFINE u == [t EXCEPT !.user = w, !.stack = k, !.hand = h]
<1>1. u \in TableState
  BY Zenon DEF TableState
<1>2. [t EXCEPT !.user = w, !.stack = k, !.hand = h, !.ready = e, !.bid = b, !.plays = p]
        = [u EXCEPT !.ready = e, !.bid = b, !.plays = p]
  OBVIOUS
<1>. HIDE DEF u
<1>3. [u EXCEPT !.ready = e, !.bid = b, !.plays = p] \in TableState
  BY <1>1, Zenon DEF TableState
<1>. QED
  BY <1>2, <1>3

\* What sitting down and standing up write.
Rewritten(t, s, who, c, e) ==
  [t EXCEPT !.user = [t.user EXCEPT ![s] = who], !.stack = [t.stack EXCEPT ![s] = c],
            !.hand = [t.hand EXCEPT ![s] = NoCards], !.ready = e,
            !.bid = [t.bid EXCEPT ![s] = 0], !.plays = [t.plays EXCEPT ![s] = 0]]

SeatChanged(t, u, s, who, c) ==
  /\ u \in TableState
  /\ u.user = [t.user EXCEPT ![s] = who] /\ u.stack = [t.stack EXCEPT ![s] = c]
  /\ u.hand = [t.hand EXCEPT ![s] = NoCards]
  /\ SeatSum(u.stack) = SeatSum(t.stack) + c - t.stack[s]
  /\ u.phase = t.phase /\ u.landlord = t.landlord /\ u.result = t.result
  /\ u.turnID = t.turnID /\ u.expired = t.expired

\* That seat is changed, and nothing the hand before left.
LEMMA SeatWritten ==
  ASSUME NEW t \in TableState, NEW s \in Seats, NEW who \in Users \cup {NoUser}, NEW c \in Nat,
         NEW e \in [Seats -> BOOLEAN]
  PROVE  SeatChanged(t, Rewritten(t, s, who, c, e), s, who, c)
<1>. DEFINE w == [t.user EXCEPT ![s] = who]
            k == [t.stack EXCEPT ![s] = c]
            h == [t.hand EXCEPT ![s] = NoCards]
            b == [t.bid EXCEPT ![s] = 0]
            p == [t.plays EXCEPT ![s] = 0]
            u == [t EXCEPT !.user = w, !.stack = k, !.hand = h, !.ready = e, !.bid = b, !.plays = p]
<1>1. w \in [Seats -> Users \cup {NoUser}] /\ k \in [Seats -> Nat]
  BY DEF TableState
<1>2. h \in [Seats -> Hands]
  <2>1. NoCards \in Hands
    BY DEF NoCards, Hands
  <2>. QED
    BY <2>1 DEF TableState
<1>3. b \in [Seats -> 0..3] /\ p \in [Seats -> Nat]
  BY DEF TableState
<1>4. SeatSum(k) = SeatSum(t.stack) + c - t.stack[s]
  <2>1. t.stack \in [Seats -> Int] /\ k \in [Seats -> Int] /\ k[s] = c
        /\ \A o \in Seats \ {s} : t.stack[o] = k[o]
    BY DEF TableState
  <2>. HIDE DEF k
  <2>. QED
    BY <2>1, SumsOfThree
<1>. HIDE DEF w, k, h, b, p
<1>5. u \in TableState
  BY <1>1, <1>2, <1>3, SeatTypes
<1>6. /\ u.user = w /\ u.stack = k /\ u.hand = h
      /\ u.phase = t.phase /\ u.landlord = t.landlord /\ u.result = t.result
      /\ u.turnID = t.turnID /\ u.expired = t.expired
  BY DEF TableState
<1>. QED
  BY <1>4, <1>5, <1>6 DEF w, k, h, b, p, Rewritten, SeatChanged

\* The parts of the invariant.
LEMMA InvParts ==
  ASSUME LInv
  PROVE  /\ table \in TableState /\ supply \in Int /\ bad \in Nat
         /\ deck \in Hands /\ played \in Hands /\ passers \in SUBSET Seats
         /\ Funds(table, supply) /\ Filled(table) /\ Bidding(table, bad)
         /\ Playing(table, bad, passers) /\ Counted(table, deck, played) /\ Paid(table)
BY DEF LInv, Sound

\* Sitting down.
LEMMA JoinKeeps ==
  ASSUME LInv, NEW u \in Users, NEW b \in BuyIns, Join(u, b)
  PROVE  LInv' /\ Does
<1>. DEFINE s == Min(Seats \ Occupied(table))
            e == [table.ready EXCEPT ![s] = FALSE]
<1>1. /\ table \in TableState /\ supply \in Int /\ bad \in Nat
      /\ deck \in Hands /\ played \in Hands /\ passers \in SUBSET Seats
      /\ Funds(table, supply) /\ Paid(table)
  BY InvParts
<1>2. ~HandActive(table) /\ SeatOf(table, u) = {} /\ Occupied(table) # Seats
  BY DEF Join
<1>3. s \in Seats \ Occupied(table)
  <2>. DEFINE E == Seats \ Occupied(table)
  <2>1. E # {} /\ E \subseteq Nat
    BY <1>2, ThreeSeats DEF Occupied
  <2>. HIDE DEF E
  <2>2. \E x \in E : \A y \in E : x <= y
    BY <2>1, NatHasLeast
  <2>3. Min(E) \in E
    BY <2>2 DEF Min
  <2>. QED
    BY <2>3 DEF E
<1>4. s \in Seats /\ table.user[s] = NoUser /\ table.stack[s] = 0
  BY <1>1, <1>3 DEF Occupied, Funds
<1>5. b \in Nat /\ b > 0 /\ u \in Users \cup {NoUser} /\ u # NoUser
  BY LandlordAssumption
<1>6. e \in [Seats -> BOOLEAN]
  BY <1>1 DEF TableState
<1>7. table' = [table EXCEPT !.user[s] = u, !.stack[s] = b, !.hand[s] = NoCards,
                             !.ready[s] = FALSE, !.bid[s] = 0, !.plays[s] = 0]
      /\ supply' = supply + b /\ deck' = deck /\ played' = played /\ passers' = passers
      /\ bad' = bad
  BY DEF Join, NothingPlayed
<1>. HIDE DEF s
<1>8. table' = Rewritten(table, s, u, b, e)
  BY <1>7 DEF Rewritten
<1>. HIDE DEF e
<1>9. /\ table' \in TableState
      /\ table'.user = [table.user EXCEPT ![s] = u] /\ table'.stack = [table.stack EXCEPT ![s] = b]
      /\ SeatSum(table'.stack) = SeatSum(table.stack) + b - table.stack[s]
      /\ table'.phase = table.phase /\ table'.landlord = table.landlord
      /\ table'.result = table.result
      /\ table'.turnID = table.turnID /\ table'.expired = table.expired
  <2>1. SeatChanged(table, Rewritten(table, s, u, b, e), s, u, b)
    BY <1>1, <1>4, <1>5, <1>6, SeatWritten
  <2>. QED
    BY <1>8, <2>1 DEF SeatChanged
<1>10. Funds(table', supply')
  <2>1. SeatSum(table'.stack) = supply'
    BY <1>1, <1>4, <1>5, <1>7, <1>9 DEF Funds
  <2>2. \A o \in Seats : table'.user[o] = NoUser => table'.stack[o] = 0
    BY <1>1, <1>5, <1>9 DEF Funds, TableState
  <2>. QED
    BY <2>1, <2>2 DEF Funds
<1>11. ~HandActive(table') /\ Paid(table')
  BY <1>1, <1>2, <1>9 DEF HandActive, Paid
<1>12. supply' \in Int
  BY <1>1, <1>5, <1>7
<1>13. LInv'
  <2>1. /\ bad' \in Nat /\ deck' \in Hands /\ played' \in Hands /\ passers' \in SUBSET Seats
    BY <1>1, <1>7
  <2>2. Sound(table', supply', bad', deck', played', passers')
    BY <1>9, <1>10, <1>11, <1>12, <2>1, IdleSound
  <2>. QED
    BY <2>2 DEF LInv
<1>14. SitsDown(s, u)
  <2>1. \A o \in Seats : table.user[o] # u
    BY <1>2 DEF SeatOf
  <2>2. table'.stack[s] = b
    BY <1>1, <1>4, <1>9 DEF TableState
  <2>. QED
    BY <1>2, <1>4, <1>5, <1>9, <1>11, <2>1, <2>2 DEF SitsDown
<1>. QED
  BY <1>4, <1>13, <1>14 DEF Does

\* Standing up.
LEMMA LeaveKeeps ==
  ASSUME LInv, NEW u \in Users, Leave(u)
  PROVE  LInv' /\ Does
<1>1. /\ table \in TableState /\ supply \in Int /\ bad \in Nat
      /\ deck \in Hands /\ played \in Hands /\ passers \in SUBSET Seats
      /\ Funds(table, supply) /\ Paid(table)
  BY InvParts
<1>2. PICK s \in SeatOf(table, u) :
        /\ table' = [table EXCEPT !.user[s] = NoUser, !.stack[s] = 0, !.hand[s] = NoCards,
                                  !.bid[s] = 0, !.plays[s] = 0, !.ready = Everyone(FALSE)]
        /\ supply' = supply - table.stack[s]
  BY DEF Leave
<1>3. ~HandActive(table) /\ deck' = deck /\ played' = played /\ passers' = passers /\ bad' = bad
  BY DEF Leave, NothingPlayed
<1>4. s \in Seats /\ table.user[s] = u /\ u # NoUser
  BY <1>2, LandlordAssumption DEF SeatOf
<1>. DEFINE e == Everyone(FALSE)  z == 0
<1>5. table' = Rewritten(table, s, NoUser, z, e)
  BY <1>2 DEF Rewritten
<1>6. e \in [Seats -> BOOLEAN] /\ z \in Nat /\ NoUser \in Users \cup {NoUser} /\ z = 0
  BY DEF Everyone
<1>. HIDE DEF e, z
<1>7. /\ table' \in TableState
      /\ table'.user = [table.user EXCEPT ![s] = NoUser]
      /\ table'.stack = [table.stack EXCEPT ![s] = z]
      /\ SeatSum(table'.stack) = SeatSum(table.stack) + z - table.stack[s]
      /\ table'.phase = table.phase /\ table'.landlord = table.landlord
      /\ table'.result = table.result
      /\ table'.turnID = table.turnID /\ table'.expired = table.expired
  <2>1. SeatChanged(table, Rewritten(table, s, NoUser, z, e), s, NoUser, z)
    BY <1>1, <1>4, <1>6, SeatWritten
  <2>. QED
    BY <1>5, <2>1 DEF SeatChanged
<1>8. table.stack[s] \in Nat
  BY <1>1, <1>4 DEF TableState
<1>9. Funds(table', supply')
  <2>1. SeatSum(table'.stack) = supply'
    BY <1>1, <1>2, <1>6, <1>7, <1>8 DEF Funds
  <2>2. \A o \in Seats : table'.user[o] = NoUser => table'.stack[o] = 0
    BY <1>1, <1>6, <1>7 DEF Funds, TableState
  <2>. QED
    BY <2>1, <2>2 DEF Funds
<1>10. ~HandActive(table') /\ Paid(table')
  BY <1>1, <1>3, <1>7 DEF HandActive, Paid
<1>11. LInv'
  <2>1. /\ supply' \in Int /\ bad' \in Nat /\ deck' \in Hands /\ played' \in Hands
        /\ passers' \in SUBSET Seats
    BY <1>1, <1>2, <1>3, <1>8
  <2>2. Sound(table', supply', bad', deck', played', passers')
    BY <1>7, <1>9, <1>10, <2>1, IdleSound
  <2>. QED
    BY <2>2 DEF LInv
<1>12. StandsUp(s)
  BY <1>3, <1>4, <1>6, <1>7, <1>10 DEF StandsUp
<1>. QED
  BY <1>4, <1>11, <1>12 DEF Does

\* Pressing "ready", before anything is dealt.
LEMMA ToggledFacts ==
  ASSUME NEW u, table \in TableState
  PROVE  LET t == Toggled(u)
         IN  /\ t \in TableState
             /\ t.user = table.user /\ t.stack = table.stack /\ t.hand = table.hand
             /\ t.phase = table.phase
             /\ t.landlord = table.landlord /\ t.result = table.result
             /\ t.turnID = table.turnID /\ t.expired = table.expired
             /\ t.trickOpen = table.trickOpen
<1>. DEFINE r == [s \in Seats |-> IF s \in SeatOf(table, u) THEN ~table.ready[s]
                                  ELSE table.ready[s]]
            t == [table EXCEPT !.ready = r]
<1>1. r \in [Seats -> BOOLEAN]
  BY Zenon DEF TableState
<1>2. Toggled(u) = t
  BY DEF Toggled
<1>. HIDE DEF r
<1>3. t \in TableState
  BY <1>1, Zenon DEF TableState
<1>4. /\ t.user = table.user /\ t.stack = table.stack /\ t.hand = table.hand
      /\ t.phase = table.phase
      /\ t.landlord = table.landlord /\ t.result = table.result
      /\ t.turnID = table.turnID /\ t.expired = table.expired
      /\ t.trickOpen = table.trickOpen
  BY Zenon DEF TableState
<1>. QED
  BY <1>2, <1>3, <1>4

\* Pressing "ready" while others are not.
LEMMA ReadyKeeps ==
  ASSUME LInv, NEW u \in Users, Ready(u)
  PROVE  LInv' /\ Does
<1>1. /\ table \in TableState /\ supply \in Int /\ bad \in Nat
      /\ deck \in Hands /\ played \in Hands /\ passers \in SUBSET Seats
      /\ Funds(table, supply) /\ Paid(table)
  BY InvParts
<1>2. /\ ~HandActive(table) /\ table' = Toggled(u)
      /\ supply' = supply /\ bad' = bad /\ deck' = deck /\ played' = played
      /\ passers' = passers
  BY DEF Ready, MayReady, NothingPlayed
<1>3. /\ table' \in TableState
      /\ table'.user = table.user /\ table'.stack = table.stack /\ table'.phase = table.phase
      /\ table'.landlord = table.landlord /\ table'.result = table.result
      /\ table'.turnID = table.turnID /\ table'.expired = table.expired
      /\ table'.trickOpen = table.trickOpen
  BY <1>1, <1>2, ToggledFacts
<1>4. Funds(table', supply') /\ ~HandActive(table') /\ Paid(table')
  BY <1>1, <1>2, <1>3 DEF Funds, HandActive, Paid
<1>5. Sound(table', supply', bad', deck', played', passers')
  BY <1>1, <1>2, <1>3, <1>4, IdleSound
<1>6. Waits
  BY <1>3 DEF Waits
<1>. QED
  BY <1>5, <1>6 DEF LInv, Does

\* The third player is ready: the hand is dealt, or the shuffle fails.
LEMMA ReadyAndDealKeeps ==
  ASSUME LInv, NEW u \in Users, ReadyAndDeal(u)
  PROVE  LInv' /\ Does
<1>1. /\ table \in TableState /\ supply \in Int /\ bad \in Nat
      /\ deck \in Hands /\ played \in Hands /\ passers \in SUBSET Seats
      /\ Funds(table, supply) /\ Paid(table)
  BY InvParts
<1>2. /\ ~HandActive(table) /\ supply' = supply /\ Playable(Toggled(u)) = Seats
  BY DEF ReadyAndDeal, MayReady, Complete
<1>3. CASE BadShuffle /\ table' = table
  <2>1. /\ bad' = bad + 1 /\ deck' = deck /\ played' = played /\ passers' = passers
    BY <1>3 DEF BadShuffle, NothingPlayed
  <2>2. Sound(table', supply', bad', deck', played', passers')
    BY <1>1, <1>2, <1>3, <2>1, IdleSound
  <2>3. Waits
    BY <1>3 DEF Waits
  <2>. QED
    BY <2>2, <2>3 DEF LInv, Does
<1>4. CASE \E d \in Deals : table' = Dealt(Toggled(u), d) /\ Noted(d) /\ UNCHANGED bad
  <2>1. PICK d \in Deals : table' = Dealt(Toggled(u), d) /\ Noted(d) /\ UNCHANGED bad
    BY <1>4
  <2>2. deck' = Whole(d) /\ played' = NoCards /\ passers' = {} /\ bad' = bad
    BY <2>1 DEF Noted, Whole
  <2>. DEFINE t == Toggled(u)
  <2>3. /\ t \in TableState
        /\ t.user = table.user /\ t.stack = table.stack
        /\ t.turnID = table.turnID
    BY <1>1, ToggledFacts
  <2>4. Playable(t) = Seats
    BY <1>2
  <2>. HIDE DEF t
  <2>5. Funds(t, supply)
    BY <1>1, <2>3, FundsFrom
  <2>6. Sound(Dealt(t, d), supply, bad, Whole(d), NoCards, {})
    BY <1>1, <2>3, <2>4, <2>5, DealSound
  <2>7. LInv'
    BY <1>2, <2>1, <2>2, <2>6 DEF LInv, t
  <2>8. /\ table'.user = t.user /\ table'.stack = t.stack /\ table'.phase = "bidding"
        /\ table'.turnID = t.turnID + 1 /\ table'.expired = FALSE
    BY <2>1, <2>3, <2>4, DealtFacts DEF t
  <2>9. Playable(table) = Seats
    BY <2>3, <2>4 DEF Playable, Occupied
  <2>10. StartsHand
    BY <1>2, <2>3, <2>8, <2>9 DEF StartsHand, HandActive
  <2>. QED
    BY <2>7, <2>10 DEF Does
<1>. QED
  BY <1>3, <1>4 DEF ReadyAndDeal

\* The clock.
LEMMA DeadlineKeeps ==
  ASSUME LInv, DeadlinePasses
  PROVE  LInv' /\ Does
<1>1. /\ table \in TableState /\ supply \in Int /\ bad \in Nat
      /\ deck \in Hands /\ played \in Hands /\ passers \in SUBSET Seats
      /\ Funds(table, supply) /\ Filled(table) /\ Bidding(table, bad)
      /\ Playing(table, bad, passers) /\ Counted(table, deck, played) /\ Paid(table)
  BY InvParts
<1>2. /\ HandActive(table) /\ ~table.expired /\ table' = [table EXCEPT !.expired = TRUE]
      /\ supply' = supply /\ bad' = bad /\ deck' = deck /\ played' = played
      /\ passers' = passers
  BY DEF DeadlinePasses, NothingPlayed
<1>3. table' \in TableState
  BY <1>1, <1>2, Zenon DEF TableState
<1>4. table'.expired = TRUE /\ SameHand(table, table') /\ table'.turnID = table.turnID
      /\ table'.acting = table.acting
  BY <1>1, <1>2, Zenon DEF TableState, SameHand
<1>5. /\ Funds(table', supply') /\ Filled(table') /\ Bidding(table', bad')
  BY <1>1, <1>2, <1>4 DEF SameHand, Funds, Filled, HandActive, Bidding
<1>6. Playing(table', bad', passers')
  BY <1>1, <1>2, <1>4 DEF SameHand, Playing
<1>7. Counted(table', deck', played') /\ Paid(table')
  BY <1>1, <1>2, <1>4 DEF SameHand, Counted, HandActive, Paid
<1>8. LInv'
  BY <1>1, <1>2, <1>3, <1>5, <1>6, <1>7 DEF LInv, Sound
<1>9. RunsOut
  BY <1>2, <1>4 DEF RunsOut, SameHand
<1>. QED
  BY <1>8, <1>9 DEF Does

\* A bid of the seat to act.
LEMMA BidKeeps ==
  ASSUME LInv, NEW s \in Seats, NEW n \in 0..3, s = table.acting, BidBy(s, n), supply' = supply
  PROVE  LInv' /\ Does
<1>. DEFINE t == BidMade(table, s, n)
<1>1. /\ table \in TableState /\ supply \in Int /\ bad \in Nat
      /\ Funds(table, supply) /\ Filled(table)
      /\ Sound(table, supply, bad, deck, played, passers)
  BY InvParts DEF LInv
<1>2. table.phase = "bidding" /\ (n = 0 \/ n > table.highestBid) /\ HandActive(table)
  BY DEF BidBy, HandActive
<1>3. /\ Playable(table) = Seats /\ NextSeat(table, s) = On(s, 1) /\ On(s, 1) \in Seats
  BY <1>1, <1>2, AllPlay, OnRing
<1>4. /\ t \in TableState
      /\ t.user = table.user /\ t.stack = table.stack
      /\ t.phase = table.phase /\ t.turnID = table.turnID /\ t.expired = table.expired
      /\ t.trickOpen = table.trickOpen
  BY <1>1, BidMadeFacts, ZenonT(60)
<1>5. CASE (n = 3 \/ LastBid(t)) /\ t.highestBidder = NoSeat
  <2>1. \/ \E d \in Deals : table' = Dealt(t, d) /\ Noted(d) /\ UNCHANGED bad
        \/ BadShuffle /\ table' = t
    BY <1>5 DEF BidBy
  <2>2. CASE BadShuffle /\ table' = t
    <3>1. /\ bad' = bad + 1 /\ deck' = deck /\ played' = played /\ passers' = passers
      BY <2>2 DEF BadShuffle, NothingPlayed
    <3>2. Sound(t, supply, bad + 1, deck, played, passers)
      BY <1>1, <1>2, <1>5, BidStays
    <3>3. LInv'
      BY <2>2, <3>1, <3>2 DEF LInv
    <3>. HIDE DEF t
    <3>4. Waits
      BY <1>4, <2>2 DEF Waits
    <3>. QED
      BY <3>3, <3>4 DEF Does
  <2>3. CASE \E d \in Deals : table' = Dealt(t, d) /\ Noted(d) /\ UNCHANGED bad
    <3>1. PICK d \in Deals : table' = Dealt(t, d) /\ Noted(d) /\ UNCHANGED bad
      BY <2>3
    <3>2. deck' = Whole(d) /\ played' = NoCards /\ passers' = {} /\ bad' = bad
      BY <3>1 DEF Noted, Whole
    <3>. HIDE DEF t
    <3>3. Playable(t) = Seats /\ Funds(t, supply)
      BY <1>1, <1>3, <1>4, FundsFrom DEF Playable, Occupied
    <3>4. Sound(Dealt(t, d), supply, bad, Whole(d), NoCards, {})
      BY <1>1, <1>4, <3>3, DealSound
    <3>5. LInv'
      BY <3>1, <3>2, <3>4 DEF LInv
    <3>6. /\ table'.user = t.user /\ table'.stack = t.stack /\ table'.phase = "bidding"
          /\ table'.turnID = t.turnID + 1 /\ table'.expired = FALSE
      BY <1>4, <3>1, <3>3, DealtFacts
    <3>7. MovesOn
      BY <1>2, <1>4, <3>6 DEF MovesOn, HandActive
    <3>. QED
      BY <3>5, <3>7 DEF Does
  <2>. QED
    BY <2>1, <2>2, <2>3
<1>6. CASE (n = 3 \/ LastBid(t)) /\ t.highestBidder # NoSeat
  <2>1. /\ table' = Crowned(t) /\ bad' = bad /\ deck' = deck /\ played' = played
        /\ passers' = passers
    BY <1>6 DEF BidBy, NothingPlayed
  <2>2. Sound(Crowned(t), supply, bad, deck, played, passers)
    BY <1>1, <1>2, <1>6, CrownSound
  <2>3. LInv'
    BY <2>1, <2>2 DEF LInv
  <2>. HIDE DEF t
  <2>4. t.highestBidder \in Seats
    BY <1>4, <1>6 DEF TableState
  <2>5. /\ table'.user = t.user /\ table'.stack = t.stack /\ table'.phase = "playing"
        /\ table'.turnID = t.turnID + 1 /\ table'.expired = FALSE
    BY <1>4, <2>1, <2>4, CrownedFacts
  <2>6. MovesOn
    BY <1>2, <1>4, <2>5 DEF MovesOn, HandActive
  <2>. QED
    BY <2>3, <2>6 DEF Does
<1>7. CASE ~(n = 3 \/ LastBid(t))
  <2>1. /\ table' = SetActing(t, NextSeat(t, s)) /\ bad' = bad /\ deck' = deck
        /\ played' = played /\ passers' = passers
    BY <1>7 DEF BidBy, NothingPlayed
  <2>2. Sound(SetActing(t, NextSeat(t, s)), supply, bad, deck, played, passers)
    BY <1>1, <1>2, <1>7, BidGoesOn
  <2>3. LInv'
    BY <2>1, <2>2 DEF LInv
  <2>. HIDE DEF t
  <2>4. NextSeat(t, s) = On(s, 1)
    BY <1>3, <1>4 DEF NextSeat, Playable, Occupied
  <2>5. table' = SetActing(t, On(s, 1)) /\ On(s, 1) \in Seats \cup {NoSeat}
    BY <1>3, <2>1, <2>4
  <2>6. SameHand(t, table') /\ table'.turnID = t.turnID + 1 /\ table'.expired = FALSE
    BY <1>4, <2>5, SetActingFacts
  <2>7. MovesOn
    BY <1>2, <1>4, <2>6 DEF MovesOn, HandActive, SameHand
  <2>. QED
    BY <2>3, <2>7 DEF Does
<1>. QED
  BY <1>5, <1>6, <1>7

\* A play of the seat to act.
LEMMA PlayKeeps ==
  ASSUME LInv, NEW s \in Seats, NEW c \in Hands, s = table.acting, PlayBy(s, c), supply' = supply
  PROVE  LInv' /\ Does
<1>. DEFINE t == Plays(table, s, c)
<1>1. /\ table \in TableState /\ bad \in Nat /\ Filled(table)
      /\ Playing(table, bad, passers)
      /\ Sound(table, supply, bad, deck, played, passers)
  BY InvParts DEF LInv
<1>2. /\ table.phase = "playing" /\ HandActive(table) /\ Holds(table.hand[s], c)
      /\ played' = Plus(played, c) /\ passers' = {} /\ deck' = deck /\ bad' = bad
  BY DEF PlayBy, PlayAccepted, HandActive
<1>3. NextSeat(table, s) = On(s, 1) /\ On(s, 1) \in Seats /\ table.landlord \in Seats
  BY <1>1, <1>2, AllPlay, OnRing DEF Playing
<1>4. /\ t \in TableState
      /\ t.user = table.user /\ t.stack = table.stack /\ t.landlord = table.landlord
      /\ t.phase = table.phase /\ t.turnID = table.turnID
      /\ t.trickOpen = TRUE
  BY <1>1, <1>2, PlaysFacts, ZenonT(60)
<1>5. CASE t.hand[s] = NoCards
  <2>1. table' = Finished(t, s)
    BY <1>5 DEF PlayBy
  <2>2. Sound(Finished(t, s), supply, bad, deck, Plus(played, c), {})
    BY <1>1, <1>2, PlayEnds
  <2>3. LInv'
    BY <1>2, <2>1, <2>2 DEF LInv
  <2>. HIDE DEF t
  <2>4. t.landlord \in Seats
    BY <1>3, <1>4
  <2>5. /\ SeatSum(table'.stack) = SeatSum(t.stack) /\ table'.user = t.user
        /\ table'.phase = "complete" /\ table'.turnID = t.turnID /\ table'.expired = FALSE
    BY <1>4, <2>1, <2>4, FinishedFacts
  <2>6. EndsHand
    BY <1>2, <1>4, <2>5 DEF EndsHand, HandActive
  <2>. QED
    BY <2>3, <2>6 DEF Does
<1>6. CASE t.hand[s] # NoCards
  <2>1. table' = SetActing(t, NextSeat(t, s))
    BY <1>6 DEF PlayBy
  <2>2. NextSeat(t, s) = NextSeat(table, s)
    <3>. HIDE DEF t
    <3>. QED
      BY <1>4 DEF NextSeat, Playable, Occupied
  <2>3. Sound(SetActing(t, NextSeat(table, s)), supply, bad, deck, Plus(played, c), {})
    BY <1>1, <1>2, PlayGoesOn
  <2>. HIDE DEF t
  <2>4. LInv'
    BY <1>2, <2>1, <2>2, <2>3 DEF LInv
  <2>5. table' = SetActing(t, On(s, 1)) /\ On(s, 1) \in Seats \cup {NoSeat}
    BY <1>3, <2>1, <2>2
  <2>6. SameHand(t, table') /\ table'.turnID = t.turnID + 1 /\ table'.expired = FALSE
    BY <1>4, <2>5, SetActingFacts
  <2>7. MovesOn
    BY <1>2, <1>4, <2>6 DEF MovesOn, HandActive, SameHand
  <2>. QED
    BY <2>4, <2>7 DEF Does
<1>. QED
  BY <1>5, <1>6

\* A pass of the seat to act.
LEMMA PassKeeps ==
  ASSUME LInv, NEW s \in Seats, s = table.acting, PassBy(s), supply' = supply
  PROVE  LInv' /\ Does
<1>1. /\ table.phase = "playing" /\ HandActive(table) /\ ~Leads(table, s)
      /\ table' = Passed(table, s)
      /\ passers' = passers \cup {s} /\ deck' = deck /\ played' = played /\ bad' = bad
  BY DEF PassBy, HandActive, Passed
<1>2. /\ Sound(table', supply, bad, deck, played, passers \cup {s})
      /\ table'.turnID = table.turnID + 1 /\ table'.expired = FALSE
      /\ table'.user = table.user /\ table'.stack = table.stack /\ table'.phase = table.phase
      /\ ~table'.trickOpen => /\ table'.acting = table.lastSeat
                              /\ passers \cup {s} = Seats \ {table.lastSeat}
  <2>1. Sound(table, supply, bad, deck, played, passers) /\ ~Leads(table, table.acting)
    BY <1>1 DEF LInv
  <2>2. table' = Passed(table, table.acting) /\ passers \cup {s} = passers \cup {table.acting}
    BY <1>1
  <2>. DEFINE v == Passed(table, table.acting)
              q == passers \cup {table.acting}
  <2>3. /\ Sound(v, supply, bad, deck, played, q)
        /\ v.turnID = table.turnID + 1 /\ v.expired = FALSE
        /\ v.user = table.user /\ v.stack = table.stack /\ v.phase = table.phase
        /\ ~v.trickOpen => v.acting = table.lastSeat /\ q = Seats \ {table.lastSeat}
    BY <1>1, <2>1, PassSound
  <2>4. table' = v /\ passers \cup {s} = q
    BY <2>2
  <2>. HIDE DEF v, q
  <2>. QED
    BY <2>3, <2>4
<1>3. LInv'
  BY <1>1, <1>2 DEF LInv
<1>4. MovesOn
  BY <1>1, <1>2 DEF MovesOn, HandActive
<1>. QED
  BY <1>3, <1>4 DEF Does

\* Every step keeps the invariant and does one of the things the service knows.
LEMMA NextKeeps ==
  ASSUME LInv, Next
  PROVE  LInv' /\ Does
<1>1. HandActive(table) => table.acting \in Seats
  BY InvParts DEF Filled
<1>2. \A s \in Seats : table.hand[s] \in Hands
  BY InvParts DEF TableState
<1>3. CASE \E u \in Users, b \in BuyIns : Join(u, b)
  BY <1>3, JoinKeeps
<1>4. CASE \E u \in Users : Leave(u) \/ Ready(u) \/ ReadyAndDeal(u)
  BY <1>4, LeaveKeeps, ReadyKeeps, ReadyAndDealKeeps
<1>5. CASE \E s \in Seats, n \in 0..3 : Bid(s, n)
  <2>1. PICK s \in Seats, n \in 0..3 : Bid(s, n)
    BY <1>5
  <2>2. s = table.acting /\ BidBy(s, n) /\ supply' = supply
    BY <2>1 DEF Bid, MayAct
  <2>. QED
    BY <2>2, BidKeeps
<1>6. CASE \E s \in Seats : \E c \in Picks(table.hand[s]) : Play(s, c)
  <2>1. PICK s \in Seats : \E c \in Picks(table.hand[s]) : Play(s, c)
    BY <1>6
  <2>2. PICK c \in Picks(table.hand[s]) : Play(s, c)
    BY <2>1
  <2>3. c \in Hands
    BY <1>2, <2>2, PicksAreCards
  <2>4. s = table.acting /\ PlayBy(s, c) /\ supply' = supply
    BY <2>2 DEF Play, MayAct
  <2>. QED
    BY <2>3, <2>4, PlayKeeps
<1>7. CASE \E s \in Seats : Pass(s)
  <2>1. PICK s \in Seats : Pass(s)
    BY <1>7
  <2>2. s = table.acting /\ PassBy(s) /\ supply' = supply
    BY <2>1 DEF Pass, MayAct
  <2>. QED
    BY <2>2, PassKeeps
<1>8. CASE DeadlinePasses
  BY <1>8, DeadlineKeeps
<1>9. CASE Timeout(table.turnID)
  <2>1. PICK s \in Seats : s = table.acting
    BY <1>1, <1>9 DEF Timeout
  <2>2. supply' = supply
    BY <1>9 DEF Timeout
  <2>3. CASE BidBy(s, 0)
    <3>1. 0 \in 0..3
      OBVIOUS
    <3>. QED
      BY <2>1, <2>2, <2>3, <3>1, BidKeeps
  <2>4. CASE PlayBy(s, Lowest(table.hand[s]))
    <3>1. PICK c \in Hands : c = Lowest(table.hand[s])
      BY LowestIsCards
    <3>2. PlayBy(s, c)
      BY <2>4, <3>1
    <3>. QED
      BY <2>1, <2>2, <3>2, PlayKeeps
  <2>5. CASE PassBy(s)
    BY <2>1, <2>2, <2>5, PassKeeps
  <2>. QED
    BY <1>9, <2>1, <2>3, <2>4, <2>5 DEF Timeout
<1>. QED
  BY <1>3, <1>4, <1>5, <1>6, <1>7, <1>8, <1>9 DEF Next

\* The new table.
LEMMA InitLInv == Init => LInv
<1>. SUFFICES ASSUME Init PROVE LInv
  OBVIOUS
<1>1. /\ table = NewTable /\ supply = 0 /\ bad = 0 /\ deck = NoCards /\ played = NoCards
      /\ passers = {}
  BY DEF Init
<1>2. NoCards \in Hands /\ 0 \in 0..3
  BY DEF NoCards, Hands
<1>3. NewTable \in TableState
  <2>1. /\ Everyone(NoUser) \in [Seats -> Users \cup {NoUser}]
        /\ Everyone(0) \in [Seats -> Nat] /\ Everyone(0) \in [Seats -> 0..3]
        /\ Everyone(NoCards) \in [Seats -> Hands] /\ Everyone(FALSE) \in [Seats -> BOOLEAN]
    BY <1>2 DEF Everyone
  <2>2. NoResult \in [winner : Seats \cup {NoSeat}, stake : Nat, payout : [Seats -> Int]]
    BY DEF NoResult
  <2>. DEFINE u == Everyone(NoUser) z == Everyone(0) h == Everyone(NoCards) f == Everyone(FALSE)
              n == NoResult
  <2>3. /\ u \in [Seats -> Users \cup {NoUser}]
        /\ z \in [Seats -> Nat] /\ z \in [Seats -> 0..3]
        /\ h \in [Seats -> Hands] /\ f \in [Seats -> BOOLEAN]
        /\ n \in [winner : Seats \cup {NoSeat}, stake : Nat, payout : [Seats -> Int]]
        /\ 0 \in Nat /\ 1 \in Nat
    BY <2>1, <2>2
  <2>4. NewTable =
  [user |-> u, stack |-> z, hand |-> h,
   ready |-> f, bid |-> z, plays |-> z,
   phase |-> "waiting", dealer |-> NoSeat, acting |-> NoSeat, bottom |-> NoCards,
   highestBid |-> 0, highestBidder |-> NoSeat, bidCount |-> 0, landlord |-> NoSeat,
   last |-> NoCombination, lastSeat |-> NoSeat, trickOpen |-> FALSE, passCount |-> 0,
   multiplier |-> 1, handID |-> 0, turnID |-> 0, expired |-> FALSE, result |-> n]
    BY DEF NewTable
  <2>. HIDE DEF u, z, h, f, n
  <2>. QED
    BY <1>2, <2>3, <2>4, Zenon DEF TableState
<1>4. ~HandActive(NewTable) /\ Funds(NewTable, 0) /\ Paid(NewTable)
  <2>1. NewTable.stack = [s \in Seats |-> 0] /\ NewTable.phase = "waiting"
    BY DEF NewTable, Everyone
  <2>2. SeatSum([s \in Seats |-> 0]) = 0
    BY SumOfThree, ThreeSeats
  <2>. QED
    BY <2>1, <2>2 DEF HandActive, Funds, Paid
<1>5. Sound(NewTable, 0, 0, NoCards, NoCards, {})
  BY <1>2, <1>3, <1>4, IdleSound
<1>. QED
  BY <1>1, <1>5 DEF LInv

\* The invariant holds in every reachable state of the table.
THEOREM LandlordInvariant == Spec => []LInv
<1>1. LInv /\ [Next]_vars => LInv'
  <2>. SUFFICES ASSUME LInv, [Next]_vars PROVE LInv'
    OBVIOUS
  <2>1. CASE Next
    BY <2>1, NextKeeps
  <2>2. CASE UNCHANGED vars
    BY <2>2 DEF vars, LInv
  <2>. QED
    BY <2>1, <2>2
<1>. QED
  BY <1>1, InitLInv, PTL DEF Spec

\* finishLocked: the stacks always hold what was brought to the table; a hand pays
\* zero in sum, nobody more than he had, no farmer more than the stake, and farmers who
\* beat a landlord that cannot pay both share what he has to the chip.
THEOREM ChipsAreConserved == Spec => []ChipsConserved
<1>1. LInv => ChipsConserved
  <2>. SUFFICES ASSUME LInv PROVE ChipsConserved
    OBVIOUS
  <2>1. table.stack \in [Seats -> Nat] /\ SeatSum(table.stack) = supply /\ Paid(table)
    BY InvParts DEF TableState, Funds
  <2>2. \A s \in Seats : table.stack[s] >= 0
    BY <2>1
  <2>. QED
    BY <2>1, <2>2 DEF ChipsConserved, Paid
<1>. QED
  BY <1>1, LandlordInvariant, PTL

\* bidLocked: every seat is asked once in its turn, in any number of new deals, until
\* three is bid or all were asked, and the landlord is the one who bid most.
THEOREM BiddingGoesRound == Spec => []BidsGoRound
<1>1. LInv => BidsGoRound
  <2>. SUFFICES ASSUME LInv PROVE BidsGoRound
    OBVIOUS
  <2>1. Bidding(table, bad) /\ Playing(table, bad, passers) /\ table.bidCount \in Nat
    BY InvParts DEF TableState
  <2>2. table.phase = "bidding" /\ bad = 0 =>
          table.bidCount < MaxSeats /\ table.acting = (table.dealer + table.bidCount) % MaxSeats
    BY <2>1, ThreeSeats DEF Bidding, On
  <2>. QED
    BY <2>1, <2>2 DEF BidsGoRound, Playing
<1>. QED
  BY <1>1, LandlordInvariant, PTL

\* Snapshot: the card counter of a player shows, for every deal and every order of
\* plays, the cards that are neither in his hand nor played: none is lost or counted twice.
THEOREM CounterIsExact == Spec => []CounterExact
<1>1. LInv => CounterExact
  <2>. SUFFICES ASSUME LInv, HandActive(table), NEW v \in Seats
       PROVE RemainingCounts(table, v) = Minus(Minus(deck, table.hand[v]), played)
    BY DEF CounterExact
  <2>1. /\ table \in TableState /\ Filled(table) /\ Counted(table, deck, played)
        /\ deck \in Hands /\ played \in Hands
    BY InvParts
  <2>2. Occupied(table) = Seats
    BY <2>1 DEF Filled, Occupied
  <2>3. table.hand \in [Seats -> Hands] /\ table.bottom \in Hands
    BY <2>1 DEF TableState
  <2>4. PICK a \in Seats, b \in Seats : a # b /\ a # v /\ b # v /\ Seats \ {v} = {a, b}
    BY OnRing
  <2>5. ASSUME NEW r \in Ranks
        PROVE  SumOf([s \in Seats |-> table.hand[s][r]], Occupied(table) \ {v})
                 + (IF table.landlord = NoSeat THEN table.bottom[r] ELSE 0)
               = deck[r] - table.hand[v][r] - played[r]
    <3>2. Occupied(table) \ {v} = {a, b}
      BY <2>2, <2>4
    <3>. DEFINE rest == IF table.landlord = NoSeat THEN table.bottom[r] ELSE 0
                f == [s \in Seats |-> table.hand[s][r]]
    <3>3. f \in [Seats -> Int] /\ rest \in Nat /\ deck[r] \in Nat /\ played[r] \in Nat
      BY <2>1, <2>3 DEF Hands
    <3>4. deck[r] = f[0] + f[1] + f[2] + rest + played[r]
      BY <2>1, ThreeSeats DEF Counted
    <3>5. SeatSum(f) = f[a] + f[b] + f[v]
      <4>. HIDE DEF f
      <4>. QED
        BY <2>4, <3>3, SumAround
    <3>6. SeatSum(f) = f[0] + f[1] + f[2] + 0 + 0 + 0 + 0 + 0
      BY SumOfThree
    <3>7. f[a] = table.hand[a][r] /\ f[b] = table.hand[b][r] /\ f[v] = table.hand[v][r]
      OBVIOUS
    <3>8. f[0] \in Int /\ f[1] \in Int /\ f[2] \in Int /\ f[a] \in Int /\ f[b] \in Int
          /\ f[v] \in Int
      BY <3>3, ThreeSeats
    <3>. HIDE DEF f
    <3>9. f[a] + f[b] + rest = deck[r] - f[v] - played[r]
      <4>. HIDE DEF rest
      <4>. QED
        BY <3>3, <3>4, <3>5, <3>6, <3>8
    <3>10. SumOf(f, Occupied(table) \ {v}) = f[a] + f[b]
      BY <2>4, <3>2, <3>8, CountOfTwo
    <3>11. SumOf(f, Occupied(table) \ {v}) + rest = deck[r] - table.hand[v][r] - played[r]
      BY <3>7, <3>9, <3>10
    <3>. QED
      BY <3>11 DEF f
  <2>. QED
    BY <2>5 DEF RemainingCounts, Minus
<1>. QED
  BY <1>1, LandlordInvariant, PTL

\* passLocked: a round closes only after both other players passed on the last play,
\* and the one who made it leads the next.
THEOREM TwoPassesCloseARound == Spec => RoundsCloseAfterTwoPasses
<1>1. LInv /\ [Next]_vars =>
        ((table.trickOpen /\ table.phase = "playing" /\ table'.phase = "playing" /\ ~table'.trickOpen)
          => /\ table'.acting = table.lastSeat
             /\ passers' = Seats \ {table.lastSeat}) \/ UNCHANGED vars
  <2>. SUFFICES ASSUME LInv, Next, table.trickOpen, table.phase = "playing",
                       table'.phase = "playing", ~table'.trickOpen
                PROVE  table'.acting = table.lastSeat /\ passers' = Seats \ {table.lastSeat}
    OBVIOUS
  <2>1. Does
    BY NextKeeps
  <2>2. HandActive(table) /\ HandActive(table')
    BY DEF HandActive
  <2>. QED
    BY <2>1, <2>2 DEF Does, SitsDown, StandsUp, Waits, StartsHand, MovesOn, EndsHand, RunsOut
<1>. QED
  BY <1>1, LandlordInvariant, PTL DEF Spec, RoundsCloseAfterTwoPasses

-----------------------------------------------------------------------------
(* The card game *)

\* The seats of the card game are the seats of the table.
LEMMA GameSeats ==
  /\ Game!Seats = Seats
  /\ \A f : Game!SeatSum(f) = SeatSum(f)
BY DEF Game!Seats, Seats, Game!SeatSum, SeatSum

\* The new table is a new card game.
LEMMA InitGame == Init => Game!GameInit
<1>. SUFFICES ASSUME Init PROVE Game!GameInit
  OBVIOUS
<1>1. table = NewTable
  BY DEF Init
<1>2. /\ NewTable.user = [s \in Seats |-> NoUser] /\ NewTable.stack = [s \in Seats |-> 0]
      /\ NewTable.phase = "waiting" /\ NewTable.turnID = 0 /\ NewTable.expired = FALSE
  BY DEF NewTable, Everyone
<1>. QED
  BY <1>1, <1>2, GameSeats DEF Game!GameInit, HandActive

\* Each thing an operation does is a step of the card game, or none.
LEMMA DoesGame ==
  ASSUME LInv, LInv', Does
  PROVE  Game!GameNext \/ UNCHANGED Game!gameVars
<1>1. Seats # {} /\ 0 \in Seats /\ 1 \in Seats
  BY ThreeSeats
<1>2. table.turnID \in Nat /\ \A s \in Seats : table'.stack[s] >= 0
  <2>1. table \in TableState /\ table' \in TableState
    BY DEF LInv, Sound
  <2>. QED
    BY <2>1 DEF TableState
<1>3. ASSUME NEW s \in Seats, NEW u \in Users, SitsDown(s, u)
      PROVE  Game!SitDown(s, u)
  BY <1>3, GameSeats DEF SitsDown, Game!SitDown
<1>4. ASSUME NEW s \in Seats, StandsUp(s)
      PROVE  Game!StandUp(s)
  BY <1>4, GameSeats DEF StandsUp, Game!StandUp
<1>5. CASE Waits
  BY <1>5 DEF Waits, Game!gameVars, HandActive
<1>6. CASE StartsHand
  <2>1. \A s \in Seats : table.stack[s] > 0
    BY <1>6 DEF StartsHand, Playable
  <2>2. table'.turnID > table.turnID
    BY <1>2, <1>6 DEF StartsHand
  <2>3. Game!Deal
    BY <1>1, <1>6, <2>1, <2>2 DEF StartsHand, Game!Deal, Game!DealTo
  <2>. QED
    BY <2>3 DEF Game!GameNext
<1>7. CASE MovesOn
  <2>1. table'.turnID > table.turnID
    BY <1>2, <1>7 DEF MovesOn
  <2>2. Game!Move
    BY <1>1, <1>7, <2>1 DEF MovesOn, Game!Move
  <2>. QED
    BY <2>2 DEF Game!GameNext
<1>8. CASE EndsHand
  <2>1. table'.turnID >= table.turnID
    BY <1>2, <1>8 DEF EndsHand
  <2>2. SeatSum(table'.stack) <= SeatSum(table.stack)
    <3>1. SeatSum(table.stack) \in Int
      <4>1. table.stack \in [Seats -> Int]
        BY InvParts DEF TableState
      <4>. QED
        BY <4>1, SumsOfThree
    <3>. QED
      BY <1>8, <3>1 DEF EndsHand
  <2>3. Game!Finish
    BY <1>1, <1>2, <1>8, <2>1, <2>2, GameSeats DEF EndsHand, Game!Finish, Game!Settle
  <2>. QED
    BY <2>3 DEF Game!GameNext
<1>9. CASE RunsOut
  BY <1>1, <1>9 DEF RunsOut, Game!GameNext, Game!Expire, HandActive
<1>. QED
  BY <1>3, <1>4, <1>5, <1>6, <1>7, <1>8, <1>9, GameSeats DEF Does, Game!GameNext

\* The landlord table is the card game that the service relies on: nobody sits down or
\* leaves during a hand, chips move only as it ends, every decision has a later turn.
THEOREM LandlordImplementsCardGame == Spec => ImplementsCardGame
<1>1. LInv /\ LInv' /\ [Next]_vars => [Game!GameNext]_(Game!gameVars)
  <2>. SUFFICES ASSUME LInv, LInv', [Next]_vars
                PROVE  Game!GameNext \/ UNCHANGED Game!gameVars
    OBVIOUS
  <2>1. CASE Next
    BY <2>1, NextKeeps, DoesGame
  <2>2. CASE UNCHANGED vars
    BY <2>2 DEF vars, Game!gameVars
  <2>. QED
    BY <2>1, <2>2
<1>. QED
  BY <1>1, InitGame, LandlordInvariant, PTL DEF Spec, ImplementsCardGame, Game!GameSpec

-----------------------------------------------------------------------------
(* Combinations: sizes of sets of cards, then both directions *)

\* What Classify takes for a combination.
Recognised(c) ==
  LET n     == Size(c)
      R     == RanksIn(c)
      wing  == PlaneWing(n)
      chain == n \div (3 + wing)
  IN  \/ n = 2 /\ R = {SmallJoker, BigJoker}
      \/ n \in 1..4 /\ AllCount(c, R, n)
      \/ n \in {4, 5} /\ With(c, 3) # {} /\ (n = 5 => With(c, 2) # {})
      \/ n >= 5 /\ AllCount(c, R, 1) /\ Chainable(c)
      \/ n >= 6 /\ AllCount(c, R, 2) /\ Chainable(c)
      \/ wing # -1 /\ chain >= 2 /\ PlaneStarts(c, wing, chain) # {}
      \/ n = 6 /\ With(c, 4) # {}
      \/ n = 8 /\ \E f \in With(c, 4) : Cardinality(R \ {f}) = 2 /\ AllCount(c, R \ {f}, 2)

\* Classify is a combination for these cards and no others.
LEMMA ClassifyRecognises ==
  ASSUME NEW c, Size(c) \in Nat, Size(c) = 1 => AllCount(c, RanksIn(c), 1)
  PROVE  Classify(c) # NoCombination <=> Recognised(c)
<1>. DEFINE n     == Size(c)
            R     == RanksIn(c)
            wing  == PlaneWing(n)
            chain == n \div (3 + wing)
            is(kind, main, links) == [kind |-> kind, main |-> main, length |-> n, chain |-> links]
            g0  == n = 0
            g1  == n = 2 /\ R = {SmallJoker, BigJoker}
            g2  == n = 4 /\ AllCount(c, R, 4)
            g3  == n = 1
            g4  == n = 2 /\ AllCount(c, R, 2)
            g5  == n = 3 /\ AllCount(c, R, 3)
            g6  == n = 4 /\ With(c, 3) # {}
            g7  == n = 5 /\ With(c, 3) # {} /\ With(c, 2) # {}
            g8  == n >= 5 /\ AllCount(c, R, 1) /\ Chainable(c)
            g9  == n >= 6 /\ AllCount(c, R, 2) /\ Chainable(c)
            g10 == wing # -1 /\ chain >= 2 /\ PlaneStarts(c, wing, chain) # {}
            g11 == n = 6 /\ With(c, 4) # {}
            g12 == n = 8 /\ \E f \in With(c, 4) : Cardinality(R \ {f}) = 2 /\ AllCount(c, R \ {f}, 2)
            v1  == is("rocket", BigJoker, 0)
            v2  == is("bomb", Max(R), 0)
            v3  == is("single", Max(R), 0)
            v4  == is("pair", Max(R), 0)
            v5  == is("triple", Max(R), 0)
            v6  == is("triple_single", Max(With(c, 3)), 0)
            v7  == is("triple_pair", Max(With(c, 3)), 0)
            v8  == is("straight", Max(R), n)
            v9  == is("consecutive_pairs", Max(R), n \div 2)
            v10 == is(PlaneKind(wing), Min(PlaneStarts(c, wing, chain)) + chain - 1, chain)
            v11 == is("four_singles", Max(With(c, 4)), 0)
            v12 == is("four_pairs", Max(With(c, 4)), 0)
<1>1. Classify(c) =
        CASE g0 -> NoCombination [] g1 -> v1 [] g2 -> v2 [] g3 -> v3 [] g4 -> v4
          [] g5 -> v5 [] g6 -> v6 [] g7 -> v7 [] g8 -> v8 [] g9 -> v9 [] g10 -> v10
          [] g11 -> v11 [] g12 -> v12 [] OTHER -> NoCombination
  BY DEF Classify
<1>2. \A main, links : \A kind \in Kinds : is(kind, main, links) # NoCombination
  BY DEF NoCombination, Kinds
<1>3. g10 => PlaneKind(wing) \in Kinds
  BY DEF PlaneWing, PlaneKind, Kinds
<1>4. /\ v1 # NoCombination /\ v2 # NoCombination /\ v3 # NoCombination /\ v4 # NoCombination
      /\ v5 # NoCombination /\ v6 # NoCombination /\ v7 # NoCombination /\ v8 # NoCombination
      /\ v9 # NoCombination /\ v11 # NoCombination /\ v12 # NoCombination
  <2>. HIDE DEF n, R, wing, chain, is
  <2>. QED
    BY <1>2 DEF Kinds
<1>5. g10 => v10 # NoCombination
  <2>. HIDE DEF n, R, wing, chain, is, g10
  <2>. QED
    BY <1>2, <1>3
<1>6. /\ (g1 \/ g2 \/ g3 \/ g4 \/ g5 \/ g6 \/ g7 \/ g8 \/ g9 \/ g10 \/ g11 \/ g12) => ~g0
      /\ Recognised(c) <=> (g1 \/ g2 \/ g3 \/ g4 \/ g5 \/ g6 \/ g7 \/ g8 \/ g9 \/ g10 \/ g11 \/ g12)
  <2>1. g10 => ~g0
    BY DEF PlaneWing
  <2>2. Recognised(c) <=> g1 \/ (n \in 1..4 /\ AllCount(c, R, n)) \/ (n \in {4, 5} /\ With(c, 3) # {} /\ (n = 5 => With(c, 2) # {}))
                          \/ g8 \/ g9 \/ g10 \/ g11 \/ g12
    BY DEF Recognised
  <2>3. (n \in 1..4 /\ AllCount(c, R, n)) <=> g2 \/ g3 \/ g4 \/ g5
    <3>1. n \in 1..4 <=> n = 1 \/ n = 2 \/ n = 3 \/ n = 4
      OBVIOUS
    <3>. HIDE DEF n, R
    <3>2. n = 1 => AllCount(c, R, 1)
      BY DEF n, R
    <3>. QED
      BY <3>1, <3>2
  <2>4. (n \in {4, 5} /\ With(c, 3) # {} /\ (n = 5 => With(c, 2) # {})) <=> g6 \/ g7
    OBVIOUS
  <2>5. g1 \/ g2 \/ g3 \/ g4 \/ g5 \/ g6 \/ g7 \/ g8 \/ g9 \/ g11 \/ g12 => ~g0
    OBVIOUS
  <2>. HIDE DEF g0, g1, g2, g3, g4, g5, g6, g7, g8, g9, g10, g11, g12
  <2>. QED
    BY <2>1, <2>2, <2>3, <2>4, <2>5
<1>. HIDE DEF g0, g1, g2, g3, g4, g5, g6, g7, g8, g9, g10, g11, g12,
              v1, v2, v3, v4, v5, v6, v7, v8, v9, v10, v11, v12
<1>7. Classify(c) # NoCombination
        => (g1 \/ g2 \/ g3 \/ g4 \/ g5 \/ g6 \/ g7 \/ g8 \/ g9 \/ g10 \/ g11 \/ g12)
  BY <1>1
<1>8. ~g0 /\ (g1 \/ g2 \/ g3 \/ g4 \/ g5 \/ g6 \/ g7 \/ g8 \/ g9 \/ g10 \/ g11 \/ g12)
        => Classify(c) # NoCombination
  BY <1>1, <1>4, <1>5
<1>. QED
  BY <1>6, <1>7, <1>8

\* Ranks are few.
LEMMA RankSets ==
  ASSUME NEW S \in SUBSET Ranks
  PROVE  IsFiniteSet(S) /\ Cardinality(S) \in Nat /\ S \subseteq 3..17
<1>1. Ranks \subseteq 3..17
  BY CardsAssumption DEF BigJoker
<1>2. IsFiniteSet(3..17)
  <2>1. 3 \in Int /\ 17 \in Int
    OBVIOUS
  <2>. QED
    BY <2>1, FS_Interval
<1>3. IsFiniteSet(S)
  BY <1>1, <1>2, FS_Subset
<1>. QED
  BY <1>1, <1>3, FS_CardinalityType

\* Some ranks have a lowest and a highest.
LEMMA RankEnds ==
  ASSUME NEW S \in SUBSET Ranks, S # {}
  PROVE  /\ Min(S) \in S /\ \A y \in S : Min(S) <= y
         /\ Max(S) \in S /\ \A y \in S : y <= Max(S)
<1>1. S \subseteq 3..17 /\ S \subseteq Nat
  BY RankSets
<1>2. \E x \in S : \A y \in S : x <= y
  BY <1>1, NatHasLeast
<1>3. \E x \in S : \A y \in S : x >= y
  <2>. DEFINE D == {17 - y : y \in S}
  <2>1. D \subseteq Nat /\ D # {}
    <3>1. \A y \in S : y \in 3..17 /\ 17 - y \in Nat
      BY <1>1
    <3>. QED
      BY <3>1
  <2>. HIDE DEF D
  <2>2. PICK d \in D : \A e \in D : d <= e
    BY <2>1, NatHasLeast
  <2>3. PICK x \in S : d = 17 - x
    BY <2>2 DEF D
  <2>4. ASSUME NEW y \in S PROVE x >= y
    <3>1. 17 - y \in D
      BY DEF D
    <3>2. 17 - x <= 17 - y
      BY <2>2, <2>3, <3>1
    <3>. QED
      BY <1>1, <3>2
  <2>. QED
    BY <2>4
<1>. QED
  BY <1>1, <1>2, <1>3 DEF Min, Max

\* A set of cards has at least those of each rank.
LEMMA SizeBounds ==
  ASSUME NEW c \in Hands
  PROVE  Size(c) \in Nat /\ \A r \in Ranks : c[r] <= Size(c)
<1>. DEFINE P == {s \in SUBSET Ranks : SumOf(c, s) \in Nat /\ \A r \in s : c[r] <= SumOf(c, s)}
<1>1. \A r \in Ranks : c[r] \in Nat
  BY DEF Hands
<1>2. {} \in P
  <2>1. SumOf(c, {}) = 0
    BY FS_EmptySet, SumOfStep
  <2>. QED
    BY <2>1
<1>3. ASSUME NEW s \in SUBSET Ranks, s # {}, \A x \in s : s \ {x} \in P  PROVE s \in P
  <2>1. ASSUME NEW x \in s
        PROVE  SumOf(c, s) = c[x] + SumOf(c, s \ {x}) /\ SumOf(c, s \ {x}) \in Nat
    <3>1. IsFiniteSet(s)
      BY RankSets
    <3>2. SumOf(c, s) = c[x] + SumOf(c, s \ {x})
      BY <1>1, <3>1, SumRemove
    <3>. QED
      BY <1>3, <3>2
  <2>2. \A x \in s : c[x] \in Nat
    BY <1>1
  <2>. HIDE DEF P
  <2>3. ASSUME NEW x \in s  PROVE SumOf(c, s) \in Nat /\ c[x] <= SumOf(c, s)
    <3>. DEFINE n == SumOf(c, s \ {x})  m == SumOf(c, s)
    <3>1. m = c[x] + n /\ n \in Nat /\ c[x] \in Nat
      BY <2>1, <2>2
    <3>. HIDE DEF n, m
    <3>2. m \in Nat /\ c[x] <= m
      BY <3>1
    <3>. QED
      BY <3>2 DEF m
  <2>4. SumOf(c, s) \in Nat /\ \A x \in s : c[x] <= SumOf(c, s)
    BY <1>3, <2>3
  <2>. QED
    BY <2>4 DEF P
<1>4. P = SUBSET Ranks
  <2>1. P \in SUBSET (SUBSET Ranks) /\ IsFiniteSet(Ranks)
    BY RankSets
  <2>. HIDE DEF P
  <2>. QED
    BY <1>2, <1>3, <2>1, FiniteSetInduction
<1>. QED
  BY <1>4 DEF Size

\* The cards of other ranks than T.
Besides(c, T) == [r \in Ranks |-> IF r \in T THEN 0 ELSE c[r]]

\* The same number of cards of each of some ranks, and the others.
LEMMA SizeApart ==
  ASSUME NEW c \in Hands, NEW T \in SUBSET Ranks, NEW k \in Nat, \A r \in T : c[r] = k
  PROVE  /\ Besides(c, T) \in Hands
         /\ Size(c) = k * Cardinality(T) + Size(Besides(c, T))
<1>. DEFINE f == [r \in Ranks |-> IF r \in T THEN k ELSE 0]
            g == Besides(c, T)
<1>1. IsFiniteSet(Ranks) /\ \A r \in Ranks : c[r] \in Nat
  BY RankSets DEF Hands
<1>2. g \in Hands
  BY <1>1 DEF Besides, Hands
<1>3. \A r \in Ranks : f[r] = (IF r \in T THEN k ELSE 0) /\ f[r] \in Int /\ g[r] \in Int /\ c[r] = f[r] + g[r]
  BY <1>1 DEF Besides
<1>. HIDE DEF f, g
<1>4. SumOf(c, Ranks) = SumOf(f, Ranks) + SumOf(g, Ranks)
  BY <1>1, <1>3, SumPlus
<1>5. SumOf(f, Ranks) = k * Cardinality(T)
  BY <1>1, <1>3, SumShares
<1>. QED
  BY <1>2, <1>4, <1>5 DEF Size, g

\* The same number of cards of all ranks there are.
LEMMA SizeAlike ==
  ASSUME NEW c \in Hands, NEW k \in Nat, AllCount(c, RanksIn(c), k)
  PROVE  Size(c) = k * Cardinality(RanksIn(c))
<1>1. \A r \in Ranks : c[r] = IF r \in RanksIn(c) THEN k ELSE 0
  BY DEF RanksIn, AllCount, Hands
<1>2. IsFiniteSet(Ranks) /\ RanksIn(c) \in SUBSET Ranks
  BY RankSets DEF RanksIn
<1>. QED
  BY <1>1, <1>2, SumShares DEF Size

\* One rank, and the others.
LEMMA SizeOfOne ==
  ASSUME NEW c \in Hands, NEW r \in Ranks
  PROVE  /\ Besides(c, {r}) \in Hands
         /\ Size(c) = c[r] + Size(Besides(c, {r}))
         /\ Size(Besides(c, {r})) \in Nat
<1>1. c[r] \in Nat
  BY DEF Hands
<1>2. Cardinality({r}) = 1
  BY FS_Singleton
<1>3. /\ Besides(c, {r}) \in Hands
      /\ Size(c) = c[r] * Cardinality({r}) + Size(Besides(c, {r}))
  BY <1>1, SizeApart
<1>4. Size(Besides(c, {r})) \in Nat
  BY <1>3, SizeBounds
<1>. QED
  BY <1>1, <1>2, <1>3, <1>4

\* Only a set with cards has a size.
LEMMA SizeZero ==
  ASSUME NEW c \in Hands
  PROVE  Size(c) = 0 <=> RanksIn(c) = {}
<1>1. \A r \in Ranks : c[r] \in Nat /\ c[r] <= Size(c)
  BY SizeBounds DEF Hands
<1>2. Size(c) = 0 => RanksIn(c) = {}
  BY <1>1 DEF RanksIn
<1>3. RanksIn(c) = {} => Size(c) = 0
  <2>. SUFFICES ASSUME RanksIn(c) = {} PROVE Size(c) = 0
    OBVIOUS
  <2>1. AllCount(c, RanksIn(c), 0)
    BY DEF AllCount
  <2>2. Size(c) = 0 * Cardinality({})
    BY <2>1, SizeAlike
  <2>. QED
    BY <2>2, FS_EmptySet
<1>. QED
  BY <1>2, <1>3

\* A row of ranks starts and ends where it should, and is as long.
LEMMA Row ==
  ASSUME NEW a \in Int, NEW b \in Int, a < b, a..b \subseteq Ranks
  PROVE  /\ Consecutive(a..b) /\ Min(a..b) = a /\ Max(a..b) = b
         /\ Cardinality(a..b) = b - a + 1
<1>1. a \in a..b /\ b \in a..b /\ a..b # {} /\ a..b \in SUBSET Ranks
  OBVIOUS
<1>2. Cardinality(a..b) = b - a + 1
  BY FS_Interval
<1>. DEFINE S == a..b
<1>3. \A x \in S : x \in Int /\ a <= x /\ x <= b
  OBVIOUS
<1>. HIDE DEF S
<1>4. /\ Min(S) \in S /\ \A y \in S : Min(S) <= y
      /\ Max(S) \in S /\ \A y \in S : y <= Max(S)
  BY <1>1, RankEnds DEF S
<1>5. Min(S) = a /\ Max(S) = b
  BY <1>1, <1>3, <1>4 DEF S
<1>. QED
  BY <1>2, <1>5 DEF S, Consecutive

\* A plane that Classify finds is one that the rules list.
LEMMA PlaneFound ==
  ASSUME NEW c \in Cards, NEW wing \in 0..2, NEW chain \in Nat, chain >= 2,
         Size(c) = (3 + wing) * chain, PlaneStarts(c, wing, chain) # {}
  PROVE  Documented(c)
<1>1. PICK s \in Ranks : /\ s + chain - 1 <= Ace /\ s..s + chain - 1 \subseteq With(c, 3)
                         /\ wing = 2 => AllCount(c, RanksIn(c) \ (s..s + chain - 1), 2)
  BY DEF PlaneStarts
<1>. DEFINE b == s + chain - 1
<1>2. s \in Int /\ b \in Int /\ s < b /\ b - s + 1 = chain
  <2>1. s \in 3..17
    BY RankSets
  <2>. QED
    BY <2>1
<1>3. b <= Ace /\ s..b \subseteq With(c, 3) /\ (wing = 2 => AllCount(c, RanksIn(c) \ (s..b), 2))
  BY <1>1
<1>. HIDE DEF b
<1>4. s..b \subseteq Ranks /\ s..b \subseteq RanksIn(c) /\ AllCount(c, s..b, 3)
  BY <1>3 DEF With, RanksIn, AllCount
<1>5. /\ Consecutive(s..b) /\ Max(s..b) = b /\ Cardinality(s..b) = chain
  BY <1>2, <1>4, Row
<1>6. IsChain(c, s..b, 3, 2)
  BY <1>3, <1>4, <1>5 DEF IsChain
<1>7. IsPlane(c, s..b, wing)
  BY <1>3, <1>5, <1>6 DEF IsPlane
<1>8. s \in RanksIn(c) /\ b \in RanksIn(c)
  <2>1. s \in s..b /\ b \in s..b
    BY <1>2
  <2>. QED
    BY <1>4, <2>1
<1>. QED
  BY <1>2, <1>4, <1>7, <1>8 DEF Documented

\* What Classify accepts, the rules list.
LEMMA RecognisedDocumented ==
  ASSUME NEW c \in Cards, Recognised(c)
  PROVE  Documented(c)
<1>. DEFINE n     == Size(c)
            R     == RanksIn(c)
            wing  == PlaneWing(n)
            chain == n \div (3 + wing)
<1>1. /\ c \in Hands /\ R \in SUBSET Ranks /\ n \in Nat /\ Cardinality(R) \in Nat
      /\ \A r \in Ranks : c[r] \in Nat /\ (r \in R <=> c[r] > 0)
  <2>1. c \in Hands /\ R \in SUBSET Ranks /\ \A r \in Ranks : c[r] \in Nat /\ (r \in R <=> c[r] > 0)
    BY DEF Cards, Hands, RanksIn
  <2>. QED
    BY <2>1, SizeBounds, RankSets
<1>2. CASE n = 2 /\ R = {SmallJoker, BigJoker}
  BY <1>2 DEF Documented
<1>3. CASE n \in 1..4 /\ AllCount(c, R, n)
  <2>1. n = n * Cardinality(R)
    BY <1>1, <1>3, SizeAlike
  <2>. DEFINE k == Cardinality(R)
  <2>2. k = 1
    <3>1. n = 1 \/ n = 2 \/ n = 3 \/ n = 4
      BY <1>3
    <3>2. k \in Nat /\ n = n * k
      BY <1>1, <2>1
    <3>. HIDE DEF n, k
    <3>. QED
      BY <3>1, <3>2
  <2>. QED
    BY <2>2 DEF Documented
<1>4. CASE n \in {4, 5} /\ With(c, 3) # {} /\ (n = 5 => With(c, 2) # {})
  <2>1. PICK r \in R : c[r] = 3
    BY <1>1, <1>4 DEF With
  <2>2. CASE n = 4
    BY <2>1, <2>2 DEF Documented
  <2>3. CASE n = 5
    <3>1. PICK p \in R : c[p] = 2
      BY <1>1, <1>4, <2>3 DEF With
    <3>. DEFINE d == Besides(c, {r})  e == Besides(d, {p})
    <3>2. d \in Hands /\ Size(d) = 2
      <4>1. d \in Hands /\ Size(c) = c[r] + Size(d) /\ Size(d) \in Nat
        BY <1>1, <2>1, SizeOfOne
      <4>. QED
        BY <2>1, <2>3, <4>1
    <3>3. d[p] = 2 /\ p # r
      BY <1>1, <2>1, <3>1 DEF Besides
    <3>4. e \in Hands /\ Size(e) = 0
      <4>. HIDE DEF d
      <4>1. e \in Hands /\ Size(d) = d[p] + Size(e) /\ Size(e) \in Nat
        BY <1>1, <3>1, <3>2, SizeOfOne
      <4>. QED
        BY <3>2, <3>3, <4>1
    <3>5. \A x \in Ranks : e[x] = 0
      <4>. HIDE DEF e
      <4>1. \A x \in Ranks : e[x] \in Nat /\ e[x] <= 0
        BY <3>4, SizeBounds DEF Hands
      <4>. QED
        BY <4>1
    <3>6. AllCount(c, R \ {r}, 2)
      BY <1>1, <3>1, <3>5 DEF AllCount, Besides
    <3>. QED
      BY <2>1, <2>3, <3>6 DEF Documented
  <2>. QED
    BY <1>4, <2>2, <2>3
<1>5. CASE n >= 5 /\ AllCount(c, R, 1) /\ Chainable(c)
  <2>1. n = 1 * Cardinality(R)
    BY <1>1, <1>5, SizeAlike
  <2>2. IsChain(c, R, 1, 5)
    BY <1>1, <1>5, <2>1 DEF IsChain, Chainable
  <2>. QED
    BY <2>2 DEF Documented
<1>6. CASE n >= 6 /\ AllCount(c, R, 2) /\ Chainable(c)
  <2>1. n = 2 * Cardinality(R)
    BY <1>1, <1>6, SizeAlike
  <2>2. IsChain(c, R, 2, 3)
    BY <1>1, <1>6, <2>1 DEF IsChain, Chainable
  <2>. QED
    BY <2>2 DEF Documented
<1>7. CASE wing # -1 /\ chain >= 2 /\ PlaneStarts(c, wing, chain) # {}
  <2>1. wing \in 0..2 /\ n % (3 + wing) = 0
    BY <1>1, <1>7 DEF PlaneWing
  <2>2. n = (3 + wing) * chain /\ chain \in Nat
    <3>1. wing = 0 \/ wing = 1 \/ wing = 2
      BY <2>1
    <3>. DEFINE w == wing
    <3>2. w \in 0..2 /\ n \in Nat /\ n % (3 + w) = 0
      BY <1>1, <2>1
    <3>. HIDE DEF n, w
    <3>3. n = (3 + w) * (n \div (3 + w)) /\ n \div (3 + w) \in Nat
      BY <3>2
    <3>. QED
      BY <3>3 DEF w
  <2>. HIDE DEF wing, chain
  <2>. QED
    BY <1>7, <2>1, <2>2, PlaneFound
<1>8. CASE n = 6 /\ With(c, 4) # {}
  <2>1. PICK r \in R : c[r] = 4
    BY <1>1, <1>8 DEF With
  <2>. QED
    BY <1>8, <2>1 DEF Documented
<1>9. CASE n = 8 /\ \E f \in With(c, 4) : Cardinality(R \ {f}) = 2 /\ AllCount(c, R \ {f}, 2)
  <2>1. PICK f \in With(c, 4) : AllCount(c, R \ {f}, 2)
    BY <1>9
  <2>2. f \in R /\ c[f] = 4
    BY <1>1 DEF With
  <2>. QED
    BY <1>9, <2>1, <2>2 DEF Documented
<1>. QED
  BY <1>2, <1>3, <1>4, <1>5, <1>6, <1>7, <1>8, <1>9 DEF Recognised

\* What the rules list, Classify accepts, but for shadowed planes.
LEMMA DocumentedRecognised ==
  ASSUME NEW c \in Cards, Documented(c), ~Shadowed(c)
  PROVE  Recognised(c)
<1>. DEFINE n == Size(c)
            R == RanksIn(c)
<1>1. /\ c \in Hands /\ R \in SUBSET Ranks /\ n \in Nat
      /\ \A r \in Ranks : c[r] \in 0..4 /\ (r \in R <=> c[r] > 0)
  <2>1. c \in Hands /\ R \in SUBSET Ranks /\ \A r \in Ranks : c[r] \in 0..4 /\ (r \in R <=> c[r] > 0)
    BY DEF Cards, Hands, RanksIn
  <2>. QED
    BY <2>1, SizeBounds
<1>2. CASE Cardinality(R) = 1
  <2>1. PICK r : R = {r}
    <3>1. IsFiniteSet(R)
      BY <1>1, RankSets
    <3>. QED
      BY <1>2, <3>1, FS_Singleton
  <2>. DEFINE k == c[r]
  <2>2. r \in Ranks /\ k \in 1..4
    BY <1>1, <2>1
  <2>3. AllCount(c, R, k)
    BY <2>1 DEF AllCount
  <2>4. n = k
    <3>1. n = k * Cardinality(R)
      <4>. HIDE DEF k
      <4>. QED
        BY <1>1, <2>2, <2>3, SizeAlike
    <3>2. n = k * 1
      BY <1>2, <3>1
    <3>. HIDE DEF k
    <3>. QED
      BY <2>2, <3>2
  <2>5. n \in 1..4 /\ AllCount(c, R, n)
    BY <2>2, <2>3, <2>4
  <2>. QED
    BY <2>5 DEF Recognised
<1>3. CASE R = {SmallJoker, BigJoker} /\ n = 2
  BY <1>3 DEF Recognised
<1>4. CASE \E r \in R : c[r] = 3 /\ (n = 4 \/ (n = 5 /\ AllCount(c, R \ {r}, 2)))
  <2>1. PICK r \in R : c[r] = 3 /\ (n = 4 \/ (n = 5 /\ AllCount(c, R \ {r}, 2)))
    BY <1>4
  <2>2. With(c, 3) # {}
    BY <1>1, <2>1 DEF With
  <2>3. ASSUME n = 5  PROVE With(c, 2) # {}
    <3>1. R # {r}
      <4>. SUFFICES ASSUME R = {r} PROVE FALSE
        OBVIOUS
      <4>1. AllCount(c, R, 3)
        BY <2>1 DEF AllCount
      <4>2. n = 3 * Cardinality(R)
        BY <1>1, <4>1, SizeAlike
      <4>3. Cardinality(R) = 1
        BY FS_Singleton
      <4>. HIDE DEF n
      <4>. QED
        BY <2>3, <4>2, <4>3
    <3>2. PICK p \in R : p # r
      BY <2>1, <3>1
    <3>3. c[p] = 2
      BY <2>1, <2>3, <3>2 DEF AllCount
    <3>. QED
      BY <1>1, <3>2, <3>3 DEF With
  <2>4. n \in {4, 5}
    BY <2>1
  <2>. QED
    BY <2>2, <2>3, <2>4 DEF Recognised
<1>5. CASE \E r \in R : c[r] = 4 /\ n = 6
  <2>1. n = 6 /\ With(c, 4) # {}
    BY <1>1, <1>5 DEF With
  <2>. QED
    BY <2>1 DEF Recognised
<1>6. CASE \E r \in R : c[r] = 4 /\ n = 8 /\ AllCount(c, R \ {r}, 2)
  <2>1. PICK r \in R : c[r] = 4 /\ n = 8 /\ AllCount(c, R \ {r}, 2)
    BY <1>6
  <2>. DEFINE d == Besides(c, {r})
  <2>2. d \in Hands /\ Size(d) = 4
    <3>1. d \in Hands /\ Size(c) = c[r] + Size(d) /\ Size(d) \in Nat
      BY <1>1, SizeOfOne
    <3>. QED
      BY <2>1, <3>1
  <2>3. RanksIn(d) = R \ {r} /\ AllCount(d, RanksIn(d), 2)
    <3>1. \A x \in Ranks : d[x] = IF x = r THEN 0 ELSE c[x]
      BY DEF Besides
    <3>2. RanksIn(d) = R \ {r}
      <4>1. \A x \in Ranks : d[x] > 0 <=> x # r /\ c[x] > 0
        BY <3>1
      <4>. QED
        BY <4>1 DEF RanksIn
    <3>. HIDE DEF d
    <3>3. \A x \in R \ {r} : d[x] = c[x] /\ c[x] = 2
      BY <1>1, <2>1, <3>1 DEF AllCount
    <3>. QED
      BY <3>2, <3>3 DEF AllCount
  <2>4. Cardinality(R \ {r}) = 2
    <3>. HIDE DEF d
    <3>1. Size(d) = 2 * Cardinality(R \ {r})
      BY <2>2, <2>3, SizeAlike
    <3>2. Cardinality(R \ {r}) \in Nat
      BY <1>1, RankSets
    <3>. QED
      BY <2>2, <3>1, <3>2
  <2>5. r \in With(c, 4)
    BY <1>1, <2>1 DEF With
  <2>. QED
    BY <2>1, <2>4, <2>5 DEF Recognised
<1>7. CASE IsChain(c, R, 1, 5)
  <2>1. Cardinality(R) >= 5 /\ AllCount(c, R, 1) /\ Chainable(c)
    BY <1>7 DEF IsChain, Chainable
  <2>2. n = 1 * Cardinality(R)
    BY <1>1, <2>1, SizeAlike
  <2>3. n >= 5
    <3>1. Cardinality(R) \in Nat
      BY <1>1, RankSets
    <3>. QED
      BY <2>1, <2>2, <3>1
  <2>. QED
    BY <2>1, <2>3 DEF Recognised
<1>8. CASE IsChain(c, R, 2, 3)
  <2>1. Cardinality(R) >= 3 /\ AllCount(c, R, 2) /\ Chainable(c)
    BY <1>8 DEF IsChain, Chainable
  <2>2. n = 2 * Cardinality(R)
    BY <1>1, <2>1, SizeAlike
  <2>3. n >= 6
    <3>1. Cardinality(R) \in Nat
      BY <1>1, RankSets
    <3>. QED
      BY <2>1, <2>2, <3>1
  <2>. QED
    BY <2>1, <2>3 DEF Recognised
<1>9. CASE \E a, b \in R, wing \in 0..2 : a < b /\ a..b \subseteq R /\ IsPlane(c, a..b, wing)
  <2>1. PICK a \in R, b \in R, wing \in 0..2 : a < b /\ a..b \subseteq R /\ IsPlane(c, a..b, wing)
    BY <1>9
  <2>. DEFINE k == b - a + 1
  <2>2. a \in Int /\ b \in Int /\ k \in Nat /\ k >= 2 /\ a + k - 1 = b
    <3>1. a \in 3..17 /\ b \in 3..17
      BY <1>1, RankSets
    <3>. QED
      BY <2>1, <3>1
  <2>3. Cardinality(a..b) = k /\ Max(a..b) = b
    BY <1>1, <2>1, <2>2, Row
  <2>4. n = (3 + wing) * k /\ b <= Ace /\ AllCount(c, a..b, 3) /\ (wing = 2 => AllCount(c, R \ (a..b), 2))
    <3>. HIDE DEF k
    <3>. QED
      BY <2>1, <2>3 DEF IsPlane, IsChain
  <2>5. PlaneWing(n) = wing
    <3>1. wing \in 1..2 => PlaneWing(n) >= wing
      <4>. SUFFICES ASSUME wing \in 1..2, ~(PlaneWing(n) >= wing) PROVE FALSE
        OBVIOUS
      <4>1. PlaneWing(n) < wing
        BY DEF PlaneWing
      <4>. QED
        BY <2>1, <4>1 DEF Shadowed
    <3>2. wing = 0 \/ wing = 1 \/ wing = 2
      OBVIOUS
    <3>3. wing = 0 => n >= 6 /\ n % 3 = 0
      <4>. HIDE DEF k, n
      <4>. QED
        BY <1>1, <2>2, <2>4
    <3>4. wing = 1 => n >= 8 /\ n % 4 = 0
      <4>. HIDE DEF k, n
      <4>. QED
        BY <1>1, <2>2, <2>4
    <3>5. wing = 2 => n >= 10 /\ n % 5 = 0
      <4>. HIDE DEF k, n
      <4>. QED
        BY <1>1, <2>2, <2>4
    <3>. HIDE DEF n
    <3>. QED
      BY <1>1, <3>1, <3>2, <3>3, <3>4, <3>5 DEF PlaneWing
  <2>6. n \div (3 + wing) = k
    <3>1. wing = 0 \/ wing = 1 \/ wing = 2
      OBVIOUS
    <3>. HIDE DEF n, k
    <3>. QED
      BY <2>2, <2>4, <3>1
  <2>7. wing = 0 => R = a..b
    <3>. SUFFICES ASSUME wing = 0 PROVE R = a..b
      OBVIOUS
    <3>. DEFINE d == Besides(c, a..b)
    <3>1. d \in Hands /\ Size(c) = 3 * Cardinality(a..b) + Size(d)
      <4>1. a..b \in SUBSET Ranks /\ \A r \in a..b : c[r] = 3
        BY <1>1, <2>1, <2>4 DEF AllCount
      <4>. QED
        BY <1>1, <4>1, SizeApart
    <3>2. Size(d) = 0
      <4>1. Size(d) \in Nat
        <5>. HIDE DEF d
        <5>. QED
          BY <3>1, SizeBounds
      <4>2. n = 3 * k /\ n = 3 * k + Size(d)
        BY <2>3, <2>4, <3>1
      <4>. HIDE DEF n, k, d
      <4>. QED
        BY <1>1, <2>2, <4>1, <4>2
    <3>3. RanksIn(d) = {}
      <4>. HIDE DEF d
      <4>. QED
        BY <3>1, <3>2, SizeZero
    <3>4. \A r \in Ranks : r \notin a..b => ~(c[r] > 0)
      BY <3>3 DEF RanksIn, Besides
    <3>. QED
      BY <1>1, <2>1, <3>4
  <2>8. a \in PlaneStarts(c, wing, k)
    <3>. HIDE DEF k
    <3>1. a \in Ranks /\ a + k - 1 <= Ace /\ a..(a + k - 1) = a..b
      BY <1>1, <2>2, <2>4
    <3>2. a..b \subseteq With(c, 3)
      BY <1>1, <2>1, <2>4 DEF With, AllCount
    <3>. QED
      BY <2>4, <2>7, <3>1, <3>2 DEF PlaneStarts
  <2>9. /\ PlaneWing(n) # -1 /\ n \div (3 + PlaneWing(n)) >= 2
        /\ PlaneStarts(c, PlaneWing(n), n \div (3 + PlaneWing(n))) # {}
    <3>. HIDE DEF k, n
    <3>. QED
      BY <2>2, <2>5, <2>6, <2>8
  <2>. QED
    BY <2>9 DEF Recognised
<1>. QED
  BY <1>2, <1>3, <1>4, <1>5, <1>6, <1>7, <1>8, <1>9 DEF Documented

\* Classify accepts exactly what the rules list, shadowed planes aside.
LEMMA EverySetAsDocumented ==
  ASSUME NEW c \in Cards
  PROVE  AsDocumented(c)
<1>1. c \in Hands /\ RanksIn(c) \in SUBSET Ranks /\ \A r \in RanksIn(c) : c[r] \in Nat /\ c[r] > 0
  BY DEF Cards, Hands, RanksIn
<1>2. Size(c) \in Nat /\ \A r \in RanksIn(c) : c[r] <= Size(c)
  BY <1>1, SizeBounds
<1>3. Size(c) = 1 => AllCount(c, RanksIn(c), 1)
  BY <1>1, <1>2 DEF AllCount
<1>. QED
  BY <1>2, <1>3, ClassifyRecognises, RecognisedDocumented, DocumentedRecognised DEF AsDocumented

-----------------------------------------------------------------------------
(* The hands of the players *)

\* Every hand is cards of the pack, and nobody's is empty while the hand is played.
Held ==
  /\ deck \in Cards
  /\ \A s \in Seats : table.hand[s] \in Cards
  /\ HandActive(table) => \A s \in Seats : table.hand[s] # NoCards

\* Hands that nobody touched are still held.
LEMMA HeldSame ==
  ASSUME Held, deck' = deck, table'.hand = table.hand, table'.phase = table.phase
  PROVE  Held'
BY DEF Held, HandActive

\* A seat that is taken or given up between hands has no cards.
LEMMA HeldSeat ==
  ASSUME LInv, Held, NEW s \in Seats, NEW who \in Users \cup {NoUser}, NEW c \in Nat,
         NEW e \in [Seats -> BOOLEAN], ~HandActive(table),
         table' = Rewritten(table, s, who, c, e), deck' = deck
  PROVE  Held'
<1>1. table \in TableState
  BY InvParts
<1>2. table'.hand = [table.hand EXCEPT ![s] = NoCards] /\ table'.phase = table.phase
  <2>1. SeatChanged(table, Rewritten(table, s, who, c, e), s, who, c)
    BY <1>1, SeatWritten
  <2>. QED
    BY <2>1 DEF SeatChanged
<1>3. NoCards \in Cards
  BY DEF NoCards, Cards
<1>4. table.hand \in [Seats -> Hands]
  BY <1>1 DEF TableState
<1>. QED
  BY <1>2, <1>3, <1>4 DEF Held, HandActive

\* A deal gives everybody cards.
LEMMA HeldDeal ==
  ASSUME NEW t \in TableState, NEW d \in Deals, Playable(t) = Seats,
         table' = Dealt(t, d), Noted(d)
  PROVE  Held'
<1>1. d.hands \in [Seats -> Cards \ {NoCards}] /\ d.bottom \in Cards
      /\ \A r \in Ranks : d.bottom[r] + d.hands[0][r] + d.hands[1][r] + d.hands[2][r] <= 4
  BY LandlordAssumption
<1>2. table'.hand = d.hands
  BY DealtFacts
<1>3. deck' = Whole(d) /\ Whole(d) \in Hands
  BY WholeType DEF Noted, Whole
<1>4. Whole(d) \in Cards
  <2>1. \A r \in Ranks : Whole(d)[r] \in Nat /\ Whole(d)[r] <= 4
    BY <1>1, <1>3 DEF Whole, Hands
  <2>2. \A r \in Ranks : Whole(d)[r] \in 0..4
    BY <2>1
  <2>. QED
    BY <1>3, <2>2 DEF Cards, Hands
<1>. QED
  BY <1>1, <1>2, <1>3, <1>4 DEF Held

\* The landlord's hand and the bottom are cards of the deal together.
LEMMA HeldCrowned ==
  ASSUME LInv, Held, NEW t \in TableState, t.highestBidder \in Seats, HandActive(table),
         table.landlord = NoSeat, t.hand = table.hand, t.bottom = table.bottom,
         table' = Crowned(t), deck' = deck
  PROVE  Held'
<1>. DEFINE s == t.highestBidder
<1>1. /\ table \in TableState /\ Counted(table, deck, played) /\ played \in Hands
  BY InvParts
<1>2. table.hand \in [Seats -> Hands] /\ table.bottom \in Hands
  BY <1>1 DEF TableState
<1>3. table'.hand = [table.hand EXCEPT ![s] = Plus(table.hand[s], table.bottom)]
  BY CrownedFacts
<1>4. s = 0 \/ s = 1 \/ s = 2
  BY ThreeSeats
<1>. HIDE DEF s
<1>. DEFINE p == Plus(table.hand[s], table.bottom)
<1>5. ASSUME NEW r \in Ranks
      PROVE  /\ p[r] \in 0..4
             /\ table.hand[s][r] \in Nat /\ p[r] >= table.hand[s][r]
  <2>. DEFINE a == table.hand[0][r]  b == table.hand[1][r]  c == table.hand[2][r]
              m == table.bottom[r]  o == played[r]  w == deck[r]
  <2>1. a \in Nat /\ b \in Nat /\ c \in Nat /\ m \in Nat /\ o \in Nat
    BY <1>1, <1>2, ThreeSeats DEF Hands
  <2>2. w = a + b + c + m + o /\ w <= 4
    <3>1. deck[r] \in 0..4
      BY DEF Held, Cards
    <3>. QED
      BY <1>1, <3>1 DEF Counted
  <2>3. p[r] = table.hand[s][r] + m
    BY DEF Plus
  <2>4. table.hand[s][r] = a \/ table.hand[s][r] = b \/ table.hand[s][r] = c
    BY <1>4
  <2>. DEFINE h == table.hand[s][r]  q == p[r]
  <2>. HIDE DEF a, b, c, m, o, w, h, q
  <2>5. q = h + m /\ (h = a \/ h = b \/ h = c)
    BY <2>3, <2>4 DEF h, q
  <2>6. q \in 0..4 /\ h \in Nat /\ q >= h
    BY <2>1, <2>2, <2>5
  <2>. QED
    BY <2>6 DEF h, q
<1>6. p \in Cards
  <2>1. p = [r \in Ranks |-> p[r]]
    BY DEF Plus
  <2>. HIDE DEF p
  <2>. QED
    BY <1>5, <2>1 DEF Cards
<1>7. p # NoCards
  <2>1. table.hand[s] \in Cards /\ table.hand[s] # NoCards
    BY <1>4, ThreeSeats DEF Held
  <2>2. \E r \in Ranks : table.hand[s][r] # 0
    BY <2>1 DEF NoCards, Cards
  <2>. HIDE DEF p
  <2>3. \E r \in Ranks : p[r] # 0
    BY <1>5, <2>2
  <2>. QED
    BY <2>3 DEF NoCards
<1>. HIDE DEF p
<1>8. table'.hand = [table.hand EXCEPT ![s] = p]
  BY <1>3 DEF p
<1>. QED
  BY <1>2, <1>6, <1>7, <1>8 DEF Held

\* A bid, with all that follows from it.
LEMMA HeldBid ==
  ASSUME LInv, Held, NEW s \in Seats, NEW n \in 0..3, s = table.acting, BidBy(s, n)
  PROVE  Held'
<1>. DEFINE t == BidMade(table, s, n)
<1>1. /\ table \in TableState /\ Filled(table) /\ Bidding(table, bad)
  BY InvParts
<1>2. table.phase = "bidding" /\ HandActive(table)
  BY DEF BidBy, HandActive
<1>3. Playable(table) = Seats /\ NextSeat(table, s) \in Seats
  BY <1>1, <1>2, AllPlay, OnRing
<1>4. /\ t \in TableState /\ t.user = table.user /\ t.stack = table.stack
      /\ t.hand = table.hand /\ t.bottom = table.bottom /\ t.phase = table.phase
  BY <1>1, BidMadeFacts, ZenonT(60)
<1>5. \/ \E d \in Deals : table' = Dealt(t, d) /\ Noted(d)
      \/ table' = t /\ deck' = deck
      \/ t.highestBidder # NoSeat /\ table' = Crowned(t) /\ deck' = deck
      \/ table' = SetActing(t, NextSeat(t, s)) /\ deck' = deck
  BY DEF BidBy, BadShuffle, NothingPlayed
<1>. HIDE DEF t
<1>6. Playable(t) = Seats /\ NextSeat(t, s) \in Seats
  BY <1>3, <1>4 DEF Playable, Occupied, NextSeat
<1>7. CASE \E d \in Deals : table' = Dealt(t, d) /\ Noted(d)
  BY <1>4, <1>6, <1>7, HeldDeal
<1>8. CASE table' = t /\ deck' = deck
  BY <1>4, <1>8, HeldSame
<1>9. CASE t.highestBidder # NoSeat /\ table' = Crowned(t) /\ deck' = deck
  <2>1. t.highestBidder \in Seats /\ table.landlord = NoSeat
    BY <1>1, <1>2, <1>4, <1>9 DEF TableState, Bidding
  <2>. QED
    BY <1>2, <1>4, <1>9, <2>1, HeldCrowned
<1>10. CASE table' = SetActing(t, NextSeat(t, s)) /\ deck' = deck
  <2>. DEFINE x == NextSeat(t, s)
  <2>1. table' = SetActing(t, x) /\ x \in Seats \cup {NoSeat} /\ deck' = deck
    BY <1>6, <1>10
  <2>. HIDE DEF x
  <2>2. SameHand(t, table')
    BY <1>4, <2>1, SetActingFacts
  <2>3. table'.hand = t.hand /\ table'.phase = t.phase
    BY <2>2 DEF SameHand
  <2>. QED
    BY <1>4, <2>1, <2>3, HeldSame
<1>. QED
  BY <1>5, <1>7, <1>8, <1>9, <1>10

\* A play takes cards from a hand; the hand is over when none are left.
LEMMA HeldPlay ==
  ASSUME LInv, Held, NEW s \in Seats, NEW c \in Hands, s = table.acting, PlayBy(s, c)
  PROVE  Held'
<1>. DEFINE t == Plays(table, s, c)
<1>1. /\ table \in TableState /\ Filled(table) /\ Playing(table, bad, passers)
  BY InvParts
<1>2. /\ table.phase = "playing" /\ HandActive(table) /\ Holds(table.hand[s], c) /\ deck' = deck
      /\ table' = IF t.hand[s] = NoCards THEN Finished(t, s) ELSE SetActing(t, NextSeat(t, s))
  BY DEF PlayBy, PlayAccepted, HandActive
<1>3. NextSeat(table, s) \in Seats /\ table.landlord \in Seats
  BY <1>1, <1>2, AllPlay, OnRing DEF Playing
<1>4. /\ t \in TableState
      /\ t.user = table.user /\ t.stack = table.stack /\ t.landlord = table.landlord
      /\ t.hand = Without(table.hand, s, c)
  BY <1>1, <1>2, PlaysFacts
<1>5. Minus(table.hand[s], c) \in Cards
  <2>1. table.hand[s] \in Cards
    BY DEF Held
  <2>2. ASSUME NEW r \in Ranks PROVE table.hand[s][r] - c[r] \in 0..4
    <3>1. table.hand[s][r] \in 0..4 /\ c[r] \in Nat /\ c[r] <= table.hand[s][r]
      BY <1>2, <2>1 DEF Cards, Hands, Holds
    <3>. QED
      BY <3>1
  <2>. QED
    BY <2>2 DEF Minus, Cards
<1>. HIDE DEF t
<1>6. table.hand \in [Seats -> Hands] /\ t.hand = [table.hand EXCEPT ![s] = Minus(table.hand[s], c)]
  BY <1>1, <1>4 DEF TableState, Without
<1>7. \A o \in Seats : t.hand[o] \in Cards /\ (o # s => t.hand[o] # NoCards)
  BY <1>2, <1>5, <1>6 DEF Held
<1>8. CASE t.hand[s] = NoCards
  <2>1. table'.hand = t.hand /\ table'.phase = "complete"
    BY <1>2, <1>3, <1>4, <1>8, FinishedFacts
  <2>. QED
    BY <1>2, <1>7, <2>1 DEF Held, HandActive
<1>9. CASE t.hand[s] # NoCards
  <2>1. NextSeat(t, s) \in Seats
    BY <1>3, <1>4 DEF NextSeat, Playable, Occupied
  <2>2. table'.hand = t.hand
    BY <1>2, <1>4, <1>9, <2>1, SetActingFacts, ZenonT(60) DEF SameHand
  <2>. QED
    BY <1>2, <1>7, <1>9, <2>2 DEF Held
<1>. QED
  BY <1>8, <1>9

\* A pass leaves the cards where they are.
LEMMA HeldPass ==
  ASSUME LInv, Held, NEW s \in Seats, s = table.acting, PassBy(s)
  PROVE  Held'
<1>1. /\ table \in TableState /\ Filled(table) /\ Playing(table, bad, passers)
  BY InvParts
<1>2. /\ table.phase = "playing" /\ HandActive(table) /\ ~Leads(table, s) /\ deck' = deck
      /\ table' = Passed(table, s)
  BY DEF PassBy, HandActive, Passed
<1>3. NextSeat(table, s) \in Seats /\ table.lastSeat \in Seats
  BY <1>1, <1>2, AllPlay, OnRing DEF Playing, Leads
<1>. DEFINE u == [table EXCEPT !.trickOpen = FALSE, !.passCount = 0]
            v == [table EXCEPT !.passCount = table.passCount + 1]
<1>4. /\ u \in TableState /\ SameBut(table, u) /\ v \in TableState /\ SameBut(table, v)
  BY <1>1, PassTypes
<1>5. table' = SetActing(u, table.lastSeat) \/ table' = SetActing(v, NextSeat(table, s))
  BY <1>2 DEF Passed
<1>. HIDE DEF u, v
<1>. DEFINE x == NextSeat(table, s)
<1>6. x \in Seats \cup {NoSeat} /\ table.lastSeat \in Seats \cup {NoSeat}
      /\ (table' = SetActing(u, table.lastSeat) \/ table' = SetActing(v, x))
  BY <1>3, <1>5
<1>. HIDE DEF x
<1>7. SameHand(u, table') \/ SameHand(v, table')
  BY <1>4, <1>6, SetActingFacts
<1>8. table'.hand = table.hand /\ table'.phase = table.phase
  BY <1>4, <1>7 DEF SameBut, SameHand
<1>. QED
  BY <1>2, <1>8, HeldSame

\* Every step keeps the hands.
LEMMA HeldNext ==
  ASSUME LInv, Held, Next
  PROVE  Held'
<1>1. /\ table \in TableState /\ (HandActive(table) => table.acting \in Seats)
      /\ \A s \in Seats : table.hand[s] \in Hands
  BY InvParts DEF Filled, TableState
<1>2. ASSUME NEW u \in Users, NEW b \in BuyIns, Join(u, b)  PROVE Held'
  <2>. DEFINE s == Min(Seats \ Occupied(table))
              e == [table.ready EXCEPT ![s] = FALSE]
  <2>1. /\ table' = Rewritten(table, s, u, b, e) /\ deck' = deck /\ ~HandActive(table)
        /\ Occupied(table) # Seats
    BY <1>2 DEF Join, Rewritten, NothingPlayed
  <2>2. s \in Seats
    <3>. DEFINE E == Seats \ Occupied(table)
    <3>1. E # {} /\ E \subseteq Nat
      BY <2>1, ThreeSeats DEF Occupied
    <3>. HIDE DEF E
    <3>2. \E x \in E : \A y \in E : x <= y
      BY <3>1, NatHasLeast
    <3>3. Min(E) \in E
      BY <3>2 DEF Min
    <3>. QED
      BY <3>3 DEF E
  <2>. HIDE DEF s
  <2>3. e \in [Seats -> BOOLEAN] /\ u \in Users \cup {NoUser} /\ b \in Nat
    BY <1>1, LandlordAssumption DEF TableState
  <2>. HIDE DEF e
  <2>. QED
    BY <2>1, <2>2, <2>3, HeldSeat
<1>3. ASSUME NEW u \in Users, Leave(u)  PROVE Held'
  <2>1. PICK s \in SeatOf(table, u) :
          table' = [table EXCEPT !.user[s] = NoUser, !.stack[s] = 0, !.hand[s] = NoCards,
                                 !.bid[s] = 0, !.plays[s] = 0, !.ready = Everyone(FALSE)]
    BY <1>3 DEF Leave
  <2>2. ~HandActive(table) /\ deck' = deck /\ s \in Seats
    BY <1>3 DEF Leave, NothingPlayed, SeatOf
  <2>. DEFINE e == Everyone(FALSE)  z == 0
  <2>3. table' = Rewritten(table, s, NoUser, z, e)
    BY <2>1 DEF Rewritten
  <2>4. e \in [Seats -> BOOLEAN] /\ z \in Nat /\ NoUser \in Users \cup {NoUser}
    BY DEF Everyone
  <2>. HIDE DEF e, z
  <2>. QED
    BY <2>2, <2>3, <2>4, HeldSeat
<1>4. ASSUME NEW u \in Users, Ready(u)  PROVE Held'
  <2>1. table' = Toggled(u) /\ deck' = deck
    BY <1>4 DEF Ready, NothingPlayed
  <2>. QED
    BY <1>1, <2>1, ToggledFacts, HeldSame
<1>5. ASSUME NEW u \in Users, ReadyAndDeal(u)  PROVE Held'
  <2>. DEFINE t == Toggled(u)
  <2>1. t \in TableState /\ Playable(t) = Seats
    BY <1>1, <1>5, ToggledFacts DEF ReadyAndDeal, Complete
  <2>2. \/ \E d \in Deals : table' = Dealt(t, d) /\ Noted(d)
        \/ table' = table /\ deck' = deck
    BY <1>5 DEF ReadyAndDeal, BadShuffle, NothingPlayed
  <2>. HIDE DEF t
  <2>. QED
    BY <2>1, <2>2, HeldDeal, HeldSame
<1>6. ASSUME NEW s \in Seats, NEW n \in 0..3, Bid(s, n)  PROVE Held'
  BY <1>6, HeldBid DEF Bid, MayAct
<1>7. ASSUME NEW s \in Seats, NEW c \in Picks(table.hand[s]), Play(s, c)  PROVE Held'
  <2>1. c \in Hands
    BY <1>1, <1>7, PicksAreCards
  <2>. QED
    BY <1>7, <2>1, HeldPlay DEF Play, MayAct
<1>8. ASSUME NEW s \in Seats, Pass(s)  PROVE Held'
  BY <1>8, HeldPass DEF Pass, MayAct
<1>9. ASSUME DeadlinePasses  PROVE Held'
  <2>1. table' = [table EXCEPT !.expired = TRUE] /\ deck' = deck
    BY <1>9 DEF DeadlinePasses, NothingPlayed
  <2>2. table'.hand = table.hand /\ table'.phase = table.phase
    BY <1>1, <2>1, Zenon DEF TableState
  <2>. QED
    BY <2>1, <2>2, HeldSame
<1>10. ASSUME Timeout(table.turnID)  PROVE Held'
  <2>1. PICK s \in Seats : s = table.acting
    BY <1>1, <1>10 DEF Timeout
  <2>2. CASE BidBy(s, 0)
    <3>1. 0 \in 0..3
      OBVIOUS
    <3>. QED
      BY <2>1, <2>2, <3>1, HeldBid
  <2>3. CASE PlayBy(s, Lowest(table.hand[s]))
    <3>1. PICK c \in Hands : c = Lowest(table.hand[s])
      BY LowestIsCards
    <3>2. PlayBy(s, c)
      BY <2>3, <3>1
    <3>. QED
      BY <2>1, <3>2, HeldPlay
  <2>4. CASE PassBy(s)
    BY <2>1, <2>4, HeldPass
  <2>. QED
    BY <1>10, <2>1, <2>2, <2>3, <2>4 DEF Timeout
<1>. QED
  BY <1>2, <1>3, <1>4, <1>5, <1>6, <1>7, <1>8, <1>9, <1>10 DEF Next

\* In every reachable state the hands are cards of the pack.
LEMMA HandsAreHeld == Spec => [](LInv /\ Held)
<1>1. Init => Held
  <2>1. NoCards \in Cards
    BY DEF NoCards, Cards
  <2>. QED
    BY <2>1 DEF Init, NewTable, Everyone, Held, HandActive
<1>2. Held /\ LInv /\ [Next]_vars => Held'
  <2>. SUFFICES ASSUME Held, LInv, [Next]_vars PROVE Held'
    OBVIOUS
  <2>1. CASE Next
    BY <2>1, HeldNext
  <2>2. CASE UNCHANGED vars
    BY <2>2 DEF vars, Held
  <2>. QED
    BY <2>1, <2>2
<1>. QED
  BY <1>1, <1>2, LandlordInvariant, PTL DEF Spec

\* combination.go, Classify: whatever cards a player holds, and for any samples, the game
\* takes them for a combination exactly if the rules list one, but for some planes.
THEOREM CombinationsAreDocumented == Spec => []CombinationsAsDocumented
<1>1. LInv /\ Held => CombinationsAsDocumented
  <2>. SUFFICES ASSUME Held PROVE CombinationsAsDocumented
    OBVIOUS
  <2>1. \A c \in Samples : c \in Cards
    BY CardsAssumption
  <2>. QED
    BY <2>1, EverySetAsDocumented DEF Held, CombinationsAsDocumented
<1>. QED
  BY <1>1, HandsAreHeld, PTL

-----------------------------------------------------------------------------
(* The dock *)

\* The lowest card of a hand is a single that its player may pick.
LEMMA LowestIsSingle ==
  ASSUME NEW h \in Cards, h # NoCards
  PROVE  /\ Lowest(h) \in Picks(h) /\ Lowest(h) # NoCards /\ Holds(h, Lowest(h))
         /\ Classify(Lowest(h)) # NoCombination
<1>. DEFINE r == Min(RanksIn(h))
            c == Lowest(h)
<1>1. RanksIn(h) \in SUBSET Ranks /\ RanksIn(h) # {} /\ \A x \in Ranks : h[x] \in 0..4
  BY DEF RanksIn, NoCards, Cards
<1>2. r \in Ranks /\ h[r] \in 1..4
  <2>1. r \in RanksIn(h)
    BY <1>1, RankEnds
  <2>. HIDE DEF r
  <2>2. r \in Ranks /\ h[r] > 0
    BY <2>1 DEF RanksIn
  <2>. QED
    BY <1>1, <2>2
<1>3. c = [x \in Ranks |-> IF x = r THEN 1 ELSE 0]
  BY <1>2 DEF Lowest, NoCards
<1>. HIDE DEF r, c
<1>4. c \in Hands /\ c # NoCards /\ Holds(h, c)
  <2>1. c \in Hands
    BY <1>3 DEF Hands
  <2>2. c[r] = 1 /\ \A x \in Ranks : c[x] = IF x = r THEN 1 ELSE 0
    BY <1>2, <1>3
  <2>3. \A x \in Ranks : c[x] <= h[x]
    BY <1>1, <1>2, <2>2
  <2>. QED
    BY <1>2, <2>1, <2>2, <2>3 DEF Holds, NoCards
<1>5. c \in Picks(h)
  <2>. DEFINE S == {<<r, 1>>}
              All == UNION {{x} \X (1..h[x]) : x \in RanksIn(h)}
              Of(T, q) == {x \in T : x[1] = q}
  <2>1. S \in SUBSET All
    <3>1. <<r, 1>> \in {r} \X (1..h[r]) /\ r \in RanksIn(h)
      BY <1>2 DEF RanksIn
    <3>. QED
      BY <3>1
  <2>2. ASSUME NEW q \in Ranks PROVE Cardinality(Of(S, q)) = c[q]
    <3>1. CASE q = r
      <4>1. Of(S, q) = {<<r, 1>>}
        BY <3>1
      <4>2. Cardinality({<<r, 1>>}) = 1
        BY FS_Singleton
      <4>. QED
        BY <1>3, <3>1, <4>1, <4>2
    <3>2. CASE q # r
      <4>1. Of(S, q) = {}
        BY <3>2
      <4>. QED
        BY <1>3, <3>2, <4>1, FS_EmptySet
    <3>. QED
      BY <3>1, <3>2
  <2>3. c = [q \in Ranks |-> Cardinality(Of(S, q))]
    <3>1. c = [q \in Ranks |-> c[q]]
      BY <1>3
    <3>. HIDE DEF Of, S
    <3>. QED
      BY <2>2, <3>1
  <2>4. Picks(h) = {[q \in Ranks |-> Cardinality(Of(T, q))] : T \in SUBSET All} \ {NoCards}
    BY DEF Picks
  <2>. HIDE DEF S, All, Of
  <2>. QED
    BY <1>4, <2>1, <2>3, <2>4
<1>6. Size(c) = 1
  <2>. DEFINE e == Besides(c, {r})
  <2>1. c[r] = 1 /\ e \in Hands /\ Size(c) = c[r] + Size(e)
    BY <1>2, <1>3, <1>4, SizeOfOne
  <2>2. RanksIn(e) = {}
    <3>1. \A x \in Ranks : e[x] = 0
      BY <1>3 DEF Besides
    <3>. HIDE DEF e
    <3>. QED
      BY <3>1 DEF RanksIn
  <2>. HIDE DEF e
  <2>3. Size(e) = 0
    BY <2>1, <2>2, SizeZero
  <2>. QED
    BY <2>1, <2>3
<1>7. AllCount(c, RanksIn(c), 1)
  BY <1>3 DEF AllCount, RanksIn
<1>8. Recognised(c)
  BY <1>6, <1>7 DEF Recognised
<1>9. Classify(c) # NoCombination
  BY <1>6, <1>7, <1>8, ClassifyRecognises
<1>. QED
  BY <1>4, <1>5, <1>9 DEF c

\* What each handler asks.
LEMMA AcceptsWhat ==
  ASSUME NEW u, NEW r
  PROVE  LET s == ViewerSeat(u)
         IN  /\ r.path = "leave" => (Accepts(u, r) <=> Seated(u) /\ ~HandActive(table))
             /\ r.path = "ready" =>
                  (Accepts(u, r) <=> Seated(u) /\ ~HandActive(table) /\ s \in Playable(table))
             /\ r.path = "bid" =>
                  (Accepts(u, r) <=> /\ CanAct(u) /\ table.phase = "bidding"
                                     /\ r.bid = 0 \/ r.bid > table.highestBid)
             /\ r.path = "play" =>
                  (Accepts(u, r) <=> /\ CanAct(u) /\ table.phase = "playing"
                                     /\ \E c \in Picks(table.hand[s]) : PlayAccepted(s, c))
             /\ r.path = "pass" =>
                  (Accepts(u, r) <=> CanAct(u) /\ (table.phase = "bidding" \/ ~Leads(table, s)))
<1>. DEFINE s == ViewerSeat(u)
            J == ~Seated(u) /\ ~HandActive(table) /\ Occupied(table) # Seats
            L == Seated(u) /\ ~HandActive(table)
            R == Seated(u) /\ ~HandActive(table) /\ s \in Playable(table)
            B == table.phase = "bidding" /\ (r.bid = 0 \/ r.bid > table.highestBid)
            P == table.phase = "playing" /\ \E c \in Picks(table.hand[s]) : PlayAccepted(s, c)
            W == table.phase = "bidding" \/ ~Leads(table, s)
            C == CanAct(u)
            Moves == [join |-> J, leave |-> L, ready |-> R]
            Acts  == [bid |-> B, play |-> P, pass |-> W]
<1>1. Accepts(u, r) <=> IF r.path \in DOMAIN Moves THEN Moves[r.path] ELSE C /\ Acts[r.path]
  BY DEF Accepts
<1>. HIDE DEF J, L, R, B, P, W, C
<1>2. DOMAIN Moves = {"join", "leave", "ready"}
  OBVIOUS
<1>3. /\ r.path = "leave" => (Accepts(u, r) <=> L)
      /\ r.path = "ready" => (Accepts(u, r) <=> R)
      /\ r.path = "bid" => (Accepts(u, r) <=> C /\ B)
      /\ r.path = "play" => (Accepts(u, r) <=> C /\ P)
      /\ r.path = "pass" => (Accepts(u, r) <=> C /\ W)
  BY <1>1, <1>2
<1>. QED
  BY <1>3 DEF L, R, B, P, W, C, s

\* Where the viewer sits.
LEMMA ViewerSits ==
  ASSUME NEW u \in Users
  PROVE  /\ Seated(u) => /\ ViewerSeat(u) \in Seats /\ table.user[ViewerSeat(u)] = u
                         /\ ViewerSeat(u) \in Occupied(table)
         /\ CanAct(u) => /\ Seated(u) /\ HandActive(table) /\ ViewerSeat(u) = table.acting
                         /\ (table.phase = "bidding" \/ table.phase = "playing")
<1>1. u # NoUser
  BY LandlordAssumption
<1>2. Seated(u) => ViewerSeat(u) \in SeatOf(table, u)
  BY DEF Seated, ViewerSeat
<1>. QED
  BY <1>1, <1>2 DEF SeatOf, Occupied, CanAct, HandActive

\* The controls of the dock, one by one.
LEMMA Dock ==
  ASSUME NEW u, NEW r
  PROVE  r \in Controls(u) <=>
           \/ ~Seated(u) /\ r = Post("join", 0)
           \/ \E n \in 0..3 : r = Post("bid", n) /\ CanBid(u) /\ (n = 0 \/ n >= table.highestBid + 1)
           \/ CanPlay(u) /\ r = Post("play", 0)
           \/ CanPlay(u) /\ CanPass(u) /\ r = Post("pass", 0)
           \/ Seated(u) /\ ~HandActive(table) /\ r = Post("leave", 0)
           \/ CanStart(u) /\ ~table.ready[ViewerSeat(u)] /\ r = Post("ready", 0)
<1>1. \A n : n \in BidsOffered(u) <=> n \in 0..3 /\ CanBid(u) /\ (n = 0 \/ n >= table.highestBid + 1)
  BY DEF BidsOffered, If
<1>2. r \in Controls(u) <=>
        \/ r \in If(~Seated(u), {Post("join", 0)})
        \/ \E n \in BidsOffered(u) : r = Post("bid", n)
        \/ r \in If(CanPlay(u), {Post("play", 0)} \cup If(CanPass(u), {Post("pass", 0)}))
        \/ r \in If(Seated(u) /\ ~HandActive(table), {Post("leave", 0)})
        \/ r \in If(CanStart(u) /\ ~table.ready[ViewerSeat(u)], {Post("ready", 0)})
  BY DEF Controls
<1>3. (\E n \in BidsOffered(u) : r = Post("bid", n))
        <=> \E n \in 0..3 : r = Post("bid", n) /\ CanBid(u) /\ (n = 0 \/ n >= table.highestBid + 1)
  BY <1>1
<1>. QED
  BY <1>2, <1>3 DEF If

\* LandlordRoom.tsx, the dock: for every player, every table and every bid, what an
\* up-to-date picture offers is not refused, whoever is to act has a control that works,
\* and what the table would accept is offered.
THEOREM DockIsExact == Spec => []DockExact
<1>1. LInv /\ Held => DockExact
  <2>. SUFFICES ASSUME LInv, Held, NEW u \in Users
       PROVE  /\ \A r \in Controls(u) : r.path \in {"join", "play"} \/ Accepts(u, r)
              /\ CanAct(u) => \E r \in Controls(u) : Accepts(u, r)
              /\ \A n \in 0..3, path \in {"bid", "pass", "leave"} :
                   LET r == Post(path, n)
                   IN  (Accepts(u, r) /\ (path = "bid" \/ n = 0))
                         => r \in Controls(u) \/ (path = "pass" /\ Post("bid", 0) \in Controls(u))
    BY DEF DockExact
  <2>. DEFINE s == ViewerSeat(u)
  <2>1. table \in TableState /\ Bidding(table, bad) /\ Filled(table)
    BY InvParts
  <2>2. table.highestBid \in 0..3
    BY <2>1 DEF TableState
  <2>3. \A path, n : Post(path, n).path = path /\ Post(path, n).bid = n
    BY DEF Post
  <2>4. /\ Seated(u) => s \in Seats /\ s \in Occupied(table)
        /\ CanAct(u) => /\ Seated(u) /\ HandActive(table) /\ s = table.acting
                        /\ (table.phase = "bidding" \/ table.phase = "playing")
    BY ViewerSits
  <2>. HIDE DEF s
  <2>5. ASSUME NEW r \in Controls(u)  PROVE r.path \in {"join", "play"} \/ Accepts(u, r)
    <3>1. CASE \E n \in 0..3 : r = Post("bid", n) /\ CanBid(u) /\ (n = 0 \/ n >= table.highestBid + 1)
      <4>1. PICK n \in 0..3 : r = Post("bid", n) /\ CanBid(u) /\ (n = 0 \/ n >= table.highestBid + 1)
        BY <3>1
      <4>2. r.path = "bid" /\ r.bid = n /\ (n = 0 \/ n > table.highestBid)
        BY <2>2, <2>3, <4>1
      <4>. QED
        BY <4>1, <4>2, AcceptsWhat DEF CanBid
    <3>2. CASE CanPlay(u) /\ CanPass(u) /\ r = Post("pass", 0)
      BY <2>3, <3>2, AcceptsWhat DEF CanPlay, CanPass
    <3>3. CASE Seated(u) /\ ~HandActive(table) /\ r = Post("leave", 0)
      BY <2>3, <3>3, AcceptsWhat
    <3>4. CASE CanStart(u) /\ r = Post("ready", 0)
      <4>1. Seated(u) /\ ~HandActive(table) /\ s \in Playable(table)
        BY <2>4, <3>4 DEF CanStart, Playable, s
      <4>. QED
        BY <2>3, <3>4, <4>1, AcceptsWhat DEF s
    <3>5. CASE r = Post("join", 0) \/ r = Post("play", 0)
      BY <2>3, <3>5
    <3>. QED
      BY <3>1, <3>2, <3>3, <3>4, <3>5, Dock
  <2>6. ASSUME CanAct(u), table.phase = "bidding", NEW n \in 0..3, n = 0 \/ n > table.highestBid
        PROVE  Post("bid", n) \in Controls(u)
    <3>1. CanBid(u) /\ (n = 0 \/ n >= table.highestBid + 1)
      BY <2>1, <2>2, <2>6 DEF CanBid, Bidding
    <3>. QED
      BY <3>1, Dock
  <2>7. ASSUME CanAct(u)  PROVE \E r \in Controls(u) : Accepts(u, r)
    <3>1. CASE table.phase = "bidding"
      <4>1. 0 \in 0..3
        OBVIOUS
      <4>2. Post("bid", 0) \in Controls(u)
        BY <2>6, <2>7, <3>1, <4>1
      <4>3. Accepts(u, Post("bid", 0))
        BY <2>3, <2>7, <3>1, AcceptsWhat
      <4>. QED
        BY <4>2, <4>3
    <3>2. CASE table.phase = "playing" /\ ~Leads(table, s)
      <4>1. CanPlay(u) /\ CanPass(u)
        BY <2>7, <3>2 DEF CanPlay, CanPass, s
      <4>2. Post("pass", 0) \in Controls(u)
        BY <4>1, Dock
      <4>3. Accepts(u, Post("pass", 0))
        BY <2>3, <2>7, <3>2, AcceptsWhat DEF s
      <4>. QED
        BY <4>2, <4>3
    <3>3. CASE table.phase = "playing" /\ Leads(table, s)
      <4>1. Post("play", 0) \in Controls(u)
        <5>1. CanPlay(u)
          BY <2>7, <3>3 DEF CanPlay
        <5>. QED
          BY <5>1, Dock
      <4>. DEFINE h == table.hand[s]
      <4>2. h \in Cards /\ h # NoCards
        BY <2>4, <2>7 DEF Held
      <4>3. \E c \in Picks(table.hand[s]) : PlayAccepted(s, c)
        <5>1. Lowest(h) \in Picks(h) /\ Lowest(h) # NoCards /\ Holds(h, Lowest(h))
              /\ Classify(Lowest(h)) # NoCombination
          <6>. HIDE DEF h
          <6>. QED
            BY <4>2, LowestIsSingle
        <5>2. PlayAccepted(s, Lowest(h))
          BY <3>3, <5>1 DEF PlayAccepted
        <5>. QED
          BY <5>1, <5>2
      <4>4. Accepts(u, Post("play", 0))
        BY <2>3, <2>7, <3>3, <4>3, AcceptsWhat DEF s
      <4>. QED
        BY <4>1, <4>4
    <3>. QED
      BY <2>4, <2>7, <3>1, <3>2, <3>3
  <2>8. ASSUME NEW n \in 0..3, Accepts(u, Post("bid", n))  PROVE Post("bid", n) \in Controls(u)
    <3>1. CanAct(u) /\ table.phase = "bidding" /\ (n = 0 \/ n > table.highestBid)
      BY <2>3, <2>8, AcceptsWhat
    <3>. QED
      BY <2>6, <3>1
  <2>9. ASSUME Accepts(u, Post("pass", 0))
        PROVE  Post("pass", 0) \in Controls(u) \/ Post("bid", 0) \in Controls(u)
    <3>1. CanAct(u) /\ (table.phase = "bidding" \/ ~Leads(table, s))
      BY <2>3, <2>9, AcceptsWhat DEF s
    <3>2. CASE table.phase = "bidding"
      <4>1. 0 \in 0..3
        OBVIOUS
      <4>. QED
        BY <2>6, <3>1, <3>2, <4>1
    <3>3. CASE table.phase = "playing"
      <4>1. CanPlay(u) /\ CanPass(u)
        BY <3>1, <3>3 DEF CanPlay, CanPass, s
      <4>. QED
        BY <4>1, Dock
    <3>. QED
      BY <2>4, <3>1, <3>2, <3>3
  <2>10. ASSUME Accepts(u, Post("leave", 0))  PROVE Post("leave", 0) \in Controls(u)
    <3>1. Seated(u) /\ ~HandActive(table)
      BY <2>3, <2>10, AcceptsWhat
    <3>. QED
      BY <3>1, Dock
  <2>. QED
    BY <2>5, <2>7, <2>8, <2>9, <2>10
<1>. QED
  BY <1>1, HandsAreHeld, PTL
=============================================================================
