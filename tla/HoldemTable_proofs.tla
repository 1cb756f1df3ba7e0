------------------------- MODULE HoldemTable_proofs -------------------------
(***************************************************************************)
(* The hold'em table, for any number of seats and players and any blinds   *)
(* and buy-ins.                                                            *)
(*                                                                         *)
(* First: the table keeps its shape, and a running hand always waits for a *)
(* seat that has a decision to make.  The operations are compositions of a *)
(* few steps on a table, so the proof has a lemma for each step, then one  *)
(* for each operation.                                                     *)
(*                                                                         *)
(* Then: the table plays by the rules.  No chips are made, streets close   *)
(* matched, showdowns pay what was matched, nobody is skipped or raises    *)
(* out of turn, hole cards stay private, and the table is the card game    *)
(* that CardGame promises to the service.  What a step of the code does    *)
(* with a hand is a walk through several operations, some of them chosen   *)
(* by the outcome of others.  The proof first sums these walks up in       *)
(* relations between the table before and the table after: an Outcome      *)
(* follows a deal or an act, and every step is one of five kinds (Sits,    *)
(* Rises, Marks, Deals, Plays).  The invariants are then shown for the     *)
(* five kinds.                                                             *)
(***************************************************************************)
EXTENDS HoldemTable, Sums_proofs

-----------------------------------------------------------------------------
(* The ring of seats: the next seat, and sums over the seats *)

\* A seat lies 1 to MaxSeats clockwise steps away from any position.
LEMMA DistanceType ==
  ASSUME NEW from \in Seats \cup {NoSeat}, NEW s \in Seats
  PROVE  Distance(from, s) \in 1 .. MaxSeats
BY SeatsAssumption DEF Distance, Seats, NoSeat

\* NextIn finds a seat of any non-empty set, and the closest one.
LEMMA NextInType ==
  ASSUME NEW S \in SUBSET Seats, NEW from \in Seats \cup {NoSeat}
  PROVE  /\ S = {} => NextIn(S, from) = NoSeat
         /\ S # {} => /\ NextIn(S, from) \in S
                      /\ \A o \in S : Distance(from, NextIn(S, from)) <= Distance(from, o)
<1>1. CASE S = {}
  BY <1>1 DEF NextIn
<1>2. CASE S # {}
  <2>. DEFINE D == {Distance(from, s) : s \in S}
  <2>1. D \subseteq Nat /\ D # {}
    BY <1>2, DistanceType, SeatsAssumption
  <2>2. PICK d \in D : \A y \in D : d <= y
    BY <2>1, NatHasLeast
  <2>3. \E s \in S : \A o \in S : Distance(from, s) <= Distance(from, o)
    BY <2>2
  <2>. QED
    BY <1>2, <2>3 DEF NextIn
<1>. QED
  BY <1>1, <1>2

\* A sum of natural numbers over the seats is one, and bounds each of them.
LEMMA SeatSumType ==
  ASSUME NEW f \in [Seats -> Nat]
  PROVE  /\ SeatSum(f) \in Nat
         /\ \A s \in Seats : f[s] <= SeatSum(f)
<1>. DEFINE at(s) == IF s \in Seats THEN f[s] ELSE 0
<1>1. SeatSum(f) = at(0) + at(1) + at(2) + at(3) + at(4) + at(5) + at(6) + at(7)
  BY DEF SeatSum
<1>2. /\ at(0) \in Nat /\ at(1) \in Nat /\ at(2) \in Nat /\ at(3) \in Nat
      /\ at(4) \in Nat /\ at(5) \in Nat /\ at(6) \in Nat /\ at(7) \in Nat
  OBVIOUS
<1>3. ASSUME NEW s \in Seats
      PROVE  /\ f[s] = at(s)
             /\ s = 0 \/ s = 1 \/ s = 2 \/ s = 3 \/ s = 4 \/ s = 5 \/ s = 6 \/ s = 7
  BY SeatsAssumption DEF Seats
<1>. HIDE DEF at
<1>. QED
  BY <1>1, <1>2, <1>3

\* Among the seats of a non-empty set, one has the largest amount.
LEMMA SeatMax ==
  ASSUME NEW f \in [Seats -> Nat], NEW S \in SUBSET Seats, S # {}
  PROVE  \E s \in S : \A o \in S : f[o] <= f[s]
<1>. DEFINE D == {SeatSum(f) - f[s] : s \in S}
<1>1. D \subseteq Nat /\ D # {}
  BY SeatSumType
<1>2. PICK d \in D : \A y \in D : d <= y
  <2>. HIDE DEF D
  <2>. QED  BY <1>1, NatHasLeast
<1>3. PICK s \in S : d = SeatSum(f) - f[s]
  OBVIOUS
<1>4. \A o \in S : SeatSum(f) - f[s] <= SeatSum(f) - f[o]
  BY <1>2, <1>3
<1>. QED
  BY <1>4, SeatSumType

\* Sums of integers.
LEMMA SeatSumInt ==
  ASSUME NEW f \in [Seats -> Int]
  PROVE  SeatSum(f) \in Int
BY DEF SeatSum

\* A sum of larger amounts is larger.
LEMMA SeatSumMonotone ==
  ASSUME NEW f \in [Seats -> Int], NEW g \in [Seats -> Int],
         \A s \in Seats : f[s] <= g[s]
  PROVE  SeatSum(f) <= SeatSum(g)
<1>. DEFINE at(h, s) == IF s \in Seats THEN h[s] ELSE 0
<1>1. \A i \in 0..7 : at(f, i) \in Int /\ at(g, i) \in Int /\ at(f, i) <= at(g, i)
  OBVIOUS
<1>2. /\ SeatSum(f) = at(f,0) + at(f,1) + at(f,2) + at(f,3) + at(f,4) + at(f,5) + at(f,6) + at(f,7)
      /\ SeatSum(g) = at(g,0) + at(g,1) + at(g,2) + at(g,3) + at(g,4) + at(g,5) + at(g,6) + at(g,7)
  BY DEF SeatSum
<1>. HIDE DEF at
<1>. QED
  BY <1>1, <1>2

\* The sum of sums.
LEMMA SeatSumAdd ==
  ASSUME NEW f \in [Seats -> Int], NEW g \in [Seats -> Int]
  PROVE  SeatSum([s \in Seats |-> f[s] + g[s]]) = SeatSum(f) + SeatSum(g)
<1>. DEFINE at(h, s) == IF s \in Seats THEN h[s] ELSE 0
            sum == [s \in Seats |-> f[s] + g[s]]
<1>1. \A i \in 0..7 : at(f, i) \in Int /\ at(g, i) \in Int /\ at(sum, i) = at(f, i) + at(g, i)
  OBVIOUS
<1>2. /\ SeatSum(f) = at(f,0) + at(f,1) + at(f,2) + at(f,3) + at(f,4) + at(f,5) + at(f,6) + at(f,7)
      /\ SeatSum(g) = at(g,0) + at(g,1) + at(g,2) + at(g,3) + at(g,4) + at(g,5) + at(g,6) + at(g,7)
      /\ SeatSum(sum) = at(sum,0) + at(sum,1) + at(sum,2) + at(sum,3) + at(sum,4) + at(sum,5) + at(sum,6) + at(sum,7)
  BY DEF SeatSum
<1>. HIDE DEF at, sum
<1>. QED
  BY <1>1, <1>2 DEF sum

\* A change at one seat changes the sum as much.
LEMMA SeatSumUpdate ==
  ASSUME NEW f \in [Seats -> Int], NEW g \in [Seats -> Int], NEW r \in Seats,
         \A s \in Seats \ {r} : f[s] = g[s]
  PROVE  SeatSum(g) = SeatSum(f) + g[r] - f[r]
<1>. DEFINE at(h, s) == IF s \in Seats THEN h[s] ELSE 0
<1>1. /\ \A i \in 0..7 : at(f, i) \in Int /\ at(g, i) \in Int /\ (i # r => at(f, i) = at(g, i))
      /\ at(f, r) = f[r] /\ at(g, r) = g[r]
  OBVIOUS
<1>2. /\ SeatSum(f) = at(f,0) + at(f,1) + at(f,2) + at(f,3) + at(f,4) + at(f,5) + at(f,6) + at(f,7)
      /\ SeatSum(g) = at(g,0) + at(g,1) + at(g,2) + at(g,3) + at(g,4) + at(g,5) + at(g,6) + at(g,7)
  BY DEF SeatSum
<1>3. r = 0 \/ r = 1 \/ r = 2 \/ r = 3 \/ r = 4 \/ r = 5 \/ r = 6 \/ r = 7
  BY SeatsAssumption DEF Seats
<1>. HIDE DEF at
<1>. QED
  BY <1>1, <1>2, <1>3

\* Rows first or columns first: the sum of a square of amounts is the same.
LEMMA SeatSumExchange ==
  ASSUME NEW F \in [Seats -> [Seats -> Int]]
  PROVE  SeatSum([s \in Seats |-> SeatSum(F[s])])
           = SeatSum([r \in Seats |-> SeatSum([s \in Seats |-> F[s][r]])])
<1>. DEFINE at(s, r) == IF s \in Seats /\ r \in Seats THEN F[s][r] ELSE 0
            rows == [s \in Seats |-> SeatSum(F[s])]
            columns == [r \in Seats |-> SeatSum([s \in Seats |-> F[s][r]])]
            row(s) == at(s,0) + at(s,1) + at(s,2) + at(s,3) + at(s,4) + at(s,5) + at(s,6) + at(s,7)
            column(r) == at(0,r) + at(1,r) + at(2,r) + at(3,r) + at(4,r) + at(5,r) + at(6,r) + at(7,r)
<1>1. \A s, r \in 0..7 : at(s, r) \in Int
  OBVIOUS
<1>2. \A s \in 0..7 : (IF s \in Seats THEN rows[s] ELSE 0) = row(s)
  BY DEF SeatSum
<1>3. \A r \in 0..7 : (IF r \in Seats THEN columns[r] ELSE 0) = column(r)
  BY DEF SeatSum
<1>4. SeatSum(rows) = row(0) + row(1) + row(2) + row(3) + row(4) + row(5) + row(6) + row(7)
  <2>. HIDE DEF rows, row
  <2>. QED BY <1>2 DEF SeatSum
<1>5. SeatSum(columns) = column(0) + column(1) + column(2) + column(3) + column(4) + column(5) + column(6) + column(7)
  <2>. HIDE DEF columns, column
  <2>. QED BY <1>3 DEF SeatSum
<1>. HIDE DEF at
<1>6. SeatSum(rows) = SeatSum(columns)
  <2>. HIDE DEF rows, columns
  <2>. QED BY <1>1, <1>4, <1>5
<1>. QED
  BY <1>6

-----------------------------------------------------------------------------
(* What the refund and the award of the pot return, for any amounts *)

\* Any set of seats is finite; a non-empty one has a positive number of members.
LEMMA SeatsFinite ==
  ASSUME NEW S \in SUBSET Seats
  PROVE  /\ IsFiniteSet(S)
         /\ Cardinality(S) \in Nat
         /\ S # {} => Cardinality(S) > 0
<1>1. IsFiniteSet(Seats)
  BY FS_Interval, SeatsAssumption DEF Seats
<1>2. IsFiniteSet(S)
  BY <1>1, FS_Subset
<1>. QED
  BY <1>2, FS_CardinalityType, FS_EmptySet

\* The refund takes nothing back that was not committed.
LEMMA RefundType ==
  ASSUME NEW committed \in [Seats -> Nat]
  PROVE  /\ Refund(committed) \in [Seats -> Nat]
         /\ \A s \in Seats : Refund(committed)[s] <= committed[s]
<1>1. ASSUME NEW s \in SoleLeader(committed)
      PROVE  /\ Matched(committed, s) \in Nat
             /\ Matched(committed, s) <= committed[s]
  <2>. 0 \in Seats /\ 1 \in Seats
    BY SeatsAssumption DEF Seats
  <2>1. s \in Seats /\ Seats \ {s} # {}
    BY DEF SoleLeader
  <2>2. PICK m \in Seats \ {s} : \A o \in Seats \ {s} : committed[o] <= committed[m]
    BY <2>1, SeatMax
  <2>3. /\ Matched(committed, s) \in {committed[o] : o \in Seats \ {s}}
        /\ \A o \in Seats \ {s} : committed[o] <= Matched(committed, s)
    BY <2>2 DEF Matched
  <2>. QED
    BY <2>1, <2>3 DEF SoleLeader
<1>. QED
  BY <1>1 DEF Refund

\* A layer starts at the largest amount committed below its top, or at zero.
LEMMA BelowLargest ==
  ASSUME NEW committed \in [Seats -> Nat], NEW top \in Nat, top > 0
  PROVE  /\ Below(committed, top) \in {0} \cup {committed[o] : o \in Seats}
         /\ Below(committed, top) < top
         /\ \A o \in Seats : committed[o] < top => committed[o] <= Below(committed, top)
<1>. DEFINE S == {o \in Seats : committed[o] < top}
            P(b) == b < top /\ \A o \in Seats : committed[o] < top => committed[o] <= b
<1>1. \E b \in {0} \cup {committed[o] : o \in Seats} : P(b)
  <2>1. CASE S = {}
    BY <2>1
  <2>2. CASE S # {}
    <3>1. PICK m \in S : \A o \in S : committed[o] <= committed[m]
      BY <2>2, SeatMax
    <3>. QED
      BY <3>1
  <2>. QED
    BY <2>1, <2>2
<1>. QED
  BY <1>1 DEF Below

\* So it starts below its top.
LEMMA BelowType ==
  ASSUME NEW committed \in [Seats -> Nat], NEW top \in Nat, top > 0
  PROVE  Below(committed, top) \in Nat /\ Below(committed, top) < top
BY BelowLargest

\* A layer holds a natural number of chips.
LEMMA LayerAmountType ==
  ASSUME NEW committed \in [Seats -> Nat], NEW top \in Nat, top > 0
  PROVE  LayerAmount(committed, top) \in Nat
<1>1. Cardinality(Contributors(committed, top)) \in Nat
  BY SeatsFinite DEF Contributors
<1>2. top - Below(committed, top) \in Nat
  BY BelowType
<1>. HIDE DEF Below
<1>. QED
  BY <1>1, <1>2 DEF LayerAmount

\* A winner's share is a natural number of chips.
LEMMA ShareType ==
  ASSUME NEW amount \in Nat, NEW winners \in SUBSET Seats,
         NEW s \in winners, NEW button
  PROVE  Share(amount, winners, button, s) \in Nat
<1>1. Cardinality(winners) \in Nat /\ Cardinality(winners) > 0
  BY SeatsFinite
<1>2. amount \div Cardinality(winners) \in Nat
  BY <1>1
<1>. QED
  BY <1>2 DEF Share

\* What a seat wins is a natural number of chips, and none after folding.
LEMMA PayoutType ==
  ASSUME NEW committed \in [Seats -> Nat], NEW contesting \in SUBSET Seats,
         NEW rank, NEW button
  PROVE  /\ Payout(committed, contesting, rank, button) \in [Seats -> Nat]
         /\ \A s \in Seats \ contesting :
              Payout(committed, contesting, rank, button)[s] = 0
<1>. DEFINE W(r) == LayerWinners(committed, contesting, rank, committed[r])
            part(s) == [r \in Seats |->
              IF NamesLayer(committed, r) /\ s \in W(r)
                THEN Share(LayerAmount(committed, committed[r]), W(r), button, s)
                ELSE 0]
<1>1. Payout(committed, contesting, rank, button) = [s \in Seats |-> SeatSum(part(s))]
  BY DEF Payout
<1>2. \A r \in Seats : W(r) \in SUBSET (Seats \cap contesting)
  BY DEF LayerWinners, Contributors
<1>3. ASSUME NEW s \in Seats  PROVE part(s) \in [Seats -> Nat]
  <2>1. ASSUME NEW r \in Seats, NamesLayer(committed, r), s \in W(r)
        PROVE  Share(LayerAmount(committed, committed[r]), W(r), button, s) \in Nat
    <3>1. LayerAmount(committed, committed[r]) \in Nat
      BY <2>1, LayerAmountType DEF NamesLayer
    <3>. QED
      BY <2>1, <3>1, <1>2, ShareType
  <2>. QED
    BY <2>1
<1>4. ASSUME NEW s \in Seats \ contesting  PROVE SeatSum(part(s)) = 0
  <2>1. part(s) = [r \in Seats |-> 0]
    BY <1>2, <1>4
  <2>2. SeatSum([r \in Seats |-> 0]) = 0
    BY DEF SeatSum
  <2>. QED
    BY <2>1, <2>2
<1>. HIDE DEF part
<1>. QED
  BY <1>1, <1>3, <1>4, SeatSumType

-----------------------------------------------------------------------------
(* Sharing a layer *)

\* The same amount for every seat of a set.
LEMMA SeatSumScaled ==
  ASSUME NEW A \in SUBSET Seats, NEW c \in Int
  PROVE  SeatSum([s \in Seats |-> IF s \in A THEN c ELSE 0]) = c * Cardinality(A)
<1>. DEFINE below(i) == Cardinality(A \cap 0..(i - 1))
            at(i) == IF i \in A THEN c ELSE 0
<1>1. SeatSum([s \in Seats |-> IF s \in A THEN c ELSE 0])
        = at(0) + at(1) + at(2) + at(3) + at(4) + at(5) + at(6) + at(7)
  BY DEF SeatSum
<1>2. ASSUME NEW i \in 0..7
      PROVE  /\ below(i) \in Nat
             /\ c * below(i + 1) = c * below(i) + at(i)
  <2>1. /\ IsFiniteSet(A \cap 0..(i - 1)) /\ below(i) \in Nat
        /\ i \notin A \cap 0..(i - 1)
    BY SeatsFinite
  <2>2. CASE i \in A
    <3>1. A \cap 0..(i + 1 - 1) = (A \cap 0..(i - 1)) \cup {i}
      BY <2>2
    <3>2. below(i + 1) = below(i) + 1
      BY <2>1, <3>1, FS_AddElement
    <3>. HIDE DEF below
    <3>. QED
      BY <2>1, <2>2, <3>2
  <2>3. CASE i \notin A
    <3>1. A \cap 0..(i + 1 - 1) = A \cap 0..(i - 1)
      BY <2>3
    <3>2. below(i + 1) = below(i)
      BY <3>1
    <3>. HIDE DEF below
    <3>. QED
      BY <2>1, <2>3, <3>2
  <2>. QED
    BY <2>1, <2>2, <2>3
<1>3. below(0) = 0
  BY FS_EmptySet
<1>4. below(8) = Cardinality(A)
  <2>1. \A s \in A : s \in 0..(8 - 1)
    BY SeatsAssumption DEF Seats
  <2>. QED
    BY <2>1
<1>5. \A i \in 0..7 : at(i) \in Int
  OBVIOUS
<1>. HIDE DEF below, at
<1>6. c * below(8) = at(0) + at(1) + at(2) + at(3) + at(4) + at(5) + at(6) + at(7)
  <2>. DEFINE m(i) == c * below(i)
  <2>1. m(0) = 0
    BY <1>3
  <2>2. \A i \in 0..7 : m(i + 1) = m(i) + at(i)
    BY <1>2
  <2>. HIDE DEF m
  <2>3. m(8) = at(0) + at(1) + at(2) + at(3) + at(4) + at(5) + at(6) + at(7)
    BY <2>1, <2>2, <1>5
  <2>. QED
    BY <2>3 DEF m
<1>. QED
  BY <1>1, <1>4, <1>6

\* Different seats lie at different distances.
LEMMA DistanceInjective ==
  ASSUME NEW from \in Seats \cup {NoSeat}, NEW s \in Seats, NEW o \in Seats,
         Distance(from, s) = Distance(from, o)
  PROVE  s = o
<1>1. \/ MaxSeats = 2 \/ MaxSeats = 3 \/ MaxSeats = 4 \/ MaxSeats = 5
      \/ MaxSeats = 6 \/ MaxSeats = 7 \/ MaxSeats = 8
  BY SeatsAssumption
<1>. QED
  BY <1>1 DEF Distance, Seats, NoSeat

\* A set of seats that are numbered differently below n has at most n members.
LEMMA SeatsNumbered ==
  ASSUME NEW A \in SUBSET Seats, NEW a \in Nat, NEW n \in Nat, a <= n, NEW number,
         \A s \in A : number[s] \in a..(n - 1),
         \A s, o \in A : number[s] = number[o] => s = o
  PROVE  Cardinality(A) <= n - a
<1>1. SUFFICES ASSUME Cardinality(A) > n - a  PROVE FALSE
  BY SeatsFinite
<1>. DEFINE T == a..(n - 1)
            f == [s \in A |-> number[s]]
<1>2. IsFiniteSet(T) /\ Cardinality(T) = n - a
  BY FS_Interval
<1>3. IsFiniteSet(A) /\ Cardinality(A) \in Nat
  BY SeatsFinite
<1>4. f \in [A -> T]
  OBVIOUS
<1>. HIDE DEF T, f
<1>5. \E x, y \in A : x # y /\ f[x] = f[y]
  BY <1>1, <1>2, <1>3, <1>4, FS_PigeonHole
<1>. QED
  BY <1>5 DEF f

\* Of the winners of a layer, exactly the first k on the button's left have
\* fewer than k winners ahead of them.
LEMMA FirstWinners ==
  ASSUME NEW W \in SUBSET Seats, NEW button \in Seats \cup {NoSeat},
         NEW k \in 0..Cardinality(W)
  PROVE  LET ahead(s) == {o \in W : Distance(button, o) < Distance(button, s)}
         IN  Cardinality({s \in W : Cardinality(ahead(s)) < k}) = k
<1>. DEFINE ahead(s) == {o \in W : Distance(button, o) < Distance(button, s)}
            number == [s \in W |-> Cardinality(ahead(s))]
            n == Cardinality(W)
            first == {s \in W : Cardinality(ahead(s)) < k}
            later == W \ first
<1>1. IsFiniteSet(W) /\ n \in Nat
  BY SeatsFinite
<1>2. ASSUME NEW s \in W
      PROVE  number[s] \in 0..(n - 1)
  <2>1. ahead(s) \in SUBSET (W \ {s}) /\ ahead(s) \in SUBSET Seats
    BY DistanceType
  <2>2. IsFiniteSet(W \ {s}) /\ Cardinality(W \ {s}) = n - 1
    BY <1>1, FS_RemoveElement
  <2>3. Cardinality(ahead(s)) <= n - 1
    BY <2>1, <2>2, FS_Subset
  <2>4. Cardinality(ahead(s)) \in Nat
    BY <2>1, SeatsFinite
  <2>. HIDE DEF ahead, n
  <2>. QED
    BY <1>1, <2>3, <2>4
<1>3. ASSUME NEW s \in W, NEW o \in W, Distance(button, s) < Distance(button, o)
      PROVE  number[s] < number[o]
  <2>1. /\ ahead(s) \in SUBSET Seats /\ ahead(o) \in SUBSET Seats
        /\ s \notin ahead(s) /\ ahead(s) \cup {s} \in SUBSET ahead(o)
    BY <1>3, DistanceType
  <2>2. IsFiniteSet(ahead(s)) /\ IsFiniteSet(ahead(o))
    BY <2>1, SeatsFinite
  <2>3. Cardinality(ahead(s) \cup {s}) = Cardinality(ahead(s)) + 1
    BY <2>1, <2>2, FS_AddElement
  <2>4. Cardinality(ahead(s) \cup {s}) <= Cardinality(ahead(o))
    BY <2>1, <2>2, FS_Subset
  <2>5. Cardinality(ahead(s)) \in Nat /\ Cardinality(ahead(o)) \in Nat
    BY <2>1, SeatsFinite
  <2>. HIDE DEF ahead
  <2>. QED
    BY <2>3, <2>4, <2>5
<1>4. \A s, o \in W : number[s] = number[o] => s = o
  <2>. SUFFICES ASSUME NEW s \in W, NEW o \in W, number[s] = number[o]  PROVE s = o
    OBVIOUS
  <2>1. number[s] \in Int /\ number[o] \in Int
    BY <1>1, <1>2
  <2>. HIDE DEF number
  <2>2. ~(Distance(button, s) < Distance(button, o)) /\ ~(Distance(button, o) < Distance(button, s))
    BY <1>3, <2>1
  <2>3. Distance(button, s) = Distance(button, o)
    BY <2>2, DistanceType, SeatsAssumption
  <2>. QED
    BY <2>3, DistanceInjective
<1>5. /\ \A s \in first : number[s] \in 0..(k - 1)
      /\ \A s \in later : number[s] \in k..(n - 1)
  <2>1. first = {s \in W : number[s] < k}
    OBVIOUS
  <2>. HIDE DEF first, number, n
  <2>. QED
    BY <1>1, <1>2, <2>1
<1>. HIDE DEF number
<1>6. Cardinality(first) <= k
  <2>1. Cardinality(first) <= k - 0
    <3>1. first \in SUBSET Seats /\ \A s, o \in first : number[s] = number[o] => s = o
      BY <1>4
    <3>. HIDE DEF first
    <3>. QED
      BY <1>1, <1>5, <3>1, SeatsNumbered
  <2>. QED
    BY <2>1
<1>7. Cardinality(later) <= n - k
  <2>1. later \in SUBSET Seats /\ \A s, o \in later : number[s] = number[o] => s = o
    BY <1>4
  <2>. HIDE DEF later, n
  <2>. QED
    BY <1>1, <1>5, <2>1, SeatsNumbered, SMTT(60) DEF n
<1>8. Cardinality(later) = n - Cardinality(first)
  <2>1. W \cap first = first
    OBVIOUS
  <2>. QED
    BY <1>1, <2>1, FS_Difference, ZenonT(60)
<1>9. Cardinality(first) \in Nat
  BY SeatsFinite
<1>. HIDE DEF first, later, n
<1>10. Cardinality(first) = k
  BY <1>1, <1>6, <1>7, <1>8, <1>9 DEF n
<1>. QED
  BY <1>10 DEF first

\* The winners' shares of a layer add up to the layer.
LEMMA SharesAddUp ==
  ASSUME NEW amount \in Nat, NEW W \in SUBSET Seats, W # {},
         NEW button \in Seats \cup {NoSeat}
  PROVE  SeatSum([s \in Seats |-> IF s \in W THEN Share(amount, W, button, s) ELSE 0])
           = amount
<1>. DEFINE n == Cardinality(W)
            each == amount \div n
            odd == amount % n
            ahead(s) == {o \in W : Distance(button, o) < Distance(button, s)}
            first == {s \in W : Cardinality(ahead(s)) < odd}
            equal == [s \in Seats |-> IF s \in W THEN each ELSE 0]
            extra == [s \in Seats |-> IF s \in first THEN 1 ELSE 0]
            share == [s \in Seats |-> IF s \in W THEN Share(amount, W, button, s) ELSE 0]
<1>1. n \in Nat \ {0}
  BY SeatsFinite
<1>2. each \in Nat /\ odd \in 0..(n - 1) /\ amount = each * n + odd
  <2>. HIDE DEF n
  <2>. QED BY <1>1
<1>3. share = [s \in Seats |-> equal[s] + extra[s]]
  <2>1. ASSUME NEW s \in W
        PROVE  Share(amount, W, button, s) = each + (IF s \in first THEN 1 ELSE 0)
    BY DEF Share
  <2>2. first \subseteq W
    OBVIOUS
  <2>. HIDE DEF each, first
  <2>. QED BY <1>2, <2>1, <2>2
<1>4. equal \in [Seats -> Int] /\ extra \in [Seats -> Int]
  <2>. HIDE DEF each, first
  <2>. QED BY <1>2
<1>5. SeatSum(share) = SeatSum(equal) + SeatSum(extra)
  <2>. HIDE DEF share, equal, extra
  <2>. QED BY <1>3, <1>4, SeatSumAdd
<1>6. SeatSum(equal) = each * n
  <2>. HIDE DEF each
  <2>. QED BY <1>2, SeatSumScaled
<1>7. SeatSum(extra) = odd
  <2>1. Cardinality(first) = odd
    <3>. HIDE DEF odd, n
    <3>1. odd \in 0..Cardinality(W)
      BY <1>1, <1>2 DEF n
    <3>. QED
      BY <3>1, FirstWinners
  <2>2. SeatSum(extra) = 1 * Cardinality(first)
    <3>1. first \in SUBSET Seats /\ 1 \in Int
      OBVIOUS
    <3>. HIDE DEF first
    <3>. QED  BY <3>1, SeatSumScaled
  <2>. HIDE DEF extra, first
  <2>. QED
    BY <1>1, <1>2, <2>1, <2>2
<1>. HIDE DEF share, equal, extra, each, odd, n
<1>8. SeatSum(share) = amount
  BY <1>2, <1>5, <1>6, <1>7
<1>. QED
  BY <1>8 DEF share

-----------------------------------------------------------------------------
(* The layers of the pot *)

\* The sizes of the layers up to an amount that was committed.
LayersUpTo(committed, amount) ==
  [r \in Seats |-> IF NamesLayer(committed, r) /\ committed[r] <= amount
                     THEN committed[r] - Below(committed, committed[r]) ELSE 0]

\* A layer has an integer size.
LEMMA LayersUpToType ==
  ASSUME NEW committed \in [Seats -> Nat], NEW v \in Nat
  PROVE  LayersUpTo(committed, v) \in [Seats -> Int]
<1>1. \A r \in Seats : NamesLayer(committed, r) => Below(committed, committed[r]) \in Nat
  BY BelowType DEF NamesLayer
<1>. QED
  BY <1>1 DEF LayersUpTo

\* The layers leave no gap and do not overlap: up to an amount that some seat
\* committed they add up to that amount.
LEMMA LayersAddUp ==
  ASSUME NEW committed \in [Seats -> Nat],
         NEW amount \in {0} \cup {committed[o] : o \in Seats}
  PROVE  SeatSum(LayersUpTo(committed, amount)) = amount
<1>. DEFINE amounts == {0} \cup {committed[o] : o \in Seats}
            wrong == {v \in amounts : SeatSum(LayersUpTo(committed, v)) # v}
<1>1. SUFFICES ASSUME wrong # {}  PROVE FALSE
  OBVIOUS
<1>2. PICK v \in wrong : \A u \in wrong : v <= u
  <2>1. wrong \subseteq Nat
    OBVIOUS
  <2>. HIDE DEF wrong
  <2>. QED  BY <1>1, <2>1, NatHasLeast
<1>3. v \in Nat
  OBVIOUS
<1>4. CASE v = 0
  <2>1. LayersUpTo(committed, v) = [r \in Seats |-> 0]
    BY <1>4 DEF LayersUpTo, NamesLayer
  <2>2. SeatSum([r \in Seats |-> 0]) = 0
    BY DEF SeatSum
  <2>. QED
    BY <1>4, <2>1, <2>2
<1>5. CASE v > 0
  <2>. DEFINE b == Below(committed, v)
              same == {o \in Seats : committed[o] = v}
  <2>1. b \in amounts /\ b < v /\ \A o \in Seats : committed[o] < v => committed[o] <= b
    BY <1>3, <1>5, BelowLargest
  <2>2. SeatSum(LayersUpTo(committed, b)) = b /\ b \in Nat
    <3>. HIDE DEF b
    <3>. QED  BY <1>2, <1>3, <2>1
  <2>3. PICK r \in same : \A o \in same : r <= o
    <3>1. same # {} /\ same \subseteq Nat
      BY <1>5, SeatsAssumption DEF Seats
    <3>. HIDE DEF same
    <3>. QED  BY <3>1, NatHasLeast
  <2>4. r \in Seats /\ committed[r] = v /\ NamesLayer(committed, r)
    BY <1>5, <2>3 DEF NamesLayer
  <2>5. ASSUME NEW o \in Seats \ {r}
        PROVE  LayersUpTo(committed, b)[o] = LayersUpTo(committed, v)[o]
    <3>1. NamesLayer(committed, o) => committed[o] # v
      BY <2>4, SeatsAssumption DEF NamesLayer, Seats
    <3>2. NamesLayer(committed, o) => (committed[o] <= v <=> committed[o] <= b)
      <4>1. committed[o] \in Nat
        OBVIOUS
      <4>. HIDE DEF b
      <4>. QED  BY <1>3, <2>1, <2>2, <3>1, <4>1
    <3>. HIDE DEF b
    <3>. QED
      BY <3>2 DEF LayersUpTo
  <2>6. LayersUpTo(committed, v)[r] = v - b /\ LayersUpTo(committed, b)[r] = 0
    <3>1. ~(v <= b)
      <4>. HIDE DEF b
      <4>. QED  BY <1>3, <2>1, <2>2
    <3>. QED  BY <1>3, <2>4, <3>1 DEF LayersUpTo
  <2>. HIDE DEF b
  <2>7. SeatSum(LayersUpTo(committed, v)) = b + (v - b) - 0
    BY <1>3, <2>2, <2>4, <2>5, <2>6, LayersUpToType, SeatSumUpdate, ZenonT(60)
  <2>. QED
    BY <1>2, <1>3, <2>2, <2>7
<1>. QED
  BY <1>3, <1>4, <1>5

\* The part of what the seats committed that reaches up to an amount.
MatchedUpTo(committed, amount) ==
  [o \in Seats |-> IF committed[o] <= amount THEN committed[o] ELSE amount]

\* The chips in the layers up to an amount.
PotsUpTo(committed, amount) ==
  [r \in Seats |-> IF NamesLayer(committed, r) /\ committed[r] <= amount
                     THEN LayerAmount(committed, committed[r]) ELSE 0]

\* The layers up to the amount of a seat hold what the seats committed up to it.
LEMMA PotsHoldMatched ==
  ASSUME NEW committed \in [Seats -> Nat], NEW m \in Seats
  PROVE  SeatSum(PotsUpTo(committed, committed[m]))
           = SeatSum(MatchedUpTo(committed, committed[m]))
<1>. DEFINE v == committed[m]
            size(r) == committed[r] - Below(committed, committed[r])
            low(o) == IF committed[o] <= v THEN committed[o] ELSE v
            F == [r \in Seats |-> [o \in Seats |->
                   IF NamesLayer(committed, r) /\ committed[r] <= v /\ committed[o] >= committed[r]
                     THEN size(r) ELSE 0]]
<1>1. v \in Nat
  OBVIOUS
<1>2. ASSUME NEW r \in Seats, NamesLayer(committed, r)
      PROVE  size(r) \in Nat
  BY <1>2, BelowType DEF NamesLayer
<1>3. F \in [Seats -> [Seats -> Int]]
  <2>. HIDE DEF size
  <2>. QED  BY <1>2
<1>4. ASSUME NEW r \in Seats
      PROVE  SeatSum(F[r]) = PotsUpTo(committed, v)[r]
  <2>1. CASE NamesLayer(committed, r) /\ committed[r] <= v
    <3>. DEFINE A == Contributors(committed, committed[r])
    <3>1. F[r] = [o \in Seats |-> IF o \in A THEN size(r) ELSE 0]
      BY <2>1 DEF Contributors
    <3>2. A \in SUBSET Seats /\ size(r) \in Int
      BY <1>2, <2>1 DEF Contributors
    <3>3. SeatSum(F[r]) = size(r) * Cardinality(A)
      <4>. HIDE DEF size, A, F
      <4>. QED  BY <3>1, <3>2, SeatSumScaled
    <3>. QED
      BY <2>1, <3>3 DEF LayerAmount, PotsUpTo
  <2>2. CASE ~(NamesLayer(committed, r) /\ committed[r] <= v)
    <3>1. F[r] = [o \in Seats |-> 0]
      BY <2>2
    <3>2. SeatSum([o \in Seats |-> 0]) = 0
      BY DEF SeatSum
    <3>. QED
      BY <2>2, <3>1, <3>2 DEF PotsUpTo
  <2>. QED
    BY <2>1, <2>2
<1>5. ASSUME NEW o \in Seats
      PROVE  SeatSum([r \in Seats |-> F[r][o]]) = low(o)
  <2>1. low(o) \in {0} \cup {committed[q] : q \in Seats}
    OBVIOUS
  <2>2. [r \in Seats |-> F[r][o]] = LayersUpTo(committed, low(o))
    <3>1. ASSUME NEW r \in Seats
          PROVE  F[r][o] = LayersUpTo(committed, low(o))[r]
      <4>1. (committed[r] <= v /\ committed[o] >= committed[r]) <=> committed[r] <= low(o)
        OBVIOUS
      <4>. HIDE DEF low, v
      <4>. QED  BY <4>1 DEF LayersUpTo
    <3>2. LayersUpTo(committed, low(o)) = [r \in Seats |-> LayersUpTo(committed, low(o))[r]]
      BY DEF LayersUpTo
    <3>. HIDE DEF F, low
    <3>. QED  BY <3>1, <3>2
  <2>. HIDE DEF F, low
  <2>. QED
    BY <2>1, <2>2, LayersAddUp
<1>6. [r \in Seats |-> SeatSum(F[r])] = PotsUpTo(committed, v)
  <2>1. PotsUpTo(committed, v) = [r \in Seats |-> PotsUpTo(committed, v)[r]]
    BY DEF PotsUpTo
  <2>. HIDE DEF F, v
  <2>. QED  BY <1>4, <2>1
<1>7. [o \in Seats |-> SeatSum([r \in Seats |-> F[r][o]])] = MatchedUpTo(committed, v)
  <2>1. MatchedUpTo(committed, v) = [o \in Seats |-> low(o)]
    BY DEF MatchedUpTo
  <2>. HIDE DEF F, v, low
  <2>. QED  BY <1>5, <2>1
<1>. HIDE DEF F, v
<1>8. SeatSum(PotsUpTo(committed, v)) = SeatSum(MatchedUpTo(committed, v))
  BY <1>3, <1>6, <1>7, SeatSumExchange
<1>. QED
  BY <1>8 DEF v

-----------------------------------------------------------------------------
(* The award of the pot *)

\* What is paid out of each layer: all of it, when somebody competes for it.
PaidLayers(committed, contesting, rank) ==
  [r \in Seats |->
     IF NamesLayer(committed, r)
        /\ LayerWinners(committed, contesting, rank, committed[r]) # {}
       THEN LayerAmount(committed, committed[r]) ELSE 0]

\* A winner's share is no more than the layer.
LEMMA ShareBounded ==
  ASSUME NEW amount \in Nat, NEW winners \in SUBSET Seats, NEW s \in winners,
         NEW button \in Seats \cup {NoSeat}
  PROVE  Share(amount, winners, button, s) <= amount
<1>. DEFINE share == [o \in Seats |->
                        IF o \in winners THEN Share(amount, winners, button, o) ELSE 0]
<1>1. share \in [Seats -> Nat]
  BY ShareType
<1>2. share[s] = Share(amount, winners, button, s)
  OBVIOUS
<1>3. SeatSum(share) = amount
  BY SharesAddUp
<1>. HIDE DEF share
<1>4. share[s] <= SeatSum(share)
  BY <1>1, SeatSumType
<1>. QED
  BY <1>2, <1>3, <1>4

\* What the seats win altogether is what is paid out of the layers.
LEMMA PayoutTotal ==
  ASSUME NEW committed \in [Seats -> Nat], NEW contesting \in SUBSET Seats,
         NEW rank, NEW button \in Seats \cup {NoSeat}
  PROVE  SeatSum(Payout(committed, contesting, rank, button))
           = SeatSum(PaidLayers(committed, contesting, rank))
<1>. DEFINE W(r) == LayerWinners(committed, contesting, rank, committed[r])
            won == [s \in Seats |-> [r \in Seats |->
                      IF NamesLayer(committed, r) /\ s \in W(r)
                        THEN Share(LayerAmount(committed, committed[r]), W(r), button, s)
                        ELSE 0]]
            column(r) == [s \in Seats |-> won[s][r]]
            paid == PaidLayers(committed, contesting, rank)
<1>1. Payout(committed, contesting, rank, button) = [s \in Seats |-> SeatSum(won[s])]
  BY DEF Payout
<1>2. \A r \in Seats : W(r) \in SUBSET Seats
  BY DEF LayerWinners, Contributors
<1>3. \A r \in Seats : NamesLayer(committed, r) => LayerAmount(committed, committed[r]) \in Nat
  BY LayerAmountType DEF NamesLayer
<1>4. won \in [Seats -> [Seats -> Int]]
  <2>1. ASSUME NEW s \in Seats, NEW r \in Seats, NamesLayer(committed, r), s \in W(r)
        PROVE  Share(LayerAmount(committed, committed[r]), W(r), button, s) \in Int
    BY <1>2, <1>3, <2>1, ShareType
  <2>. QED
    BY <2>1
<1>5. ASSUME NEW r \in Seats  PROVE SeatSum(column(r)) = paid[r]
  <2>. DEFINE amount == LayerAmount(committed, committed[r])
  <2>1. CASE NamesLayer(committed, r) /\ W(r) # {}
    <3>1. column(r) = [s \in Seats |->
                         IF s \in W(r) THEN Share(amount, W(r), button, s) ELSE 0]
      BY <2>1
    <3>2. amount \in Nat /\ W(r) \in SUBSET Seats /\ W(r) # {}
      BY <1>2, <1>3, <2>1
    <3>3. paid[r] = amount
      BY <2>1 DEF PaidLayers
    <3>. HIDE DEF amount, W, column
    <3>4. SeatSum([s \in Seats |->
            IF s \in W(r) THEN Share(amount, W(r), button, s) ELSE 0]) = amount
      BY <3>2, SharesAddUp
    <3>. HIDE DEF paid
    <3>. QED
      BY <3>1, <3>3, <3>4
  <2>2. CASE ~(NamesLayer(committed, r) /\ W(r) # {})
    <3>1. column(r) = [s \in Seats |-> 0]
      BY <1>2, <2>2
    <3>2. SeatSum([s \in Seats |-> 0]) = 0
      BY DEF SeatSum
    <3>3. paid[r] = 0
      BY <2>2 DEF PaidLayers
    <3>. HIDE DEF column, paid
    <3>. QED
      BY <3>1, <3>2, <3>3
  <2>. QED
    BY <2>1, <2>2
<1>6. paid = [r \in Seats |-> SeatSum(column(r))]
  <2>1. paid = [r \in Seats |-> paid[r]]
    BY DEF PaidLayers
  <2>. HIDE DEF paid, column
  <2>. QED
    BY <1>5, <2>1
<1>. HIDE DEF won
<1>7. SeatSum([s \in Seats |-> SeatSum(won[s])])
        = SeatSum([r \in Seats |-> SeatSum([s \in Seats |-> won[s][r]])])
  BY <1>4, SeatSumExchange
<1>. QED
  BY <1>1, <1>6, <1>7

\* No more is won than was committed.
LEMMA PayoutBounded ==
  ASSUME NEW committed \in [Seats -> Nat], NEW contesting \in SUBSET Seats,
         NEW rank, NEW button \in Seats \cup {NoSeat}
  PROVE  SeatSum(Payout(committed, contesting, rank, button)) <= SeatSum(committed)
<1>. DEFINE paid == PaidLayers(committed, contesting, rank)
<1>1. 0 \in Seats
  BY SeatsAssumption DEF Seats
<1>2. PICK m \in Seats : \A o \in Seats : committed[o] <= committed[m]
  BY <1>1, SeatMax
<1>3. MatchedUpTo(committed, committed[m]) = committed
  BY <1>2 DEF MatchedUpTo
<1>. DEFINE pots == PotsUpTo(committed, committed[m])
<1>4. \A r \in Seats : NamesLayer(committed, r) => LayerAmount(committed, committed[r]) \in Nat
  BY LayerAmountType DEF NamesLayer
<1>5. /\ paid \in [Seats -> Int] /\ pots \in [Seats -> Int]
      /\ \A r \in Seats : paid[r] <= pots[r]
  BY <1>2, <1>4 DEF PaidLayers, PotsUpTo
<1>. HIDE DEF paid, pots
<1>6. SeatSum(paid) <= SeatSum(pots)
  BY <1>5, SeatSumMonotone
<1>7. SeatSum(pots) = SeatSum(committed)
  BY <1>3, PotsHoldMatched DEF pots
<1>8. SeatSum(Payout(committed, contesting, rank, button)) = SeatSum(paid)
  BY PayoutTotal DEF paid
<1>. QED
  BY <1>6, <1>7, <1>8

\* A seat wins of each seat no more than it committed itself.
LEMMA PayoutMatched ==
  ASSUME NEW committed \in [Seats -> Nat], NEW contesting \in SUBSET Seats,
         NEW rank, NEW button \in Seats \cup {NoSeat}, NEW s \in Seats
  PROVE  Payout(committed, contesting, rank, button)[s]
           <= SeatSum(MatchedUpTo(committed, committed[s]))
<1>. DEFINE W(r) == LayerWinners(committed, contesting, rank, committed[r])
            amount(r) == LayerAmount(committed, committed[r])
            won == [r \in Seats |-> IF NamesLayer(committed, r) /\ s \in W(r)
                                      THEN Share(amount(r), W(r), button, s) ELSE 0]
            pots == PotsUpTo(committed, committed[s])
<1>1. Payout(committed, contesting, rank, button)[s] = SeatSum(won)
  BY DEF Payout
<1>2. \A r \in Seats : /\ W(r) \in SUBSET Seats
                       /\ s \in W(r) => committed[r] <= committed[s]
  BY DEF LayerWinners, Contributors
<1>3. \A r \in Seats : NamesLayer(committed, r) => amount(r) \in Nat
  BY LayerAmountType DEF NamesLayer
<1>4. /\ won \in [Seats -> Int] /\ pots \in [Seats -> Int]
      /\ \A r \in Seats : won[r] <= pots[r]
  <2>1. pots \in [Seats -> Int]
    BY <1>3 DEF PotsUpTo
  <2>2. ASSUME NEW r \in Seats, NamesLayer(committed, r), s \in W(r)
        PROVE  /\ Share(amount(r), W(r), button, s) \in Nat
               /\ Share(amount(r), W(r), button, s) <= pots[r]
    <3>1. amount(r) \in Nat /\ W(r) \in SUBSET Seats
      BY <1>2, <1>3, <2>2
    <3>2. pots[r] = amount(r)
      BY <1>2, <2>2 DEF PotsUpTo
    <3>. HIDE DEF amount, W, pots
    <3>. QED
      BY <2>2, <3>1, <3>2, ShareType, ShareBounded
  <2>3. \A r \in Seats : 0 <= pots[r]
    BY <1>3 DEF PotsUpTo
  <2>. HIDE DEF pots, W, amount
  <2>. QED
    BY <2>1, <2>2, <2>3
<1>. HIDE DEF won, pots
<1>5. SeatSum(won) <= SeatSum(pots)
  BY <1>4, SeatSumMonotone
<1>6. SeatSum(pots) = SeatSum(MatchedUpTo(committed, committed[s]))
  BY PotsHoldMatched DEF pots
<1>. QED
  BY <1>1, <1>5, <1>6

\* All that somebody competing has matched is won by somebody.
LEMMA PayoutCovers ==
  ASSUME NEW committed \in [Seats -> Nat], NEW contesting \in SUBSET Seats,
         NEW rank \in [Seats -> Nat], NEW button \in Seats \cup {NoSeat},
         NEW s \in contesting
  PROVE  SeatSum(MatchedUpTo(committed, committed[s]))
           <= SeatSum(Payout(committed, contesting, rank, button))
<1>. DEFINE paid == PaidLayers(committed, contesting, rank)
            pots == PotsUpTo(committed, committed[s])
            W(r) == LayerWinners(committed, contesting, rank, committed[r])
<1>1. ASSUME NEW r \in Seats, committed[r] <= committed[s]  PROVE W(r) # {}
  <2>. DEFINE eligible == Contributors(committed, committed[r]) \cap contesting
  <2>1. eligible \in SUBSET Seats /\ s \in eligible
    BY <1>1 DEF Contributors
  <2>2. PICK w \in eligible : \A o \in eligible : rank[o] <= rank[w]
    <3>. HIDE DEF eligible
    <3>. QED
      BY <2>1, SeatMax
  <2>. QED
    BY <2>2 DEF LayerWinners
<1>2. \A r \in Seats : NamesLayer(committed, r) => LayerAmount(committed, committed[r]) \in Nat
  BY LayerAmountType DEF NamesLayer
<1>3. /\ paid \in [Seats -> Int] /\ pots \in [Seats -> Int]
      /\ \A r \in Seats : pots[r] <= paid[r]
  <2>. HIDE DEF W
  <2>. QED
    BY <1>1, <1>2 DEF PaidLayers, PotsUpTo, W
<1>. HIDE DEF paid, pots
<1>4. SeatSum(pots) <= SeatSum(paid)
  BY <1>3, SeatSumMonotone
<1>5. SeatSum(pots) = SeatSum(MatchedUpTo(committed, committed[s]))
  BY PotsHoldMatched DEF pots
<1>6. SeatSum(Payout(committed, contesting, rank, button)) = SeatSum(paid)
  BY PayoutTotal DEF paid
<1>. QED
  BY <1>4, <1>5, <1>6

-----------------------------------------------------------------------------
(* The inductive invariant *)

\* No bet exceeds the bet to call, so that calling or raising never takes
\* chips back, and there is nothing to call between hands.
BetsBounded(t) ==
  /\ \A s \in Seats : t.bet[s] <= t.currentBet
  /\ ~HandActive(t) => t.currentBet = 0

TurnPlayable(t) ==
  IF HandActive(t)
    THEN /\ t.acting \in NeedsAction(t)
         /\ \E o \in Contesting(t) : o # t.acting
    ELSE t.acting = NoSeat

Sound(t) == t \in TableState /\ BetsBounded(t) /\ TurnPlayable(t)

IInv == TypeOK /\ Sound(table)

-----------------------------------------------------------------------------
(* Steps on a table *)

\* Giving the turn to a seat changes the turn and nothing else.
LEMMA SetActingType ==
  ASSUME NEW t \in TableState, NEW s \in Seats \cup {NoSeat}
  PROVE  /\ SetActing(t, s) \in TableState
         /\ SetActing(t, s).acting = s
         /\ SetActing(t, s).street = t.street
         /\ SetActing(t, s).dealer = t.dealer
         /\ Contesting(SetActing(t, s)) = Contesting(t)
         /\ NeedsAction(SetActing(t, s)) = NeedsAction(t)
         /\ BetsBounded(t) => BetsBounded(SetActing(t, s))
<1>. DEFINE u == SetActing(t, s)
<1>1. t.turnID + 1 \in Nat
  BY DEF TableState
<1>2. u \in TableState
  BY <1>1, ZenonT(60) DEF SetActing, TableState
<1>3. /\ u.acting = s /\ u.street = t.street /\ u.dealer = t.dealer
      /\ u.inHand = t.inHand /\ u.folded = t.folded /\ u.allIn = t.allIn
      /\ u.acted = t.acted /\ u.bet = t.bet /\ u.currentBet = t.currentBet
  BY DEF SetActing, TableState
<1>. QED
  BY <1>2, <1>3 DEF Contesting, NeedsAction, Actionable, BetsBounded, HandActive

\* Committing chips takes them from a stack, and raises only that seat's bet.
LEMMA CommitType ==
  ASSUME NEW t \in TableState, NEW s \in Seats, NEW n \in Nat
  PROVE  /\ Commit(t, s, n) \in TableState
         /\ Commit(t, s, n).street = t.street
         /\ Commit(t, s, n).currentBet = t.currentBet
         /\ Commit(t, s, n).dealer = t.dealer
         /\ Contesting(Commit(t, s, n)) = Contesting(t)
         /\ \A o \in Seats : Commit(t, s, n).bet[o] <=
                               IF o = s THEN t.bet[o] + n ELSE t.bet[o]
<1>. DEFINE amount == Smaller(n, t.stack[s])
            u == Commit(t, s, n)
            stack == [t.stack EXCEPT ![s] = @ - amount]
            bet == [t.bet EXCEPT ![s] = @ + amount]
            committed == [t.committed EXCEPT ![s] = @ + amount]
            allIn == [t.allIn EXCEPT ![s] = @ \/ amount = t.stack[s]]
<1>1. amount \in Nat /\ amount <= n /\ t.stack[s] - amount \in Nat
  BY SMTT(60) DEF Smaller, TableState
<1>2. u = [t EXCEPT !.stack = stack, !.bet = bet, !.committed = committed,
                    !.allIn = allIn]
  BY DEF Commit
<1>. HIDE DEF amount
<1>3. /\ stack \in [Seats -> Nat] /\ bet \in [Seats -> Nat]
      /\ committed \in [Seats -> Nat] /\ allIn \in [Seats -> BOOLEAN]
  BY <1>1 DEF TableState
<1>4. \A o \in Seats : bet[o] <= IF o = s THEN t.bet[o] + n ELSE t.bet[o]
  BY <1>1 DEF TableState
<1>. HIDE DEF stack, bet, committed, allIn
<1>5. u \in TableState
  BY <1>2, <1>3, ZenonT(60) DEF TableState
<1>6. /\ u.street = t.street /\ u.dealer = t.dealer /\ u.currentBet = t.currentBet
      /\ u.inHand = t.inHand /\ u.folded = t.folded /\ u.bet = bet
  BY <1>2 DEF TableState
<1>. QED
  BY <1>4, <1>5, <1>6, SMTT(60) DEF Contesting

\* A bet or a raise becomes the bet to call, which nobody's bet exceeds.
LEMMA RaiseToType ==
  ASSUME NEW t \in TableState, NEW s \in Seats, NEW n \in Nat,
         BetsBounded(t), HandActive(t), n > t.currentBet
  PROVE  /\ RaiseTo(t, s, n) \in TableState
         /\ BetsBounded(RaiseTo(t, s, n))
         /\ RaiseTo(t, s, n).street = t.street
         /\ Contesting(RaiseTo(t, s, n)) = Contesting(t)
<1>. DEFINE paid == Commit(t, s, n - t.bet[s])
            full == n - t.currentBet >= MinimumRaise(t)
            minRaise == IF full THEN n - t.currentBet ELSE paid.minRaise
            acted == [o \in Seats |->
                        o = s \/ (paid.acted[o] /\ ~(full /\ o \in Actionable(paid)))]
<1>1. n - t.bet[s] \in Nat /\ n - t.currentBet \in Nat
  BY DEF BetsBounded, TableState
<1>2. /\ paid \in TableState /\ paid.street = t.street
      /\ Contesting(paid) = Contesting(t)
      /\ \A o \in Seats : paid.bet[o] <= IF o = s THEN n ELSE t.bet[o]
  <2>1. t.bet[s] + (n - t.bet[s]) = n
    BY DEF TableState
  <2>. QED
    BY <1>1, <2>1, CommitType
<1>3. RaiseTo(t, s, n) =
        [paid EXCEPT !.currentBet = n, !.minRaise = minRaise, !.acted = acted]
  BY DEF RaiseTo
<1>. HIDE DEF paid, full
<1>4. minRaise \in Nat /\ acted \in [Seats -> BOOLEAN]
  BY <1>1, <1>2 DEF TableState
<1>. HIDE DEF minRaise, acted
<1>5. RaiseTo(t, s, n) \in TableState
  BY <1>2, <1>3, <1>4, ZenonT(60) DEF TableState
<1>6. /\ RaiseTo(t, s, n).street = t.street
      /\ RaiseTo(t, s, n).inHand = paid.inHand
      /\ RaiseTo(t, s, n).folded = paid.folded
      /\ RaiseTo(t, s, n).bet = paid.bet
      /\ RaiseTo(t, s, n).currentBet = n
  BY <1>2, <1>3 DEF TableState
<1>7. \A o \in Seats : paid.bet[o] <= n
  BY <1>2 DEF BetsBounded, TableState
<1>. QED
  BY <1>2, <1>5, <1>6, <1>7 DEF BetsBounded, Contesting, HandActive

\* What is staked after the refund is a natural number of chips.
LEMMA StakedType ==
  ASSUME NEW t \in TableState
  PROVE  /\ Refund(t.committed) \in [Seats -> Nat]
         /\ Staked(t) \in [Seats -> Nat]
<1>1. t.committed \in [Seats -> Nat]
  BY DEF TableState
<1>. QED
  BY <1>1, RefundType DEF Staked

\* The constant functions of an empty table.
LEMMA ZerosType ==
  Zeros \in [Seats -> Nat] /\ Nobody \in [Seats -> BOOLEAN]
BY DEF Zeros, Nobody

\* Finishing a hand leaves a table between hands.
LEMMA FinishHandSound ==
  ASSUME NEW t \in TableState, NEW showdown \in BOOLEAN, NEW payout \in [Seats -> Nat]
  PROVE  Sound(FinishHand(t, showdown, payout))
<1>. DEFINE ending  == [s \in Seats |-> t.stack[s] + Refund(t.committed)[s] + payout[s]]
            players == {s \in Seats : t.inHand[s]}
            start   == [s \in Seats |->
                          IF s \in players
                            THEN [o \in Seats |-> ending[o] + Staked(t)[o] - payout[o]][s]
                            ELSE 0]
            final   == [s \in Seats |-> IF s \in players THEN ending[s] ELSE 0]
            result  == [showdown |-> showdown, pot |-> SeatSum(Staked(t)),
                        players |-> players, folded |-> t.folded,
                        committed |-> Staked(t), payout |-> payout,
                        start |-> start, ending |-> final]
            closed  == [t EXCEPT
              !.stack = ending, !.bet = Zeros, !.committed = Zeros, !.ready = Nobody,
              !.inHand = Nobody, !.allIn = Nobody, !.acted = Nobody,
              !.actedAtBet = Zeros, !.currentBet = 0, !.street = "complete",
              !.lastResult = result]
<1>1. FinishHand(t, showdown, payout) = SetActing(closed, NoSeat)
  BY DEF FinishHand
<1>2. /\ ending \in [Seats -> Nat] /\ players \in SUBSET Seats
      /\ start \in [Seats -> Int] /\ final \in [Seats -> Nat]
      /\ SeatSum(Staked(t)) \in Nat
      /\ t.folded \in [Seats -> BOOLEAN]
  <2>1. \A s \in Seats : t.stack[s] \in Nat /\ t.folded[s] \in BOOLEAN
    BY DEF TableState
  <2>2. ending \in [Seats -> Nat]
    BY <2>1, StakedType
  <2>3. \A s \in Seats : ending[s] + Staked(t)[s] - payout[s] \in Int
    BY <2>2, StakedType
  <2>. HIDE DEF ending
  <2>4. t.folded \in [Seats -> BOOLEAN]
    BY DEF TableState
  <2>. QED
    BY <2>2, <2>3, <2>4, StakedType, SeatSumType
<1>. HIDE DEF ending, players, start, final
<1>3. result \in HandResult
  BY <1>2, StakedType, Zenon DEF HandResult
<1>. HIDE DEF result
<1>4. closed \in TableState
  <2>1. 0 \in Nat /\ "complete" \in Streets
    BY DEF Streets
  <2>. QED
    BY <1>2, <1>3, <2>1, ZerosType, Zenon DEF TableState
<1>5. /\ closed.street = "complete" /\ closed.currentBet = 0
      /\ closed.bet = Zeros
  BY DEF TableState
<1>. HIDE DEF closed
<1>6. ~HandActive(closed) /\ BetsBounded(closed)
  BY <1>5 DEF HandActive, BettingStreets, BetsBounded, Zeros
<1>. QED
  BY <1>1, <1>4, <1>5, <1>6, SetActingType DEF Sound, TurnPlayable, HandActive

\* So does a showdown, however the hands compare.
LEMMA FinishShowdownSound ==
  ASSUME NEW t \in TableState
  PROVE  \A u \in FinishShowdown(t) : Sound(u)
<1>1. Contesting(t) \in SUBSET Seats
  BY DEF Contesting
<1>2. \A rank : Payout(Staked(t), Contesting(t), rank, t.dealer) \in [Seats -> Nat]
  BY <1>1, StakedType, PayoutType
<1>. QED
  BY <1>2, FinishHandSound DEF FinishShowdown

\* So does the end of a hand in which all but one folded.
LEMMA FinishUncontestedSound ==
  ASSUME NEW t \in TableState
  PROVE  Sound(FinishUncontested(t))
<1>1. SeatSum(Staked(t)) \in Nat
  BY StakedType, SeatSumType
<1>2. [s \in Seats |-> IF s \in Contesting(t) THEN SeatSum(Staked(t)) ELSE 0]
        \in [Seats -> Nat]
  BY <1>1
<1>. QED
  BY <1>2, FinishHandSound DEF FinishUncontested

\* A seat that is given the turn of a sound table with two players left in it.
LEMMA GiveTurnSound ==
  ASSUME NEW t \in TableState, BetsBounded(t), HandActive(t),
         NEW a \in Contesting(t), NEW b \in Contesting(t), a # b,
         NEW s \in NeedsAction(t)
  PROVE  Sound(SetActing(t, s))
<1>1. s \in Seats
  BY DEF NeedsAction, Actionable, Contesting
<1>2. \E o \in Contesting(t) : o # s
  OBVIOUS
<1>. QED
  BY <1>1, <1>2, SetActingType DEF Sound, TurnPlayable, HandActive

\* Going on to the next street gives the turn to a seat that can act, or ends the hand.
LEMMA AdvanceStreetSound ==
  ASSUME NEW t \in TableState, HandActive(t)
  PROVE  \A u \in AdvanceStreet(t) : Sound(u)
<1>. DEFINE cleared == [t EXCEPT !.bet = Zeros, !.currentBet = 0, !.minRaise = BigBlind,
                                 !.acted = Nobody, !.actedAtBet = Zeros]
            dealtOn == [cleared EXCEPT !.street = NextStreet[@]]
            next    == NextIn(NeedsAction(dealtOn), t.dealer)
            turn    == SetActing(dealtOn, next)
<1>1. AdvanceStreet(t) =
        IF t.street = "river" THEN FinishShowdown(cleared)
        ELSE IF \A a, b \in Actionable(dealtOn) : a = b THEN FinishShowdown(dealtOn)
        ELSE IF turn.acting = NoSeat THEN FinishShowdown(turn)
        ELSE {turn}
  BY DEF AdvanceStreet
<1>2. cleared \in TableState
  <2>1. 0 \in Nat /\ BigBlind \in Nat
    BY HoldemAssumption
  <2>. QED
    BY <2>1, ZerosType, Zenon DEF TableState
<1>3. /\ cleared.street = t.street /\ cleared.dealer = t.dealer
      /\ cleared.bet = Zeros /\ cleared.currentBet = 0 /\ cleared.acted = Nobody
  BY DEF TableState
<1>4. CASE t.street = "river"
  BY <1>1, <1>2, <1>4, FinishShowdownSound
<1>5. CASE t.street # "river"
  <2>. HIDE DEF cleared
  <2>1. /\ NextStreet[cleared.street] \in Streets
        /\ NextStreet[cleared.street] \in BettingStreets
    BY <1>3, <1>5 DEF HandActive, BettingStreets, Streets, NextStreet
  <2>2. dealtOn \in TableState
    BY <1>2, <2>1, Zenon DEF TableState
  <2>3. /\ dealtOn.street \in BettingStreets /\ dealtOn.dealer = t.dealer
        /\ dealtOn.bet = Zeros /\ dealtOn.currentBet = 0 /\ dealtOn.acted = Nobody
    BY <1>2, <1>3, <2>1 DEF TableState
  <2>. HIDE DEF dealtOn
  <2>4. /\ HandActive(dealtOn) /\ BetsBounded(dealtOn)
        /\ NeedsAction(dealtOn) = Actionable(dealtOn)
    BY <2>3 DEF HandActive, BetsBounded, NeedsAction, Actionable, Contesting, Zeros, Nobody
  <2>5. CASE \A a, b \in Actionable(dealtOn) : a = b
    BY <1>1, <1>5, <2>2, <2>5, FinishShowdownSound
  <2>6. CASE ~ \A a, b \in Actionable(dealtOn) : a = b
    <3>1. PICK a, b \in Actionable(dealtOn) : a # b
      BY <2>6
    <3>2. a \in Contesting(dealtOn) /\ b \in Contesting(dealtOn)
      BY <3>1 DEF Actionable
    <3>3. next \in NeedsAction(dealtOn)
      <4>1. NeedsAction(dealtOn) \in SUBSET Seats /\ NeedsAction(dealtOn) # {}
        BY <2>4, <3>1 DEF Actionable, Contesting
      <4>2. t.dealer \in Seats \cup {NoSeat}
        BY DEF TableState
      <4>. QED
        BY <4>1, <4>2, NextInType
    <3>. HIDE DEF next
    <3>4. turn.acting # NoSeat
      <4>1. next \in Seats
        BY <3>3 DEF NeedsAction, Actionable, Contesting
      <4>. QED
        BY <2>2, <4>1, SetActingType DEF Seats, NoSeat
    <3>5. Sound(turn)
      BY <2>2, <2>4, <3>1, <3>2, <3>3, GiveTurnSound
    <3>. QED
      BY <1>1, <1>5, <2>6, <3>4, <3>5
  <2>. QED
    BY <2>5, <2>6
<1>. QED
  BY <1>4, <1>5

\* Passing the turn gives it to a seat that must act, or closes the street.
LEMMA PassTurnSound ==
  ASSUME NEW t \in TableState, BetsBounded(t), HandActive(t),
         NEW a \in Contesting(t), NEW b \in Contesting(t), a # b,
         NEW from \in Seats
  PROVE  \A u \in PassTurn(t, from) : Sound(u)
<1>. DEFINE next == NextIn(NeedsAction(t), from)
            turn == SetActing(t, next)
<1>1. PassTurn(t, from) =
        IF turn.acting = NoSeat THEN AdvanceStreet(turn) ELSE {turn}
  BY DEF PassTurn
<1>2. NeedsAction(t) \in SUBSET Seats
  BY DEF NeedsAction, Actionable, Contesting
<1>3. CASE NeedsAction(t) = {}
  <2>1. next = NoSeat
    BY <1>3, NextInType, <1>2
  <2>. HIDE DEF next
  <2>2. turn \in TableState /\ turn.acting = NoSeat /\ HandActive(turn)
    BY <2>1, SetActingType DEF HandActive
  <2>. QED
    BY <1>1, <2>2, AdvanceStreetSound
<1>4. CASE NeedsAction(t) # {}
  <2>1. next \in NeedsAction(t)
    BY <1>4, NextInType, <1>2
  <2>. HIDE DEF next
  <2>2. turn.acting # NoSeat
    BY <1>2, <2>1, SetActingType DEF Seats, NoSeat
  <2>3. Sound(turn)
    BY <2>1, GiveTurnSound
  <2>. QED
    BY <1>1, <2>2, <2>3
<1>. QED
  BY <1>3, <1>4

\* After any action the table is sound again.
LEMMA EndActionSound ==
  ASSUME NEW t \in TableState, BetsBounded(t), HandActive(t), NEW s \in Seats
  PROVE  \A u \in EndAction(t, s) : Sound(u)
<1>. DEFINE acted == [t EXCEPT !.actedAtBet[s] = t.currentBet]
            at == [t.actedAtBet EXCEPT ![s] = t.currentBet]
<1>1. EndAction(t, s) =
        IF \A a, b \in Contesting(acted) : a = b THEN {FinishUncontested(acted)}
        ELSE IF NeedsAction(acted) = {} THEN AdvanceStreet(acted)
        ELSE PassTurn(acted, s)
  BY DEF EndAction
<1>2. acted = [t EXCEPT !.actedAtBet = at]
  OBVIOUS
<1>3. at \in [Seats -> Nat]
  BY DEF TableState
<1>. HIDE DEF at
<1>4. acted \in TableState
  BY <1>2, <1>3, Zenon DEF TableState
<1>5. acted.street = t.street /\ acted.bet = t.bet /\ acted.currentBet = t.currentBet
  BY DEF TableState
<1>. HIDE DEF acted
<1>6. HandActive(acted) /\ BetsBounded(acted)
  BY <1>5 DEF HandActive, BetsBounded
<1>. QED
  BY <1>1, <1>4, <1>6, FinishUncontestedSound, AdvanceStreetSound, PassTurnSound

\* A set of seats with at least two members has two different members.
LEMMA TwoMembers ==
  ASSUME NEW S \in SUBSET Seats, Cardinality(S) >= 2
  PROVE  \E a, b \in S : a # b
<1>1. SUFFICES ASSUME \A a, b \in S : a = b  PROVE FALSE
  OBVIOUS
<1>2. IsFiniteSet(S)
  BY SeatsFinite
<1>3. CASE S = {}
  BY <1>3, FS_EmptySet
<1>4. CASE S # {}
  <2>1. PICK x \in S : TRUE
    BY <1>4
  <2>2. S = {x}
    BY <1>1, <2>1
  <2>3. Cardinality({x}) = 1
    BY FS_Singleton, Zenon
  <2>. QED
    BY <2>2, <2>3
<1>. QED
  BY <1>3, <1>4

\* u is t apart from chips, bets, marks and who folded.
SameTable(t, u) ==
  /\ u \in TableState
  /\ u.user = t.user /\ u.hole = t.hole /\ u.inHand = t.inHand /\ u.dealer = t.dealer
  /\ u.handID = t.handID /\ u.turnID = t.turnID /\ u.street = t.street
  /\ u.lastResult = t.lastResult

\* Each seat has the chips it had, and what it put in on earlier streets.
OwnChips(t, u) ==
  \A s \in Seats :
    /\ u.stack[s] + u.committed[s] = t.stack[s] + t.committed[s]
    /\ u.committed[s] - u.bet[s] = t.committed[s] - t.bet[s]
    /\ t.stack[s] > 0 \/ t.allIn[s] => u.stack[s] > 0 \/ u.allIn[s]

\* Committing chips moves them from the stack of a seat to its bet, and no others.
LEMMA CommitEffect ==
  ASSUME NEW t \in TableState, NEW s \in Seats, NEW n \in Nat
  PROVE  LET u == Commit(t, s, n)
         IN  /\ SameTable(t, u) /\ OwnChips(t, u)
             /\ u.folded = t.folded /\ u.currentBet = t.currentBet
             /\ u.minRaise = t.minRaise /\ u.acted = t.acted
             /\ u.actedAtBet = t.actedAtBet
             /\ u.stack[s] >= t.stack[s] - n /\ u.stack[s] <= t.stack[s]
             /\ \A o \in Seats \ {s} :
                  /\ u.stack[o] = t.stack[o] /\ u.bet[o] = t.bet[o]
                  /\ u.committed[o] = t.committed[o] /\ u.allIn[o] = t.allIn[o]
<1>. DEFINE amount == Smaller(n, t.stack[s])
            u == Commit(t, s, n)
            stack == [t.stack EXCEPT ![s] = @ - amount]
            bet == [t.bet EXCEPT ![s] = @ + amount]
            committed == [t.committed EXCEPT ![s] = @ + amount]
            allIn == [t.allIn EXCEPT ![s] = @ \/ amount = t.stack[s]]
<1>1. /\ amount \in Nat /\ amount <= n /\ amount <= t.stack[s]
      /\ t.stack[s] \in Nat
  BY DEF Smaller, TableState
<1>2. u = [t EXCEPT !.stack = stack, !.bet = bet, !.committed = committed,
                    !.allIn = allIn]
  BY DEF Commit
<1>. HIDE DEF amount
<1>3. /\ t.stack \in [Seats -> Nat] /\ t.bet \in [Seats -> Nat]
      /\ t.committed \in [Seats -> Nat] /\ t.allIn \in [Seats -> BOOLEAN]
  BY DEF TableState
<1>4. \A o \in Seats \ {s} :
        /\ stack[o] = t.stack[o] /\ bet[o] = t.bet[o]
        /\ committed[o] = t.committed[o] /\ allIn[o] = t.allIn[o]
  BY <1>3
<1>5. /\ stack[s] = t.stack[s] - amount /\ bet[s] = t.bet[s] + amount
      /\ committed[s] = t.committed[s] + amount
      /\ allIn[s] = (t.allIn[s] \/ amount = t.stack[s])
  BY <1>3
<1>6. /\ u.user = t.user /\ u.hole = t.hole /\ u.inHand = t.inHand /\ u.dealer = t.dealer
      /\ u.handID = t.handID /\ u.turnID = t.turnID /\ u.street = t.street
      /\ u.lastResult = t.lastResult
      /\ u.folded = t.folded /\ u.currentBet = t.currentBet
      /\ u.minRaise = t.minRaise /\ u.acted = t.acted
      /\ u.actedAtBet = t.actedAtBet
      /\ u.stack = stack /\ u.bet = bet /\ u.committed = committed /\ u.allIn = allIn
  <2>. HIDE DEF stack, bet, committed, allIn
  <2>. QED
    BY <1>2 DEF TableState
<1>7. SameTable(t, u)
  BY <1>6, CommitType DEF SameTable
<1>. HIDE DEF stack, bet, committed, allIn, u
<1>8. OwnChips(t, u)
  <2>1. ASSUME NEW o \in Seats
        PROVE  /\ stack[o] + committed[o] = t.stack[o] + t.committed[o]
               /\ committed[o] - bet[o] = t.committed[o] - t.bet[o]
               /\ t.stack[o] > 0 \/ t.allIn[o] => stack[o] > 0 \/ allIn[o]
    <3>1. t.stack[o] \in Nat /\ t.bet[o] \in Nat /\ t.committed[o] \in Nat
      BY <1>3
    <3>2. CASE o = s
      <4>1. /\ stack[s] + committed[s] = t.stack[s] + t.committed[s]
            /\ committed[s] - bet[s] = t.committed[s] - t.bet[s]
            /\ stack[s] > 0 \/ amount = t.stack[s]
        BY <1>1, <1>5, <3>1, <3>2
      <4>2. t.allIn[s] \/ amount = t.stack[s] => allIn[s]
        BY <1>5
      <4>. QED
        BY <3>2, <4>1, <4>2
    <3>3. CASE o # s
      BY <1>4, <3>1, <3>3
    <3>. QED
      BY <3>2, <3>3
  <2>. QED
    BY <1>6, <2>1 DEF OwnChips
<1>9. stack[s] >= t.stack[s] - n /\ stack[s] <= t.stack[s]
  BY <1>1, <1>5
<1>. QED
  BY <1>4, <1>6, <1>7, <1>8, <1>9 DEF u

\* Chips that were the seats' own twice over are still their own.
LEMMA OwnChipsTwice ==
  ASSUME NEW t \in TableState, NEW v \in TableState, NEW u \in TableState,
         OwnChips(t, v), OwnChips(v, u)
  PROVE  OwnChips(t, u)
BY DEF OwnChips

\* p is t with a hand dealt to the funded seats and the blinds posted.
Dealt(t, p) ==
  /\ p \in TableState
  /\ p.user = t.user /\ p.handID = t.handID + 1 /\ p.turnID = t.turnID
  /\ p.street = "preflop" /\ p.lastResult = NoResult /\ p.minRaise = BigBlind
  /\ p.acted = Nobody /\ p.actedAtBet = Zeros
  /\ \A s \in Seats :
       /\ p.hole[s] = (t.hole[s] \/ s \in Playable(t))
       /\ p.inHand[s] = (t.inHand[s] \/ s \in Playable(t))
       /\ p.folded[s] = (t.folded[s] /\ s \notin Playable(t))
  /\ \A s \in Playable(t) :
       /\ p.stack[s] + p.committed[s] = t.stack[s]
       /\ p.committed[s] = p.bet[s]
       /\ p.stack[s] > 0 \/ p.allIn[s]
  /\ \A s \in Seats \ Playable(t) :
       /\ p.stack[s] + p.committed[s] = t.stack[s] + t.committed[s]
       /\ p.committed[s] - p.bet[s] = t.committed[s] - t.bet[s]

\* Starting a hand among two or more funded players deals it, and passes the turn;
\* whoever posts no blind still has to act.
LEMMA StartHandDeals ==
  ASSUME NEW t \in TableState, BetsBounded(t), ~HandActive(t),
         Cardinality(Playable(t)) >= 2
  PROVE  \E p \in TableState, big \in Seats :
           /\ Dealt(t, p) /\ HandActive(p) /\ BetsBounded(p)
           /\ \E a, b \in Contesting(p) : a # b
           /\ \E small \in Seats : Playable(t) \ {small, big} \subseteq NeedsAction(p)
           /\ StartHand(t) = PassTurn(p, big)
<1>. DEFINE active == Playable(t)
            dealer == NextIn(active, t.dealer)
            ready     == [s \in Seats |-> t.ready[s] /\ s \notin active]
            bet       == [s \in Seats |-> IF s \in active THEN 0 ELSE t.bet[s]]
            committed == [s \in Seats |-> IF s \in active THEN 0 ELSE t.committed[s]]
            hole      == [s \in Seats |-> t.hole[s] \/ s \in active]
            inHand    == [s \in Seats |-> t.inHand[s] \/ s \in active]
            folded    == [s \in Seats |-> t.folded[s] /\ s \notin active]
            allIn     == [s \in Seats |-> t.allIn[s] /\ s \notin active]
            fresh  == [t EXCEPT
              !.handID = @ + 1, !.street = "preflop", !.currentBet = 0,
              !.minRaise = BigBlind, !.lastResult = NoResult, !.acted = Nobody,
              !.actedAtBet = Zeros, !.dealer = dealer, !.ready = ready, !.bet = bet,
              !.committed = committed, !.hole = hole, !.inHand = inHand,
              !.folded = folded, !.allIn = allIn]
            small  == IF Cardinality(active) = 2 THEN dealer
                      ELSE NextIn(Contesting(fresh), dealer)
            big    == NextIn(Contesting(fresh), small)
            first  == Commit(fresh, small, SmallBlind)
            posted == Commit(first, big, BigBlind)
            opened == [posted EXCEPT
                         !.currentBet = Larger(posted.bet[small], posted.bet[big])]
<1>1. StartHand(t) = PassTurn(opened, big)
  BY DEF StartHand
<1>2. /\ active \in SUBSET Seats
      /\ \E a, b \in active : a # b
      /\ \A s \in active : t.stack[s] > 0
  BY TwoMembers DEF Playable
<1>3. t.dealer \in Seats \cup {NoSeat}
  BY DEF TableState
<1>4. dealer \in active
  BY <1>2, <1>3, NextInType
<1>. HIDE DEF active, dealer
<1>5. fresh \in TableState
  <2>1. /\ ready \in [Seats -> BOOLEAN] /\ bet \in [Seats -> Nat]
        /\ committed \in [Seats -> Nat] /\ hole \in [Seats -> BOOLEAN]
        /\ inHand \in [Seats -> BOOLEAN] /\ folded \in [Seats -> BOOLEAN]
        /\ allIn \in [Seats -> BOOLEAN]
    BY DEF TableState
  <2>2. NoResult \in HandResult
    <3>1. Zeros \in [Seats -> Int] /\ 0 \in Nat
      BY DEF Zeros
    <3>. QED
      BY <3>1, ZerosType, Zenon DEF NoResult, HandResult
  <2>3. /\ t.handID + 1 \in Nat /\ 0 \in Nat /\ BigBlind \in Nat
        /\ "preflop" \in Streets
    BY HoldemAssumption DEF TableState, Streets, BettingStreets
  <2>4. dealer \in Seats \cup {NoSeat}
    BY <1>2, <1>4
  <2>. HIDE DEF ready, bet, committed, hole, inHand, folded, allIn
  <2>. QED
    BY <2>1, <2>2, <2>3, <2>4, ZerosType, Zenon DEF TableState
<1>6. /\ fresh.street = "preflop" /\ fresh.bet = bet
      /\ fresh.inHand = inHand /\ fresh.folded = folded
      /\ fresh.hole = hole /\ fresh.allIn = allIn /\ fresh.committed = committed
      /\ fresh.user = t.user /\ fresh.stack = t.stack /\ fresh.handID = t.handID + 1
      /\ fresh.turnID = t.turnID /\ fresh.lastResult = NoResult
      /\ fresh.acted = Nobody /\ fresh.actedAtBet = Zeros /\ fresh.minRaise = BigBlind
  <2>. HIDE DEF ready, bet, committed, hole, inHand, folded, allIn
  <2>. QED
    BY DEF TableState
<1>7. \A s \in Seats :
        /\ fresh.hole[s] = (t.hole[s] \/ s \in active)
        /\ fresh.inHand[s] = (t.inHand[s] \/ s \in active)
        /\ fresh.folded[s] = (t.folded[s] /\ s \notin active)
        /\ fresh.allIn[s] = (t.allIn[s] /\ s \notin active)
        /\ fresh.bet[s] = IF s \in active THEN 0 ELSE t.bet[s]
        /\ fresh.committed[s] = IF s \in active THEN 0 ELSE t.committed[s]
  <2>. HIDE DEF fresh
  <2>. QED
    BY <1>6
<1>. HIDE DEF fresh, ready, bet, committed, hole, inHand, folded, allIn
<1>8. active \subseteq Contesting(fresh) /\ Contesting(fresh) \in SUBSET Seats
  BY <1>2, <1>7 DEF Contesting
<1>9. \A s \in Seats : fresh.bet[s] = 0
  BY <1>7 DEF BetsBounded, TableState
<1>10. small \in Seats /\ big \in Seats
  <2>1. small \in Seats
    <3>1. dealer \in Seats /\ Contesting(fresh) # {}
      BY <1>2, <1>4, <1>8
    <3>. QED
      BY <3>1, <1>8, NextInType
  <2>. HIDE DEF small
  <2>. QED
    BY <1>4, <1>8, <2>1, NextInType
<1>. HIDE DEF small, big
<1>11. SmallBlind \in Nat /\ BigBlind \in Nat
  BY HoldemAssumption
<1>12. /\ first \in TableState /\ SameTable(fresh, first) /\ OwnChips(fresh, first)
       /\ first.folded = fresh.folded /\ first.acted = fresh.acted
       /\ first.actedAtBet = fresh.actedAtBet /\ first.minRaise = fresh.minRaise
       /\ \A o \in Seats \ {small} :
            first.bet[o] = fresh.bet[o] /\ first.allIn[o] = fresh.allIn[o]
  BY <1>5, <1>10, <1>11, CommitEffect DEF SameTable
<1>. HIDE DEF first
<1>13. /\ posted \in TableState /\ SameTable(first, posted) /\ OwnChips(first, posted)
       /\ posted.folded = first.folded /\ posted.acted = first.acted
       /\ posted.actedAtBet = first.actedAtBet /\ posted.minRaise = first.minRaise
       /\ \A o \in Seats \ {big} :
            posted.bet[o] = first.bet[o] /\ posted.allIn[o] = first.allIn[o]
  BY <1>10, <1>11, <1>12, CommitEffect DEF SameTable
<1>. HIDE DEF posted
<1>14. LET top == Larger(posted.bet[small], posted.bet[big])
       IN  top \in Nat /\ \A o \in Seats : posted.bet[o] <= top
  <2>1. /\ \A o \in Seats : posted.bet[o] \in Nat
        /\ \A o \in Seats : o # small /\ o # big => posted.bet[o] = 0
    BY <1>9, <1>12, <1>13 DEF TableState
  <2>. QED
    BY <1>10, <2>1 DEF Larger
<1>15. opened \in TableState
  BY <1>13, <1>14, Zenon DEF TableState
<1>16. /\ opened.currentBet = Larger(posted.bet[small], posted.bet[big])
       /\ opened.bet = posted.bet /\ opened.user = posted.user
       /\ opened.stack = posted.stack /\ opened.committed = posted.committed
       /\ opened.hole = posted.hole /\ opened.inHand = posted.inHand
       /\ opened.folded = posted.folded /\ opened.allIn = posted.allIn
       /\ opened.street = posted.street /\ opened.handID = posted.handID
       /\ opened.turnID = posted.turnID /\ opened.lastResult = posted.lastResult
       /\ opened.acted = posted.acted /\ opened.actedAtBet = posted.actedAtBet
       /\ opened.minRaise = posted.minRaise
  BY <1>13 DEF TableState
<1>. HIDE DEF opened
<1>17. SameTable(fresh, posted) /\ OwnChips(fresh, posted)
  BY <1>5, <1>12, <1>13, OwnChipsTwice DEF SameTable
<1>18. /\ opened.street = "preflop" /\ HandActive(opened) /\ BetsBounded(opened)
  BY <1>6, <1>14, <1>16, <1>17 DEF HandActive, BettingStreets, BetsBounded, SameTable
<1>19. \E a, b \in Contesting(opened) : a # b
  <2>1. Contesting(opened) = Contesting(fresh)
    BY <1>12, <1>13, <1>16, <1>17 DEF Contesting, SameTable
  <2>. QED
    BY <1>2, <1>8, <2>1
<1>20. Dealt(t, opened)
  <2>1. /\ opened.user = t.user /\ opened.handID = t.handID + 1 /\ opened.turnID = t.turnID
        /\ opened.lastResult = NoResult /\ opened.acted = Nobody /\ opened.actedAtBet = Zeros
        /\ opened.hole = fresh.hole /\ opened.inHand = fresh.inHand
        /\ opened.folded = fresh.folded /\ opened.minRaise = BigBlind
    BY <1>6, <1>12, <1>13, <1>16, <1>17 DEF SameTable
  <2>2. ASSUME NEW s \in Seats
        PROVE  /\ opened.stack[s] + opened.committed[s] = t.stack[s] + fresh.committed[s]
               /\ opened.committed[s] - opened.bet[s] = fresh.committed[s] - fresh.bet[s]
               /\ t.stack[s] > 0 => opened.stack[s] > 0 \/ opened.allIn[s]
    BY <1>6, <1>16, <1>17 DEF OwnChips
  <2>3. ASSUME NEW s \in active
        PROVE  /\ opened.stack[s] + opened.committed[s] = t.stack[s]
               /\ opened.committed[s] = opened.bet[s]
               /\ opened.stack[s] > 0 \/ opened.allIn[s]
    <3>1. s \in Seats /\ fresh.committed[s] = 0 /\ fresh.bet[s] = 0 /\ t.stack[s] > 0
      BY <1>2, <1>7
    <3>2. /\ opened.committed[s] \in Nat /\ opened.bet[s] \in Nat /\ t.stack[s] \in Nat
      BY <1>15, <3>1 DEF TableState
    <3>3. /\ opened.stack[s] + opened.committed[s] = t.stack[s] + 0
          /\ opened.committed[s] - opened.bet[s] = 0 - 0
          /\ opened.stack[s] > 0 \/ opened.allIn[s]
      BY <2>2, <3>1
    <3>. QED
      BY <3>2, <3>3
  <2>4. \A s \in Seats \ active : fresh.committed[s] = t.committed[s] /\ fresh.bet[s] = t.bet[s]
    BY <1>7
  <2>. QED
    BY <1>7, <1>15, <1>18, <2>1, <2>2, <2>3, <2>4 DEF Dealt, active
<1>21. active \ {small, big} \subseteq NeedsAction(opened)
  <2>1. ASSUME NEW s \in active \ {small, big}
        PROVE  /\ s \in Seats /\ opened.inHand[s] /\ ~opened.folded[s]
               /\ ~opened.allIn[s] /\ ~opened.acted[s]
    <3>1. s \in Seats /\ opened.allIn[s] = fresh.allIn[s] /\ ~fresh.allIn[s]
      BY <1>2, <1>7, <1>12, <1>13, <1>16, ZenonT(60)
    <3>2. opened.inHand[s] /\ ~opened.folded[s]
      BY <1>20, <3>1 DEF Dealt, active
    <3>3. ~opened.acted[s]
      BY <1>20, <3>1 DEF Dealt, Nobody
    <3>. QED
      BY <3>1, <3>2, <3>3
  <2>. QED
    BY <2>1 DEF NeedsAction, Actionable, Contesting
<1>. QED
  BY <1>1, <1>10, <1>15, <1>18, <1>19, <1>20, <1>21 DEF active

\* Dealing a hand to two or more funded players leaves a sound table.
LEMMA StartHandSound ==
  ASSUME NEW t \in TableState, BetsBounded(t), ~HandActive(t),
         Cardinality(Playable(t)) >= 2
  PROVE  \A u \in StartHand(t) : Sound(u)
BY StartHandDeals, PassTurnSound

-----------------------------------------------------------------------------
(* Operations *)

\* Whatever Apply is given, the table it leaves is sound, provided that the
\* action of the seat kept the table's shape and its bets bounded.
LEMMA ApplySound ==
  ASSUME NEW s \in Seats, NEW t \in TableState, BetsBounded(t), HandActive(t),
         Apply(t, s)
  PROVE  Sound(table') /\ supply' = supply
BY EndActionSound DEF Apply

\* A fold keeps the bets bounded.
LEMMA FoldedBounded ==
  ASSUME NEW s \in Seats, Sound(table), HandActive(table)
  PROVE  Folded(s) \in TableState /\ BetsBounded(Folded(s)) /\ HandActive(Folded(s))
<1>. DEFINE folded == [table.folded EXCEPT ![s] = TRUE]
            acted  == [table.acted EXCEPT ![s] = TRUE]
<1>1. Folded(s) = [table EXCEPT !.folded = folded, !.acted = acted]
  BY DEF Folded
<1>2. table \in TableState
  BY DEF Sound
<1>3. folded \in [Seats -> BOOLEAN] /\ acted \in [Seats -> BOOLEAN]
  BY <1>2 DEF TableState
<1>. HIDE DEF folded, acted
<1>4. Folded(s) \in TableState
  BY <1>1, <1>2, <1>3, Zenon DEF TableState
<1>5. /\ Folded(s).bet = table.bet /\ Folded(s).currentBet = table.currentBet
      /\ Folded(s).street = table.street
  BY <1>1, <1>2 DEF TableState
<1>. QED
  BY <1>4, <1>5 DEF BetsBounded, HandActive, Sound

\* So does marking that a seat acted.
LEMMA CheckedBounded ==
  ASSUME NEW s \in Seats, NEW t \in TableState, BetsBounded(t), HandActive(t)
  PROVE  LET u == [t EXCEPT !.acted[s] = TRUE]
         IN  u \in TableState /\ BetsBounded(u) /\ HandActive(u)
<1>. DEFINE acted == [t.acted EXCEPT ![s] = TRUE]
            u == [t EXCEPT !.acted = acted]
<1>1. acted \in [Seats -> BOOLEAN]
  BY DEF TableState
<1>. HIDE DEF acted
<1>2. u \in TableState
  BY <1>1, Zenon DEF TableState
<1>3. u.bet = t.bet /\ u.currentBet = t.currentBet /\ u.street = t.street
  BY DEF TableState
<1>4. BetsBounded(u) /\ HandActive(u)
  BY <1>3 DEF BetsBounded, HandActive
<1>. QED
  BY <1>2, <1>4 DEF acted

\* A call, or an all-in for no more than a call, keeps the bets bounded.
LEMMA PaidBounded ==
  ASSUME NEW s \in Seats, Sound(table), HandActive(table),
         NEW n \in Nat, table.bet[s] + n <= table.currentBet
  PROVE  Paid(s, n) \in TableState /\ BetsBounded(Paid(s, n)) /\ HandActive(Paid(s, n))
<1>. DEFINE c == Commit(table, s, n)
<1>1. table \in TableState /\ BetsBounded(table)
  BY DEF Sound
<1>2. /\ c \in TableState /\ c.street = table.street
      /\ c.currentBet = table.currentBet
      /\ \A o \in Seats : c.bet[o] <= IF o = s THEN table.bet[o] + n ELSE table.bet[o]
  BY <1>1, CommitType
<1>. HIDE DEF c
<1>3. \A o \in Seats : /\ c.bet[o] \in Nat /\ table.bet[o] \in Nat
                       /\ table.bet[o] <= table.currentBet
  BY <1>1, <1>2 DEF TableState, BetsBounded
<1>4. table.currentBet \in Nat
  BY <1>1 DEF TableState
<1>5. \A o \in Seats : c.bet[o] <= table.currentBet
  BY <1>2, <1>3, <1>4
<1>6. BetsBounded(c) /\ HandActive(c)
  BY <1>2, <1>5 DEF BetsBounded, HandActive
<1>. QED
  BY <1>2, <1>6, CheckedBounded DEF Paid, c

\* A bet, a raise, or an all-in that raises keeps the bets bounded.
LEMMA RaiseBounded ==
  ASSUME NEW s \in Seats, Sound(table), HandActive(table), NEW n \in Nat,
         n > table.currentBet
  PROVE  /\ RaiseTo(table, s, n) \in TableState
         /\ BetsBounded(RaiseTo(table, s, n))
         /\ HandActive(RaiseTo(table, s, n))
BY RaiseToType DEF Sound, HandActive

\* The history of a table that kept its shape keeps its own.
LEMMA RememberType ==
  ASSUME TypeOK, table' \in TableState, Remember(table')
  PROVE  dealt' \in [Seats -> Nat] /\ spoke' \subseteq Seats /\ shown' \subseteq Seats
<1>1. table.stack \in [Seats -> Nat]
  BY DEF TypeOK, TableState
<1>2. table'.lastResult.players \subseteq Seats
  BY DEF TableState, HandResult
<1>3. dealt' \in [Seats -> Nat]
  BY <1>1 DEF TypeOK, Remember
<1>4. spoke' \subseteq Seats
  BY DEF TypeOK, Remember
<1>5. shown' \subseteq Seats
  BY <1>2 DEF TypeOK, Remember
<1>. QED
  BY <1>3, <1>4, <1>5

\* A step that leaves a sound table and remembers what it did keeps IInv.
LEMMA KeepsIInv ==
  ASSUME TypeOK, Sound(table'), Remember(table'), supply' = supply
  PROVE  IInv'
<1>1. table' \in TableState
  BY DEF Sound
<1>. QED
  BY <1>1, RememberType DEF IInv, TypeOK, Sound, BetsBounded, TurnPlayable

\* An action of the seat with the turn keeps IInv, when what it does to the
\* table keeps its shape and its bets bounded.
LEMMA ApplyKeepsIInv ==
  ASSUME IInv, NEW s \in Seats, NEW t \in TableState, BetsBounded(t), HandActive(t),
         Apply(t, s)
  PROVE  IInv'
<1>1. Sound(table') /\ supply' = supply
  BY ApplySound
<1>2. TypeOK /\ Remember(table')
  BY DEF Apply, IInv
<1>. QED
  BY <1>1, <1>2, KeepsIInv

\* Between hands, whatever leaves the street, the bets and the turn alone
\* leaves the table sound.
LEMMA BetweenHandsSound ==
  ASSUME NEW t, Sound(t), ~HandActive(t), NEW u \in TableState,
         u.street = t.street, u.acting = t.acting, u.bet = t.bet,
         u.currentBet = t.currentBet
  PROVE  Sound(u)
BY DEF Sound, BetsBounded, TurnPlayable, HandActive

\* During a hand, whatever leaves alone who must act leaves the table sound.
LEMMA SameTurnSound ==
  ASSUME NEW t, Sound(t), NEW u \in TableState,
         u.street = t.street, u.acting = t.acting, u.bet = t.bet,
         u.currentBet = t.currentBet, u.inHand = t.inHand, u.folded = t.folded,
         u.allIn = t.allIn, u.acted = t.acted
  PROVE  Sound(u)
<1>1. BetsBounded(u)
  BY DEF Sound, BetsBounded, HandActive
<1>2. Contesting(u) = Contesting(t) /\ NeedsAction(u) = NeedsAction(t)
  BY DEF Contesting, NeedsAction, Actionable
<1>3. TurnPlayable(u)
  BY <1>2 DEF Sound, TurnPlayable, HandActive
<1>. QED
  BY <1>1, <1>3 DEF Sound

\* Joining fills an empty seat and disturbs nobody's turn.
LEMMA JoinKeepsIInv ==
  ASSUME IInv, NEW u \in Users, NEW b \in BuyIns, Join(u, b)
  PROVE  IInv'
<1>. DEFINE seat  == NextIn(Seats \ Occupied(table), NoSeat)
            user  == [table.user EXCEPT ![seat] = u]
            stack == [table.stack EXCEPT ![seat] = b]
            ready == IF HandActive(table) THEN table.ready ELSE Nobody
<1>1. table \in TableState /\ Sound(table) /\ b \in Nat
  BY HoldemAssumption DEF IInv, TypeOK
<1>2. table' = [table EXCEPT !.user = user, !.stack = stack, !.ready = ready]
  BY DEF Join
<1>3. seat \in Seats
  BY NextInType DEF Join, Occupied
<1>. HIDE DEF seat
<1>4. /\ user \in [Seats -> Users \cup {NoUser}] /\ stack \in [Seats -> Nat]
      /\ ready \in [Seats -> BOOLEAN]
  BY <1>1, <1>3, ZerosType DEF TableState
<1>. HIDE DEF user, stack, ready
<1>5. table' \in TableState
  BY <1>1, <1>2, <1>4, Zenon DEF TableState
<1>6. /\ table'.street = table.street /\ table'.acting = table.acting
      /\ table'.bet = table.bet /\ table'.currentBet = table.currentBet
      /\ table'.inHand = table.inHand /\ table'.folded = table.folded
      /\ table'.allIn = table.allIn /\ table'.acted = table.acted
  BY <1>1, <1>2 DEF TableState
<1>7. Sound(table')
  BY <1>1, <1>5, <1>6, SameTurnSound
<1>8. /\ supply' \in Int /\ dealt' \in [Seats -> Nat] /\ spoke' \subseteq Seats
      /\ shown' \subseteq Seats
  BY <1>1 DEF Join, IInv, TypeOK
<1>. QED
  BY <1>5, <1>7, <1>8 DEF IInv, TypeOK, Sound, BetsBounded, TurnPlayable

\* Leaving empties a seat between hands.
LEMMA LeaveKeepsIInv ==
  ASSUME IInv, NEW u \in Users, Leave(u)
  PROVE  IInv'
<1>1. table \in TableState /\ Sound(table) /\ ~HandActive(table)
  BY DEF IInv, TypeOK, Leave
<1>2. PICK seat \in Seats :
        /\ table' = [table EXCEPT
             !.user[seat] = NoUser, !.stack[seat] = 0, !.hole[seat] = FALSE,
             !.folded[seat] = FALSE, !.ready = Nobody]
        /\ supply' = supply - table.stack[seat]
        /\ shown' = shown \ {seat}
  BY DEF Leave, SeatOf
<1>. DEFINE user   == [table.user EXCEPT ![seat] = NoUser]
            stack  == [table.stack EXCEPT ![seat] = 0]
            hole   == [table.hole EXCEPT ![seat] = FALSE]
            folded == [table.folded EXCEPT ![seat] = FALSE]
<1>3. table' = [table EXCEPT !.user = user, !.stack = stack, !.hole = hole,
                             !.folded = folded, !.ready = Nobody]
  BY <1>2
<1>4. /\ user \in [Seats -> Users \cup {NoUser}] /\ stack \in [Seats -> Nat]
      /\ hole \in [Seats -> BOOLEAN] /\ folded \in [Seats -> BOOLEAN]
  BY <1>1 DEF TableState
<1>. HIDE DEF user, stack, hole, folded
<1>5. table' \in TableState
  BY <1>1, <1>3, <1>4, ZerosType, Zenon DEF TableState
<1>6. /\ table'.street = table.street /\ table'.acting = table.acting
      /\ table'.bet = table.bet /\ table'.currentBet = table.currentBet
  BY <1>1, <1>3 DEF TableState
<1>7. Sound(table')
  BY <1>1, <1>5, <1>6, BetweenHandsSound
<1>8. table.stack[seat] \in Nat
  BY <1>1 DEF TableState
<1>9. /\ supply' \in Int /\ dealt' \in [Seats -> Nat] /\ spoke' \subseteq Seats
      /\ shown' \subseteq Seats
  BY <1>2, <1>8 DEF Leave, IInv, TypeOK
<1>. QED
  BY <1>5, <1>7, <1>9 DEF IInv, TypeOK, Sound, BetsBounded, TurnPlayable

\* A player getting ready, or not ready again, changes nothing but marks.
LEMMA ReadyMarksSound ==
  ASSUME NEW t \in TableState, Sound(t), NEW ready \in [Seats -> BOOLEAN]
  PROVE  LET u == [t EXCEPT !.ready = ready]
         IN  u \in TableState /\ Sound(u) /\ u.street = t.street /\ u.stack = t.stack
<1>. DEFINE u == [t EXCEPT !.ready = ready]
<1>1. u \in TableState
  BY Zenon DEF TableState
<1>2. /\ u.street = t.street /\ u.acting = t.acting /\ u.stack = t.stack
      /\ u.bet = t.bet /\ u.currentBet = t.currentBet
      /\ u.inHand = t.inHand /\ u.folded = t.folded
      /\ u.allIn = t.allIn /\ u.acted = t.acted
  BY DEF TableState
<1>. HIDE DEF u
<1>3. Sound(u)
  BY <1>1, <1>2, SameTurnSound
<1>. QED
  BY <1>1, <1>2, <1>3 DEF u

\* The marks of a player who got ready.
LEMMA MarkedSound ==
  ASSUME IInv, NEW u \in Users
  PROVE  /\ Marked(u) \in TableState /\ Sound(Marked(u))
         /\ Marked(u).street = table.street /\ Marked(u).stack = table.stack
<1>. DEFINE ready == [s \in Seats |-> table.ready[s] \/ s \in SeatOf(table, u)]
<1>1. table \in TableState /\ Sound(table)
  BY DEF IInv, TypeOK
<1>2. ready \in [Seats -> BOOLEAN]
  BY <1>1 DEF TableState
<1>3. Marked(u) = [table EXCEPT !.ready = ready]
  BY DEF Marked
<1>. HIDE DEF ready
<1>. QED
  BY <1>1, <1>2, <1>3, ReadyMarksSound

\* Getting ready keeps IInv: marking, dealing, or failing to shuffle.
LEMMA ReadyKeepsIInv ==
  ASSUME IInv, NEW u \in Users,
         Ready(u) \/ ReadyAndDeal(u) \/ ReadyWithoutShuffle(u)
  PROVE  IInv'
<1>1. table \in TableState /\ Sound(table)
  BY DEF IInv, TypeOK
<1>2. CASE Ready(u)
  <2>1. table' \in TableState /\ Sound(table')
    BY <1>2, MarkedSound DEF Ready
  <2>2. /\ supply' \in Int /\ dealt' \in [Seats -> Nat] /\ spoke' \subseteq Seats
        /\ shown' \subseteq Seats
    BY <1>2 DEF Ready, IInv, TypeOK
  <2>. QED
    BY <2>1, <2>2 DEF IInv, TypeOK, Sound, BetsBounded, TurnPlayable
<1>3. CASE ReadyAndDeal(u)
  <2>1. /\ Marked(u) \in TableState /\ BetsBounded(Marked(u))
        /\ ~HandActive(Marked(u))
    BY <1>3, MarkedSound DEF ReadyAndDeal, CanReady, Sound, HandActive
  <2>2. Playable(Marked(u)) = Playable(table)
    BY MarkedSound DEF Playable
  <2>3. \A t \in StartHand(Marked(u)) : Sound(t)
    BY <1>3, <2>1, <2>2, StartHandSound DEF ReadyAndDeal, CanReady
  <2>4. Sound(table') /\ TypeOK /\ Remember(table') /\ supply' = supply
    BY <1>3, <2>3 DEF ReadyAndDeal, IInv
  <2>. QED
    BY <2>4, KeepsIInv
<1>4. CASE ReadyWithoutShuffle(u)
  <2>. DEFINE ready == [s \in Seats |-> table.ready[s] /\ s \notin SeatOf(table, u)]
  <2>1. ready \in [Seats -> BOOLEAN]
    BY <1>1 DEF TableState
  <2>2. table' = [table EXCEPT !.ready = ready]
    BY <1>4 DEF ReadyWithoutShuffle
  <2>. HIDE DEF ready
  <2>3. table' \in TableState /\ Sound(table')
    BY <1>1, <2>1, <2>2, ReadyMarksSound
  <2>4. /\ supply' \in Int /\ dealt' \in [Seats -> Nat] /\ spoke' \subseteq Seats
        /\ shown' \subseteq Seats
    BY <1>4 DEF ReadyWithoutShuffle, IInv, TypeOK
  <2>. QED
    BY <2>3, <2>4 DEF IInv, TypeOK, Sound, BetsBounded, TurnPlayable
<1>. QED
  BY <1>2, <1>3, <1>4

\* The deadline passing marks the turn and nothing else.
LEMMA DeadlineKeepsIInv ==
  ASSUME IInv, DeadlinePasses
  PROVE  IInv'
<1>1. table \in TableState /\ Sound(table)
  BY DEF IInv, TypeOK
<1>2. table' = [table EXCEPT !.expired = TRUE]
  BY DEF DeadlinePasses
<1>3. table' \in TableState
  BY <1>1, <1>2, Zenon DEF TableState
<1>4. /\ table'.street = table.street /\ table'.acting = table.acting
      /\ table'.bet = table.bet /\ table'.currentBet = table.currentBet
      /\ table'.inHand = table.inHand /\ table'.folded = table.folded
      /\ table'.allIn = table.allIn /\ table'.acted = table.acted
  BY <1>1, <1>2 DEF TableState
<1>5. Sound(table')
  BY <1>1, <1>3, <1>4, SameTurnSound
<1>6. /\ supply' \in Int /\ dealt' \in [Seats -> Nat] /\ spoke' \subseteq Seats
      /\ shown' \subseteq Seats
  BY DEF DeadlinePasses, IInv, TypeOK
<1>. QED
  BY <1>3, <1>5, <1>6 DEF IInv, TypeOK, Sound, BetsBounded, TurnPlayable

\* A check keeps IInv.
LEMMA CheckedKeepsIInv ==
  ASSUME IInv, NEW s \in Seats, HandActive(table), Apply(Checked(s), s)
  PROVE  IInv'
<1>1. table \in TableState /\ BetsBounded(table)
  BY DEF IInv, Sound
<1>2. Checked(s) \in TableState /\ BetsBounded(Checked(s)) /\ HandActive(Checked(s))
  BY <1>1, CheckedBounded DEF Checked
<1>. QED
  BY <1>2, ApplyKeepsIInv

\* A fold keeps IInv.
LEMMA FoldedKeepsIInv ==
  ASSUME IInv, NEW s \in Seats, HandActive(table), Apply(Folded(s), s)
  PROVE  IInv'
BY FoldedBounded, ApplyKeepsIInv DEF IInv

\* Paying no more than what there is to call keeps IInv.
LEMMA PaidKeepsIInv ==
  ASSUME IInv, NEW s \in Seats, HandActive(table), NEW n \in Nat,
         table.bet[s] + n <= table.currentBet, Apply(Paid(s, n), s)
  PROVE  IInv'
BY PaidBounded, ApplyKeepsIInv DEF IInv

\* Raising to more than the bet keeps IInv.
LEMMA RaisedKeepsIInv ==
  ASSUME IInv, NEW s \in Seats, HandActive(table), NEW n \in Nat,
         n > table.currentBet, Apply(RaiseTo(table, s, n), s)
  PROVE  IInv'
BY RaiseBounded, ApplyKeepsIInv DEF IInv

\* Every action of a player with the turn keeps IInv.
LEMMA ActKeepsIInv ==
  ASSUME IInv, NEW s \in Seats,
         \/ Fold(s) \/ Check(s) \/ Call(s) \/ AllIn(s)
         \/ \E n \in 1..MaxChips : Bet(s, n) \/ Raise(s, n)
  PROVE  IInv'
<1>1. HandActive(table)
  BY DEF Fold, Check, Call, AllIn, Bet, Raise, MayAct
<1>2. /\ table.bet[s] \in Nat /\ table.stack[s] \in Nat /\ table.currentBet \in Nat
      /\ table.bet[s] <= table.currentBet
  BY DEF IInv, TypeOK, TableState, Sound, BetsBounded
<1>3. CASE Fold(s)
  BY <1>1, <1>3, FoldedKeepsIInv DEF Fold
<1>4. CASE Check(s)
  BY <1>1, <1>4, CheckedKeepsIInv DEF Check
<1>5. CASE Call(s)
  <2>1. ToCall(table, s) \in Nat /\ table.bet[s] + ToCall(table, s) <= table.currentBet
    BY <1>2 DEF ToCall, Larger
  <2>. QED
    BY <1>1, <1>5, <2>1, PaidKeepsIInv DEF Call
<1>6. CASE AllIn(s)
  <2>. DEFINE n == Maximum(table, s)
  <2>1. n \in Nat /\ n = table.bet[s] + table.stack[s]
    BY <1>2 DEF Maximum
  <2>. HIDE DEF n
  <2>2. \/ n <= table.currentBet /\ Apply(Paid(s, table.stack[s]), s)
        \/ n > table.currentBet /\ Apply(RaiseTo(table, s, n), s)
    BY <1>6 DEF AllIn, n
  <2>. QED
    BY <1>1, <1>2, <2>1, <2>2, PaidKeepsIInv, RaisedKeepsIInv
<1>7. CASE \E n \in 1..MaxChips : Bet(s, n) \/ Raise(s, n)
  <2>1. PICK n \in 1..MaxChips : Bet(s, n) \/ Raise(s, n)
    BY <1>7
  <2>2. n \in Nat /\ n > table.currentBet /\ Apply(RaiseTo(table, s, n), s)
    BY <2>1 DEF Bet, Raise, RaiseAccepted
  <2>. QED
    BY <1>1, <2>2, RaisedKeepsIInv
<1>. QED
  BY <1>3, <1>4, <1>5, <1>6, <1>7

\* The timeout of a turn keeps IInv.
LEMMA TimeoutKeepsIInv ==
  ASSUME IInv, Timeout(table.turnID)
  PROVE  IInv'
<1>1. HandActive(table) /\ table.acting \in Seats
  BY DEF Timeout, IInv, TypeOK, TableState
<1>2. Apply(Checked(table.acting), table.acting) \/ Apply(Folded(table.acting), table.acting)
  BY DEF Timeout
<1>. QED
  BY <1>1, <1>2, CheckedKeepsIInv, FoldedKeepsIInv

-----------------------------------------------------------------------------
(* Theorems *)

\* A table just made is sound.
LEMMA NewTableSound == Sound(NewTable)
<1>1. NoResult \in HandResult
  <2>1. Zeros \in [Seats -> Int] /\ 0 \in Nat
    BY DEF Zeros
  <2>. QED
    BY <2>1, ZerosType, Zenon DEF NoResult, HandResult
<1>2. /\ "waiting" \in Streets /\ NoSeat \in Seats \cup {NoSeat} /\ BigBlind \in Nat
      /\ [s \in Seats |-> NoUser] \in [Seats -> Users \cup {NoUser}] /\ 0 \in Nat
  BY HoldemAssumption DEF Streets
<1>3. NewTable \in TableState
  BY <1>1, <1>2, ZerosType, Zenon DEF NewTable, TableState
<1>4. /\ NewTable.street = "waiting" /\ NewTable.bet = Zeros /\ NewTable.currentBet = 0
      /\ NewTable.acting = NoSeat
  BY DEF NewTable
<1>. QED
  BY <1>3, <1>4 DEF Sound, BetsBounded, TurnPlayable, HandActive, BettingStreets, Zeros

\* An empty table satisfies the inductive invariant.
LEMMA InitIInv == Init => IInv
BY NewTableSound, ZerosType DEF Init, IInv, TypeOK, Sound

\* Every step of the table keeps the inductive invariant.
LEMMA NextIInv == IInv /\ [Next]_vars => IInv'
<1>. SUFFICES ASSUME IInv, [Next]_vars PROVE IInv'
  OBVIOUS
<1>1. CASE \E u \in Users, b \in BuyIns : Join(u, b)
  BY <1>1, JoinKeepsIInv
<1>2. CASE \E u \in Users : Leave(u)
  BY <1>2, LeaveKeepsIInv
<1>3. CASE \E u \in Users : Ready(u) \/ ReadyAndDeal(u) \/ ReadyWithoutShuffle(u)
  BY <1>3, ReadyKeepsIInv
<1>4. CASE \E s \in Seats :
             \/ Fold(s) \/ Check(s) \/ Call(s) \/ AllIn(s)
             \/ \E n \in 1..MaxChips : Bet(s, n) \/ Raise(s, n)
  BY <1>4, ActKeepsIInv
<1>5. CASE DeadlinePasses
  BY <1>5, DeadlineKeepsIInv
<1>6. CASE Timeout(table.turnID)
  BY <1>6, TimeoutKeepsIInv
<1>7. CASE UNCHANGED vars
  BY <1>7 DEF vars, IInv, TypeOK, Sound, BetsBounded, TurnPlayable, HandActive,
              NeedsAction, Actionable, Contesting
<1>. QED
  BY <1>1, <1>2, <1>3, <1>4, <1>5, <1>6, <1>7 DEF Next

\* Type correctness: whatever the players and the clock do, the table keeps the
\* shape of a TableState; in particular no stack, bet or commitment is negative.
THEOREM TypeCorrect == Spec => []TypeOK
<1>1. IInv => TypeOK
  BY DEF IInv
<1>. QED
  BY <1>1, InitIInv, NextIInv, PTL DEF Spec

\* A running hand always waits for a seat that has a decision to make against
\* somebody, and no seat has the turn between hands, for any number of seats and
\* players: after every call of Act, Timeout and Ready the turn is never left with
\* a seat that has folded, is all-in, or has already matched the bet.
THEOREM TurnAlwaysPlayable == Spec => []TurnIsPlayable
<1>1. IInv => TurnIsPlayable
  BY DEF IInv, Sound, TurnPlayable, TurnIsPlayable
<1>. QED
  BY <1>1, InitIInv, NextIInv, PTL DEF Spec

-----------------------------------------------------------------------------
(* What becomes of a hand after an action *)

\* u is t apart from the street, its bets and the turn, which is not an earlier one.
SameHand(t, u) ==
  /\ u \in TableState
  /\ u.user = t.user /\ u.stack = t.stack /\ u.committed = t.committed
  /\ u.hole = t.hole /\ u.inHand = t.inHand /\ u.folded = t.folded
  /\ u.allIn = t.allIn /\ u.dealer = t.dealer /\ u.handID = t.handID
  /\ u.lastResult = t.lastResult /\ u.turnID >= t.turnID

\* The bets of the street are those of t.
SameBets(t, u) ==
  /\ u.street = t.street /\ u.bet = t.bet /\ u.currentBet = t.currentBet
  /\ u.minRaise = t.minRaise /\ u.acted = t.acted /\ u.actedAtBet = t.actedAtBet

\* No bets yet on another street, the one of t being complete.
NewBets(t, u) ==
  /\ u.street # t.street /\ NeedsAction(t) = {}
  /\ u.bet = Zeros /\ u.currentBet = 0 /\ u.acted = Nobody /\ u.actedAtBet = Zeros
  /\ u.minRaise = BigBlind

HandGoesOn(t, u) ==
  /\ SameHand(t, u)
  /\ SameBets(t, u) \/ NewBets(t, u)
  /\ HandActive(u) /\ u.turnID > t.turnID /\ ~u.expired

\* The hand t is paid out as u.lastResult records.
Settled(t, u) ==
  /\ u.user = t.user /\ u.hole = t.hole /\ u.folded = t.folded /\ u.handID = t.handID
  /\ u.committed = Zeros /\ u.inHand = Nobody /\ u.acted = Nobody /\ u.ready = Nobody
  /\ u.actedAtBet = Zeros /\ u.bet = Zeros /\ u.currentBet = 0 /\ u.street = "complete"
  /\ u.turnID > t.turnID /\ ~u.expired
  /\ \A s \in Seats :
       u.stack[s] = t.stack[s] + Refund(t.committed)[s] + u.lastResult.payout[s]
  /\ u.lastResult.players = {s \in Seats : t.inHand[s]}
  /\ u.lastResult.folded = t.folded
  /\ u.lastResult.committed = Staked(t) /\ u.lastResult.pot = SeatSum(Staked(t))
  /\ \A s \in u.lastResult.players :
       u.lastResult.start[s] = t.stack[s] + t.committed[s]

\* Hands were compared, of two players at least.
ComparedHands(t, u) ==
  /\ u.lastResult.showdown /\ \E a, b \in Contesting(t) : a # b
  /\ \E rank \in Ranks :
       u.lastResult.payout = Payout(Staked(t), Contesting(t), rank, t.dealer)

\* All but one folded.
LastOneWon(t, u) ==
  /\ ~u.lastResult.showdown
  /\ Contesting(t) # {} /\ \A a, b \in Contesting(t) : a = b
  /\ u.lastResult.payout =
       [s \in Seats |-> IF s \in Contesting(t) THEN SeatSum(Staked(t)) ELSE 0]

EndsHand(t, u) ==
  /\ u \in TableState /\ Settled(t, u)
  /\ ComparedHands(t, u) \/ LastOneWon(t, u)

\* What comes of a hand: it goes on, or it ends, by a comparison of the hands
\* only if nobody had to act any more.
Outcome(t, u) ==
  \/ HandGoesOn(t, u)
  \/ EndsHand(t, u) /\ (u.lastResult.showdown => NeedsAction(t) = {})

\* Turns are numbered.
LEMMA TurnIDType == \A t \in TableState : t.turnID \in Nat
BY DEF TableState

\* Who may act, and who must, depends on the players and the bets only.
LEMMA SameMust ==
  ASSUME NEW t, NEW u, u.inHand = t.inHand, u.folded = t.folded, u.allIn = t.allIn
  PROVE  /\ Contesting(u) = Contesting(t) /\ Actionable(u) = Actionable(t)
         /\ u.acted = t.acted /\ u.bet = t.bet /\ u.currentBet = t.currentBet
              => NeedsAction(u) = NeedsAction(t)
BY DEF Contesting, Actionable, NeedsAction

\* Giving the turn keeps hand and bets.
LEMMA SetActingSame ==
  ASSUME NEW t \in TableState, NEW s \in Seats \cup {NoSeat}
  PROVE  /\ SameHand(t, SetActing(t, s)) /\ SameBets(t, SetActing(t, s))
         /\ SetActing(t, s).turnID > t.turnID /\ ~SetActing(t, s).expired
<1>. DEFINE u == SetActing(t, s)
<1>1. /\ u.user = t.user /\ u.stack = t.stack /\ u.committed = t.committed
      /\ u.hole = t.hole /\ u.inHand = t.inHand /\ u.folded = t.folded
      /\ u.allIn = t.allIn /\ u.dealer = t.dealer /\ u.handID = t.handID
      /\ u.lastResult = t.lastResult /\ u.turnID = t.turnID + 1
      /\ u.street = t.street /\ u.bet = t.bet /\ u.currentBet = t.currentBet
      /\ u.minRaise = t.minRaise /\ u.acted = t.acted /\ u.actedAtBet = t.actedAtBet
      /\ ~u.expired
  BY DEF SetActing, TableState
<1>2. t.turnID \in Nat /\ u \in TableState
  BY SetActingType DEF TableState
<1>. HIDE DEF u
<1>. QED
  BY <1>1, <1>2 DEF SameHand, SameBets, u

\* Whatever the hand came to after the turn was given, it came to from there.
LEMMA SameHandEnds ==
  ASSUME NEW t \in TableState, NEW v \in TableState, SameHand(t, v), NEW u,
         EndsHand(v, u)
  PROVE  EndsHand(t, u)
<1>1. Contesting(v) = Contesting(t) /\ Staked(v) = Staked(t)
  BY DEF SameHand, Contesting, Staked
<1>2. t.turnID \in Nat /\ v.turnID \in Nat /\ u.turnID \in Nat
  BY DEF TableState, EndsHand
<1>3. Settled(t, u)
  BY <1>1, <1>2 DEF SameHand, EndsHand, Settled
<1>. QED
  BY <1>1, <1>3 DEF SameHand, EndsHand, ComparedHands, LastOneWon

\* Finishing a hand with a payout settles it, and records that payout.
LEMMA FinishHandEnds ==
  ASSUME NEW t \in TableState, NEW showdown \in BOOLEAN, NEW payout \in [Seats -> Nat]
  PROVE  LET u == FinishHand(t, showdown, payout)
         IN  /\ u \in TableState /\ Settled(t, u)
             /\ u.lastResult.showdown = showdown /\ u.lastResult.payout = payout
<1>. DEFINE ending  == [s \in Seats |-> t.stack[s] + Refund(t.committed)[s] + payout[s]]
            players == {s \in Seats : t.inHand[s]}
            start   == [s \in Seats |->
                          IF s \in players
                            THEN [o \in Seats |-> ending[o] + Staked(t)[o] - payout[o]][s]
                            ELSE 0]
            final   == [s \in Seats |-> IF s \in players THEN ending[s] ELSE 0]
            result  == [showdown |-> showdown, pot |-> SeatSum(Staked(t)),
                        players |-> players, folded |-> t.folded,
                        committed |-> Staked(t), payout |-> payout,
                        start |-> start, ending |-> final]
            closed  == [t EXCEPT
              !.stack = ending, !.bet = Zeros, !.committed = Zeros, !.ready = Nobody,
              !.inHand = Nobody, !.allIn = Nobody, !.acted = Nobody,
              !.actedAtBet = Zeros, !.currentBet = 0, !.street = "complete",
              !.lastResult = result]
            u == [closed EXCEPT !.acting = NoSeat, !.turnID = @ + 1, !.expired = FALSE]
<1>1. FinishHand(t, showdown, payout) = u
  BY DEF FinishHand, SetActing
<1>2. u \in TableState
  BY <1>1, FinishHandSound DEF Sound
<1>3. \A s \in players : start[s] = t.stack[s] + t.committed[s]
  <2>1. ASSUME NEW s \in Seats
        PROVE  /\ t.stack[s] \in Nat /\ t.committed[s] \in Nat
               /\ Refund(t.committed)[s] \in Nat /\ payout[s] \in Nat
               /\ Staked(t)[s] = t.committed[s] - Refund(t.committed)[s]
    BY StakedType DEF TableState, Staked
  <2>2. ASSUME NEW s \in players
        PROVE  start[s] = t.stack[s] + t.committed[s]
    <3>1. start[s] = t.stack[s] + Refund(t.committed)[s] + payout[s] + Staked(t)[s] - payout[s]
      BY <2>2
    <3>. QED
      BY <2>1, <3>1
  <2>. QED
    BY <2>2
<1>. HIDE DEF ending, start, final, players
<1>4. /\ result.showdown = showdown /\ result.payout = payout /\ result.players = players
      /\ result.folded = t.folded /\ result.committed = Staked(t) /\ result.start = start
      /\ result.pot = SeatSum(Staked(t))
  OBVIOUS
<1>. HIDE DEF result
<1>5. /\ u.user = t.user /\ u.hole = t.hole /\ u.folded = t.folded /\ u.handID = t.handID
      /\ u.committed = Zeros /\ u.inHand = Nobody /\ u.acted = Nobody /\ u.ready = Nobody
      /\ u.actedAtBet = Zeros /\ u.bet = Zeros /\ u.currentBet = 0
      /\ u.street = "complete" /\ u.turnID = t.turnID + 1 /\ u.expired = FALSE
      /\ u.stack = ending /\ u.lastResult = result
  BY DEF TableState
<1>6. t.turnID \in Nat
  BY DEF TableState
<1>. HIDE DEF u
<1>7. Settled(t, u)
  <2>1. u.turnID > t.turnID
    BY <1>5, <1>6
  <2>2. \A s \in Seats : ending[s] = t.stack[s] + Refund(t.committed)[s] + payout[s]
    BY DEF ending
  <2>3. players = {s \in Seats : t.inHand[s]}
    BY DEF players
  <2>. QED
    BY <1>3, <1>4, <1>5, <2>1, <2>2, <2>3 DEF Settled
<1>. QED
  BY <1>1, <1>2, <1>4, <1>5, <1>7

\* A showdown ends the hand.
LEMMA FinishShowdownEnds ==
  ASSUME NEW t \in TableState, \E a, b \in Contesting(t) : a # b
  PROVE  \A u \in FinishShowdown(t) : EndsHand(t, u)
<1>1. Contesting(t) \in SUBSET Seats
  BY DEF Contesting
<1>2. \A rank : Payout(Staked(t), Contesting(t), rank, t.dealer) \in [Seats -> Nat]
  BY <1>1, StakedType, PayoutType
<1>3. ASSUME NEW rank \in Ranks
      PROVE  EndsHand(t, FinishHand(t, TRUE, Payout(Staked(t), Contesting(t), rank, t.dealer)))
  <2>. DEFINE payout == Payout(Staked(t), Contesting(t), rank, t.dealer)
              u == FinishHand(t, TRUE, payout)
  <2>1. /\ u \in TableState /\ Settled(t, u)
        /\ u.lastResult.showdown = TRUE /\ u.lastResult.payout = payout
    <3>1. payout \in [Seats -> Nat]
      BY <1>2
    <3>. HIDE DEF payout
    <3>. QED
      BY <3>1, FinishHandEnds
  <2>. HIDE DEF u
  <2>. QED
    BY <2>1 DEF EndsHand, ComparedHands, u
<1>. QED
  BY <1>3 DEF FinishShowdown

\* Once all but one have folded, the hand ends without a showdown.
LEMMA FinishUncontestedEnds ==
  ASSUME NEW t \in TableState, Contesting(t) # {}, \A a, b \in Contesting(t) : a = b
  PROVE  EndsHand(t, FinishUncontested(t)) /\ ~FinishUncontested(t).lastResult.showdown
<1>. DEFINE payout == [s \in Seats |-> IF s \in Contesting(t) THEN SeatSum(Staked(t)) ELSE 0]
            u == FinishHand(t, FALSE, payout)
<1>1. payout \in [Seats -> Nat]
  BY StakedType, SeatSumType
<1>2. /\ u \in TableState /\ Settled(t, u)
      /\ u.lastResult.showdown = FALSE /\ u.lastResult.payout = payout
  <2>. HIDE DEF payout
  <2>. QED
    BY <1>1, FinishHandEnds
<1>3. FinishUncontested(t) = u
  BY DEF FinishUncontested
<1>. HIDE DEF u
<1>. QED
  BY <1>2, <1>3 DEF EndsHand, LastOneWon

\* Closing a street opens the next one, or ends the hand.
LEMMA AdvanceStreetOutcome ==
  ASSUME NEW t \in TableState, HandActive(t), NeedsAction(t) = {},
         \E a, b \in Contesting(t) : a # b
  PROVE  \A u \in AdvanceStreet(t) : Outcome(t, u)
<1>. DEFINE cleared == [t EXCEPT !.bet = Zeros, !.currentBet = 0, !.minRaise = BigBlind,
                                 !.acted = Nobody, !.actedAtBet = Zeros]
            dealtOn == [cleared EXCEPT !.street = NextStreet[@]]
            next    == NextIn(NeedsAction(dealtOn), t.dealer)
            turn    == SetActing(dealtOn, next)
<1>1. AdvanceStreet(t) =
        IF t.street = "river" THEN FinishShowdown(cleared)
        ELSE IF \A a, b \in Actionable(dealtOn) : a = b THEN FinishShowdown(dealtOn)
        ELSE IF turn.acting = NoSeat THEN FinishShowdown(turn)
        ELSE {turn}
  BY DEF AdvanceStreet
<1>2. cleared \in TableState
  <2>1. 0 \in Nat /\ BigBlind \in Nat
    BY HoldemAssumption
  <2>. QED
    BY <2>1, ZerosType, Zenon DEF TableState
<1>3. /\ cleared.street = t.street /\ cleared.bet = Zeros /\ cleared.currentBet = 0
      /\ cleared.acted = Nobody /\ cleared.actedAtBet = Zeros
      /\ cleared.minRaise = BigBlind /\ SameHand(t, cleared)
  BY <1>2 DEF TableState, SameHand
<1>. HIDE DEF cleared
<1>4. ASSUME NEW v \in TableState, SameHand(t, v), NEW u \in FinishShowdown(v)
      PROVE  Outcome(t, u)
  <2>1. \E a, b \in Contesting(v) : a # b
    BY <1>4 DEF SameHand, Contesting
  <2>. QED
    BY <1>4, <2>1, FinishShowdownEnds, SameHandEnds DEF Outcome
<1>5. CASE t.street = "river"
  BY <1>1, <1>2, <1>3, <1>4, <1>5
<1>6. CASE t.street # "river"
  <2>1. /\ NextStreet[cleared.street] \in Streets
        /\ NextStreet[cleared.street] \in BettingStreets
        /\ NextStreet[cleared.street] # t.street
    BY <1>3, <1>6 DEF HandActive, BettingStreets, Streets, NextStreet
  <2>2. dealtOn \in TableState
    BY <1>2, <2>1, Zenon DEF TableState
  <2>3. /\ dealtOn.street = NextStreet[cleared.street]
        /\ dealtOn.bet = Zeros /\ dealtOn.currentBet = 0 /\ dealtOn.acted = Nobody
        /\ dealtOn.actedAtBet = Zeros /\ dealtOn.minRaise = BigBlind
        /\ SameHand(t, dealtOn)
    BY <1>2, <1>3, <2>2 DEF TableState, SameHand
  <2>. HIDE DEF dealtOn
  <2>4. next \in Seats \cup {NoSeat}
    <3>1. NeedsAction(dealtOn) \in SUBSET Seats /\ t.dealer \in Seats \cup {NoSeat}
      BY DEF NeedsAction, Actionable, Contesting, TableState
    <3>. QED
      BY <3>1, NextInType
  <2>. HIDE DEF next
  <2>5. /\ turn \in TableState /\ SameHand(dealtOn, turn) /\ SameBets(dealtOn, turn)
        /\ turn.turnID > dealtOn.turnID /\ ~turn.expired
    BY <2>2, <2>4, SetActingType, SetActingSame
  <2>. HIDE DEF turn
  <2>6. SameHand(t, turn) /\ turn.turnID > t.turnID
    <3>1. t.turnID \in Nat /\ turn.turnID \in Nat /\ dealtOn.turnID \in Nat
      BY <2>2, <2>5 DEF TableState
    <3>. QED
      BY <2>3, <2>5, <3>1 DEF SameHand
  <2>7. HandGoesOn(t, turn)
    BY <2>1, <2>3, <2>5, <2>6 DEF HandGoesOn, SameBets, NewBets, HandActive
  <2>. QED
    BY <1>1, <1>4, <1>6, <2>2, <2>3, <2>5, <2>6, <2>7 DEF Outcome
<1>. QED
  BY <1>5, <1>6

\* Passing the turn gives it to a seat that must act, or closes the street.
LEMMA PassTurnOutcome ==
  ASSUME NEW t \in TableState, HandActive(t), NEW from \in Seats,
         \E a, b \in Contesting(t) : a # b
  PROVE  \A u \in PassTurn(t, from) : Outcome(t, u)
<1>. DEFINE next == NextIn(NeedsAction(t), from)
            turn == SetActing(t, next)
<1>1. PassTurn(t, from) =
        IF turn.acting = NoSeat THEN AdvanceStreet(turn) ELSE {turn}
  BY DEF PassTurn
<1>2. NeedsAction(t) \in SUBSET Seats
  BY DEF NeedsAction, Actionable, Contesting
<1>3. /\ next \in Seats \cup {NoSeat}
      /\ next = NoSeat => NeedsAction(t) = {}
  <2>1. NoSeat \notin Seats /\ from \in Seats \cup {NoSeat}
    BY DEF Seats, NoSeat
  <2>. QED
    BY <1>2, <2>1, NextInType
<1>. HIDE DEF next
<1>4. /\ turn \in TableState /\ turn.acting = next /\ turn.street = t.street
      /\ SameHand(t, turn) /\ SameBets(t, turn)
      /\ turn.turnID > t.turnID /\ ~turn.expired
      /\ NeedsAction(turn) = NeedsAction(t) /\ Contesting(turn) = Contesting(t)
  BY <1>3, SetActingType, SetActingSame
<1>. HIDE DEF turn
<1>5. HandActive(turn)
  BY <1>4 DEF HandActive
<1>6. HandGoesOn(t, turn)
  BY <1>4, <1>5 DEF HandGoesOn
<1>7. ASSUME NeedsAction(t) = {}, NEW u \in AdvanceStreet(turn)
      PROVE  Outcome(t, u)
  <2>1. Outcome(turn, u)
    BY <1>4, <1>5, <1>7, AdvanceStreetOutcome
  <2>2. CASE HandGoesOn(turn, u)
    <3>1. t.turnID \in Nat /\ turn.turnID \in Nat /\ u.turnID \in Nat
      <4>1. u \in TableState
        BY <2>2 DEF HandGoesOn, SameHand
      <4>. QED
        BY <1>4, <4>1, TurnIDType
    <3>2. SameHand(t, u) /\ u.turnID > t.turnID
      BY <1>4, <2>2, <3>1 DEF HandGoesOn, SameHand
    <3>3. SameBets(t, u) \/ NewBets(t, u)
      BY <1>4, <2>2 DEF HandGoesOn, SameBets, NewBets
    <3>. QED
      BY <2>2, <3>2, <3>3 DEF Outcome, HandGoesOn
  <2>3. CASE EndsHand(turn, u)
    BY <1>4, <1>7, <2>3, SameHandEnds DEF Outcome
  <2>. QED
    BY <2>1, <2>2, <2>3 DEF Outcome
<1>. QED
  BY <1>1, <1>3, <1>4, <1>6, <1>7 DEF Outcome

\* The seat that acted has answered the bet.
Answered(t, s) == [t EXCEPT !.actedAtBet[s] = t.currentBet]

\* Answering the bet changes only the bet that the seat answered.
LEMMA AnsweredType ==
  ASSUME NEW t \in TableState, NEW s \in Seats
  PROVE  /\ Answered(t, s) \in TableState
         /\ SameHand(t, Answered(t, s))
         /\ Answered(t, s).street = t.street /\ Answered(t, s).bet = t.bet
         /\ Answered(t, s).currentBet = t.currentBet
         /\ Answered(t, s).minRaise = t.minRaise /\ Answered(t, s).acted = t.acted
         /\ Answered(t, s).actedAtBet = [t.actedAtBet EXCEPT ![s] = t.currentBet]
         /\ Answered(t, s).turnID = t.turnID
<1>. DEFINE at == [t.actedAtBet EXCEPT ![s] = t.currentBet]
            u == [t EXCEPT !.actedAtBet = at]
<1>1. Answered(t, s) = u
  BY DEF Answered
<1>2. at \in [Seats -> Nat]
  BY DEF TableState
<1>. HIDE DEF at
<1>3. u \in TableState
  BY <1>2, Zenon DEF TableState
<1>4. /\ u.user = t.user /\ u.stack = t.stack /\ u.committed = t.committed
      /\ u.hole = t.hole /\ u.inHand = t.inHand /\ u.folded = t.folded
      /\ u.allIn = t.allIn /\ u.dealer = t.dealer /\ u.handID = t.handID
      /\ u.lastResult = t.lastResult /\ u.turnID = t.turnID
      /\ u.street = t.street /\ u.bet = t.bet /\ u.currentBet = t.currentBet
      /\ u.minRaise = t.minRaise /\ u.acted = t.acted /\ u.actedAtBet = at
  BY DEF TableState
<1>5. t.turnID \in Nat
  BY DEF TableState
<1>. HIDE DEF u
<1>. QED
  BY <1>1, <1>3, <1>4, <1>5 DEF SameHand, at

\* What an action comes to.
LEMMA EndActionOutcome ==
  ASSUME NEW t \in TableState, HandActive(t), NEW s \in Seats,
         Contesting(Answered(t, s)) # {}
  PROVE  \A u \in EndAction(t, s) : Outcome(Answered(t, s), u)
<1>. DEFINE acted == Answered(t, s)
<1>1. EndAction(t, s) =
        IF \A a, b \in Contesting(acted) : a = b THEN {FinishUncontested(acted)}
        ELSE IF NeedsAction(acted) = {} THEN AdvanceStreet(acted)
        ELSE PassTurn(acted, s)
  BY DEF EndAction, Answered
<1>2. acted \in TableState /\ HandActive(acted) /\ Contesting(acted) # {}
  BY AnsweredType DEF HandActive
<1>. HIDE DEF acted
<1>3. CASE \A a, b \in Contesting(acted) : a = b
  <2>. DEFINE u == FinishUncontested(acted)
  <2>1. EndsHand(acted, u) /\ ~u.lastResult.showdown
    BY <1>2, <1>3, FinishUncontestedEnds
  <2>2. EndAction(t, s) = {u}
    BY <1>1, <1>3
  <2>. HIDE DEF u
  <2>. QED
    BY <2>1, <2>2 DEF Outcome, acted
<1>4. CASE ~ \A a, b \in Contesting(acted) : a = b
  BY <1>1, <1>2, <1>4, AdvanceStreetOutcome, PassTurnOutcome DEF acted
<1>. QED
  BY <1>3, <1>4

-----------------------------------------------------------------------------
(* Acts *)

\* What a seat did when it was its turn: it put chips of its own into the pot or
\* folded, and answered the bet. Raising, it had not acted since the last full
\* raise, or not at all.
Acts(t, u, s) ==
  /\ SameTable(t, u) /\ OwnChips(t, u)
  /\ \A o \in Seats \ {s} :
       /\ u.stack[o] = t.stack[o] /\ u.bet[o] = t.bet[o]
       /\ u.committed[o] = t.committed[o] /\ u.allIn[o] = t.allIn[o]
       /\ u.folded[o] = t.folded[o] /\ u.actedAtBet[o] = t.actedAtBet[o]
       /\ u.acted[o] => t.acted[o]
  /\ u.stack[s] <= t.stack[s] /\ (u.folded[s] => u.stack[s] = t.stack[s])
  /\ u.acted[s] /\ u.actedAtBet[s] = u.currentBet
  /\ u.currentBet >= t.currentBet
  /\ \/ u.minRaise = t.minRaise /\ \A o \in Seats \ {s} : u.acted[o] = t.acted[o]
     \/ u.minRaise = u.currentBet - t.currentBet /\ u.currentBet > t.currentBet
  /\ t.acted[s] /\ t.bet[s] + t.stack[s] - u.stack[s] > t.currentBet
       => t.currentBet - t.actedAtBet[s] >= t.minRaise

\* Answering the bet completes the act.
LEMMA AnsweredActs ==
  ASSUME NEW t \in TableState, NEW s \in Seats, NEW m \in TableState,
         SameTable(t, m), OwnChips(t, m), m.actedAtBet = t.actedAtBet,
         \A o \in Seats \ {s} :
           /\ m.stack[o] = t.stack[o] /\ m.bet[o] = t.bet[o]
           /\ m.committed[o] = t.committed[o] /\ m.allIn[o] = t.allIn[o]
           /\ m.folded[o] = t.folded[o]
           /\ m.acted[o] => t.acted[o],
         m.stack[s] <= t.stack[s], m.folded[s] => m.stack[s] = t.stack[s], m.acted[s],
         m.currentBet >= t.currentBet,
         \/ m.minRaise = t.minRaise /\ \A o \in Seats \ {s} : m.acted[o] = t.acted[o]
         \/ m.minRaise = m.currentBet - t.currentBet /\ m.currentBet > t.currentBet,
         t.acted[s] /\ t.bet[s] + t.stack[s] - m.stack[s] > t.currentBet
           => t.currentBet - t.actedAtBet[s] >= t.minRaise
  PROVE  Acts(t, Answered(m, s), s)
<1>. DEFINE u == Answered(m, s)
<1>1. /\ u \in TableState /\ SameHand(m, u)
      /\ u.street = m.street /\ u.bet = m.bet /\ u.currentBet = m.currentBet
      /\ u.minRaise = m.minRaise /\ u.acted = m.acted
      /\ u.actedAtBet = [m.actedAtBet EXCEPT ![s] = m.currentBet]
      /\ u.turnID = m.turnID
  BY AnsweredType
<1>. HIDE DEF u
<1>2. SameTable(t, u) /\ OwnChips(t, u)
  BY <1>1 DEF SameHand, SameTable, OwnChips
<1>3. m.actedAtBet \in [Seats -> Nat]
  BY DEF TableState
<1>4. /\ u.actedAtBet[s] = u.currentBet
      /\ \A o \in Seats \ {s} : u.actedAtBet[o] = t.actedAtBet[o]
  BY <1>1, <1>3
<1>. QED
  BY <1>1, <1>2, <1>4 DEF Acts, SameHand, u

\* Folding is an act.
LEMMA FoldedActs ==
  ASSUME NEW s \in Seats, Sound(table)
  PROVE  Acts(table, Answered(Folded(s), s), s)
<1>. DEFINE folded == [table.folded EXCEPT ![s] = TRUE]
            acted  == [table.acted EXCEPT ![s] = TRUE]
            m == [table EXCEPT !.folded = folded, !.acted = acted]
<1>1. Folded(s) = m
  BY DEF Folded
<1>2. table \in TableState
  BY DEF Sound
<1>3. /\ folded \in [Seats -> BOOLEAN] /\ acted \in [Seats -> BOOLEAN]
      /\ acted[s] /\ \A o \in Seats \ {s} : folded[o] = table.folded[o] /\ acted[o] = table.acted[o]
  BY <1>2 DEF TableState
<1>. HIDE DEF folded, acted
<1>4. m \in TableState
  BY <1>2, <1>3, Zenon DEF TableState
<1>5. /\ m.user = table.user /\ m.hole = table.hole /\ m.inHand = table.inHand
      /\ m.dealer = table.dealer /\ m.handID = table.handID /\ m.turnID = table.turnID
      /\ m.street = table.street /\ m.lastResult = table.lastResult
      /\ m.folded = folded /\ m.currentBet = table.currentBet
      /\ m.minRaise = table.minRaise /\ m.acted = acted
      /\ m.actedAtBet = table.actedAtBet /\ m.stack = table.stack /\ m.bet = table.bet
      /\ m.committed = table.committed /\ m.allIn = table.allIn
  BY <1>2 DEF TableState
<1>. HIDE DEF m
<1>6. SameTable(table, m) /\ OwnChips(table, m)
  BY <1>4, <1>5 DEF SameTable, OwnChips
<1>7. /\ table.currentBet \in Nat /\ table.stack[s] \in Nat /\ table.bet[s] \in Nat
      /\ table.bet[s] <= table.currentBet
  BY <1>2 DEF TableState, Sound, BetsBounded
<1>8. /\ ~(table.bet[s] + table.stack[s] - m.stack[s] > table.currentBet)
      /\ m.stack[s] <= table.stack[s]
  BY <1>5, <1>7
<1>. QED
  BY <1>1, <1>2, <1>3, <1>4, <1>5, <1>6, <1>7, <1>8, AnsweredActs

\* Marking that a seat acted.
LEMMA MarkedActed ==
  ASSUME NEW s \in Seats, NEW t \in TableState
  PROVE  LET m == [t EXCEPT !.acted[s] = TRUE]
         IN  /\ m \in TableState /\ SameTable(t, m) /\ OwnChips(t, m)
             /\ m.folded = t.folded /\ m.currentBet = t.currentBet
             /\ m.minRaise = t.minRaise /\ m.actedAtBet = t.actedAtBet
             /\ m.stack = t.stack /\ m.bet = t.bet
             /\ m.committed = t.committed /\ m.allIn = t.allIn
             /\ m.acted[s] /\ \A o \in Seats \ {s} : m.acted[o] = t.acted[o]
<1>. DEFINE acted == [t.acted EXCEPT ![s] = TRUE]
            m == [t EXCEPT !.acted = acted]
<1>1. /\ acted \in [Seats -> BOOLEAN]
      /\ acted[s] /\ \A o \in Seats \ {s} : acted[o] = t.acted[o]
  BY DEF TableState
<1>. HIDE DEF acted
<1>2. m \in TableState
  BY <1>1, Zenon DEF TableState
<1>3. /\ m.user = t.user /\ m.hole = t.hole /\ m.inHand = t.inHand
      /\ m.dealer = t.dealer /\ m.handID = t.handID /\ m.turnID = t.turnID
      /\ m.street = t.street /\ m.lastResult = t.lastResult
      /\ m.folded = t.folded /\ m.currentBet = t.currentBet
      /\ m.minRaise = t.minRaise /\ m.acted = acted
      /\ m.actedAtBet = t.actedAtBet /\ m.stack = t.stack /\ m.bet = t.bet
      /\ m.committed = t.committed /\ m.allIn = t.allIn
  BY DEF TableState
<1>. HIDE DEF m
<1>4. SameTable(t, m) /\ OwnChips(t, m)
  BY <1>2, <1>3 DEF SameTable, OwnChips
<1>. QED
  BY <1>1, <1>2, <1>3, <1>4 DEF m, acted

\* Checking is an act.
LEMMA CheckedActs ==
  ASSUME NEW s \in Seats, Sound(table), ~table.folded[s]
  PROVE  Acts(table, Answered(Checked(s), s), s)
<1>. DEFINE m == [table EXCEPT !.acted[s] = TRUE]
<1>0. Checked(s) = m
  BY DEF Checked
<1>1. table \in TableState
  BY DEF Sound
<1>2. /\ m \in TableState /\ SameTable(table, m) /\ OwnChips(table, m)
      /\ m.folded = table.folded /\ m.currentBet = table.currentBet
      /\ m.minRaise = table.minRaise /\ m.actedAtBet = table.actedAtBet
      /\ m.stack = table.stack /\ m.bet = table.bet
      /\ m.committed = table.committed /\ m.allIn = table.allIn
      /\ m.acted[s] /\ \A o \in Seats \ {s} : m.acted[o] = table.acted[o]
  BY <1>1, MarkedActed
<1>. HIDE DEF m
<1>3. /\ table.currentBet \in Nat /\ table.stack[s] \in Nat /\ table.bet[s] \in Nat
      /\ table.bet[s] <= table.currentBet
  BY <1>1 DEF TableState, Sound, BetsBounded
<1>4. /\ ~(table.bet[s] + table.stack[s] - m.stack[s] > table.currentBet)
      /\ m.stack[s] <= table.stack[s]
  BY <1>2, <1>3
<1>. QED
  BY <1>0, <1>1, <1>2, <1>3, <1>4, AnsweredActs

\* Calling, or going all-in for less than the bet, is an act.
LEMMA PaidActs ==
  ASSUME NEW s \in Seats, Sound(table), ~table.folded[s],
         NEW n \in Nat, table.bet[s] + n <= table.currentBet
  PROVE  Acts(table, Answered(Paid(s, n), s), s)
<1>. DEFINE c == Commit(table, s, n)
            m == [c EXCEPT !.acted[s] = TRUE]
<1>0. Paid(s, n) = m
  BY DEF Paid
<1>1. table \in TableState
  BY DEF Sound
<1>2. /\ SameTable(table, c) /\ OwnChips(table, c)
      /\ c.folded = table.folded /\ c.currentBet = table.currentBet
      /\ c.minRaise = table.minRaise /\ c.acted = table.acted
      /\ c.actedAtBet = table.actedAtBet
      /\ c.stack[s] >= table.stack[s] - n /\ c.stack[s] <= table.stack[s]
      /\ \A o \in Seats \ {s} :
           /\ c.stack[o] = table.stack[o] /\ c.bet[o] = table.bet[o]
           /\ c.committed[o] = table.committed[o] /\ c.allIn[o] = table.allIn[o]
  BY <1>1, CommitEffect
<1>. HIDE DEF c
<1>3. /\ m \in TableState /\ SameTable(c, m) /\ OwnChips(c, m)
      /\ m.folded = c.folded /\ m.currentBet = c.currentBet
      /\ m.minRaise = c.minRaise /\ m.actedAtBet = c.actedAtBet
      /\ m.stack = c.stack /\ m.bet = c.bet
      /\ m.committed = c.committed /\ m.allIn = c.allIn
      /\ m.acted[s] /\ \A o \in Seats \ {s} : m.acted[o] = c.acted[o]
  <2>1. c \in TableState
    BY <1>2 DEF SameTable
  <2>. QED
    BY <2>1, MarkedActed
<1>. HIDE DEF m
<1>4. /\ table.currentBet \in Nat /\ table.stack[s] \in Nat /\ table.bet[s] \in Nat
      /\ m.stack[s] \in Nat
  BY <1>1, <1>3 DEF TableState
<1>5. /\ ~(table.bet[s] + table.stack[s] - m.stack[s] > table.currentBet)
      /\ m.stack[s] <= table.stack[s]
  BY <1>2, <1>3, <1>4
<1>6. SameTable(table, m) /\ OwnChips(table, m)
  BY <1>1, <1>2, <1>3, OwnChipsTwice DEF SameTable
<1>7. m.currentBet >= table.currentBet
  BY <1>2, <1>3, <1>4
<1>. QED
  BY <1>0, <1>1, <1>2, <1>3, <1>5, <1>6, <1>7, AnsweredActs

\* Raising is an act, and only a seat for whom raising was reopened does it.
LEMMA RaisedActs ==
  ASSUME NEW s \in Seats, Sound(table), HandActive(table), ~table.folded[s],
         NEW n \in Nat, n > table.currentBet, RaiseReopened(table, s)
  PROVE  Acts(table, Answered(RaiseTo(table, s, n), s), s)
<1>. DEFINE paid == Commit(table, s, n - table.bet[s])
            full == n - table.currentBet >= MinimumRaise(table)
            minRaise == IF full THEN n - table.currentBet ELSE paid.minRaise
            acted == [o \in Seats |->
                        o = s \/ (paid.acted[o] /\ ~(full /\ o \in Actionable(paid)))]
            m == [paid EXCEPT !.currentBet = n, !.minRaise = minRaise, !.acted = acted]
<1>1. table \in TableState /\ BetsBounded(table)
  BY DEF Sound
<1>2. n - table.bet[s] \in Nat /\ n - table.currentBet \in Nat /\ table.currentBet \in Nat
  BY <1>1 DEF BetsBounded, TableState
<1>3. /\ SameTable(table, paid) /\ OwnChips(table, paid)
      /\ paid.folded = table.folded /\ paid.currentBet = table.currentBet
      /\ paid.minRaise = table.minRaise /\ paid.acted = table.acted
      /\ paid.actedAtBet = table.actedAtBet /\ paid.stack[s] <= table.stack[s]
      /\ \A o \in Seats \ {s} :
           /\ paid.stack[o] = table.stack[o] /\ paid.bet[o] = table.bet[o]
           /\ paid.committed[o] = table.committed[o] /\ paid.allIn[o] = table.allIn[o]
  BY <1>1, <1>2, CommitEffect
<1>4. RaiseTo(table, s, n) = m
  BY DEF RaiseTo
<1>. HIDE DEF paid, full
<1>5. /\ acted[s]
      /\ \A o \in Seats \ {s} : acted[o] => table.acted[o]
      /\ \/ minRaise = table.minRaise /\ \A o \in Seats \ {s} : acted[o] = table.acted[o]
         \/ minRaise = n - table.currentBet
  <2>1. table.acted \in [Seats -> BOOLEAN]
    BY <1>1 DEF TableState
  <2>. QED
    BY <1>3, <2>1
<1>. HIDE DEF minRaise, acted
<1>6. paid \in TableState
  BY <1>3 DEF SameTable
<1>7. /\ m.user = paid.user /\ m.hole = paid.hole /\ m.inHand = paid.inHand
      /\ m.dealer = paid.dealer /\ m.handID = paid.handID /\ m.turnID = paid.turnID
      /\ m.street = paid.street /\ m.lastResult = paid.lastResult
      /\ m.folded = paid.folded /\ m.currentBet = n
      /\ m.minRaise = minRaise /\ m.acted = acted
      /\ m.actedAtBet = paid.actedAtBet /\ m.stack = paid.stack /\ m.bet = paid.bet
      /\ m.committed = paid.committed /\ m.allIn = paid.allIn
  BY <1>6 DEF TableState
<1>8. m \in TableState
  BY <1>1, <1>4, RaiseToType
<1>. HIDE DEF m
<1>9. SameTable(table, m) /\ OwnChips(table, m)
  BY <1>3, <1>7, <1>8 DEF SameTable, OwnChips
<1>10. table.acted[s] => table.currentBet - table.actedAtBet[s] >= table.minRaise
  BY DEF RaiseReopened
<1>. QED
  BY <1>1, <1>2, <1>3, <1>4, <1>5, <1>7, <1>8, <1>9, <1>10, AnsweredActs

\* What dealing a hand comes to.
LEMMA StartHandOutcome ==
  ASSUME NEW t \in TableState, BetsBounded(t), ~HandActive(t),
         Cardinality(Playable(t)) >= 2, NEW u \in StartHand(t)
  PROVE  \E p \in TableState : Dealt(t, p) /\ BetsBounded(p) /\ Outcome(p, u)
<1>1. PICK p \in TableState, big \in Seats :
        /\ Dealt(t, p) /\ HandActive(p) /\ BetsBounded(p)
        /\ \E a, b \in Contesting(p) : a # b
        /\ StartHand(t) = PassTurn(p, big)
  BY StartHandDeals
<1>. QED
  BY <1>1, PassTurnOutcome

-----------------------------------------------------------------------------
(* The five kinds of step *)

\* What only a hand changes is as it was.
SamePlay(t, u) ==
  /\ u \in TableState
  /\ u.committed = t.committed /\ u.bet = t.bet /\ u.inHand = t.inHand
  /\ u.allIn = t.allIn /\ u.acted = t.acted /\ u.actedAtBet = t.actedAtBet
  /\ u.street = t.street /\ u.dealer = t.dealer /\ u.acting = t.acting
  /\ u.currentBet = t.currentBet /\ u.minRaise = t.minRaise
  /\ u.handID = t.handID /\ u.turnID = t.turnID /\ u.lastResult = t.lastResult

\* User u sits down in seat s with b chips.
Sits(s, u, b) ==
  /\ table.user[s] = NoUser /\ \A o \in Seats : table.user[o] # u
  /\ SamePlay(table, table')
  /\ table'.user = [table.user EXCEPT ![s] = u]
  /\ table'.stack = [table.stack EXCEPT ![s] = b]
  /\ table'.hole = table.hole /\ table'.folded = table.folded
  /\ table'.expired = table.expired
  /\ supply' = supply + b
  /\ UNCHANGED <<dealt, spoke, shown>>

\* Whoever sits in seat s rises from it, between hands.
Rises(s) ==
  /\ ~HandActive(table) /\ table.user[s] # NoUser
  /\ SamePlay(table, table')
  /\ table'.user = [table.user EXCEPT ![s] = NoUser]
  /\ table'.stack = [table.stack EXCEPT ![s] = 0]
  /\ table'.hole = [table.hole EXCEPT ![s] = FALSE]
  /\ table'.folded = [table.folded EXCEPT ![s] = FALSE]
  /\ table'.expired = table.expired
  /\ supply' = supply - table.stack[s]
  /\ shown' = shown \ {s}
  /\ UNCHANGED <<dealt, spoke>>

\* Nothing but marks: who is ready, and that the deadline passed.
Marks ==
  /\ SamePlay(table, table')
  /\ table'.user = table.user /\ table'.stack = table.stack
  /\ table'.hole = table.hole /\ table'.folded = table.folded
  /\ \/ table'.expired = table.expired
     \/ HandActive(table) /\ table.expired = FALSE /\ table'.expired = TRUE
  /\ UNCHANGED <<supply, dealt, spoke, shown>>

\* A hand is dealt to the funded seats, at least two of them, when the last of
\* their users is ready.
Deals(p) ==
  /\ ~HandActive(table) /\ \E a, b \in Playable(table) : a # b
  /\ \E u \in Users : CanReady(u) /\ AllReady(Marked(u))
  /\ Dealt(table, p) /\ BetsBounded(p) /\ Outcome(p, table')
  /\ Remember(table') /\ supply' = supply

\* Seat s acts, which takes the table through m.
Plays(s, m) ==
  /\ HandActive(table) /\ s = table.acting
  /\ Acts(table, m, s) /\ BetsBounded(m) /\ Outcome(m, table')
  /\ Remember(table') /\ supply' = supply

\* An act that Apply completes is a play.
LEMMA ApplyPlays ==
  ASSUME IInv, NEW s \in Seats, s = table.acting, HandActive(table),
         NEW t \in TableState, BetsBounded(t), HandActive(t),
         Acts(table, Answered(t, s), s), Apply(t, s)
  PROVE  \E m \in TableState : Plays(s, m)
<1>. DEFINE m == Answered(t, s)
<1>0. Contesting(m) # {}
  <2>1. PICK o \in Contesting(table) : o # s
    BY DEF IInv, Sound, TurnPlayable
  <2>2. o \in Seats /\ table.inHand[o] /\ ~table.folded[o]
    BY <2>1 DEF Contesting
  <2>3. m.inHand[o] /\ ~m.folded[o]
    <3>. HIDE DEF m
    <3>1. m.inHand = table.inHand /\ m.folded[o] = table.folded[o]
      BY <2>1, <2>2 DEF Acts, SameTable, m
    <3>. QED
      BY <2>2, <3>1
  <2>. QED
    BY <2>2, <2>3 DEF Contesting
<1>1. Outcome(m, table')
  BY <1>0, EndActionOutcome DEF Apply
<1>2. m \in TableState /\ BetsBounded(m)
  BY AnsweredType DEF BetsBounded, HandActive
<1>. HIDE DEF m
<1>3. Acts(table, m, s)
  BY DEF m
<1>. QED
  BY <1>1, <1>2, <1>3 DEF Plays, Apply

\* Every action of the seat with the turn, and its timeout, is a play of that seat.
LEMMA ActPlays ==
  ASSUME IInv, NEW s \in Seats,
         \/ Fold(s) \/ Check(s) \/ Call(s) \/ AllIn(s)
         \/ \E n \in 1..MaxChips : Bet(s, n) \/ Raise(s, n)
         \/ s = table.acting /\ Timeout(table.turnID)
  PROVE  \E m \in TableState : Plays(s, m)
<1>1. HandActive(table) /\ s = table.acting
  BY DEF Fold, Check, Call, AllIn, Bet, Raise, MayAct, Timeout
<1>2. Sound(table) /\ table \in TableState /\ BetsBounded(table)
  BY DEF IInv, Sound
<1>3. ~table.folded[s]
  BY <1>1, <1>2 DEF Sound, TurnPlayable, NeedsAction, Actionable, Contesting
<1>4. /\ table.bet[s] \in Nat /\ table.stack[s] \in Nat /\ table.currentBet \in Nat
      /\ table.bet[s] <= table.currentBet
  BY <1>2 DEF TableState, BetsBounded
<1>5. CASE Apply(Folded(s), s)
  BY <1>1, <1>2, <1>5, FoldedBounded, FoldedActs, ApplyPlays
<1>6. CASE Apply(Checked(s), s)
  <2>1. Checked(s) \in TableState /\ BetsBounded(Checked(s)) /\ HandActive(Checked(s))
    BY <1>1, <1>2, CheckedBounded DEF Checked
  <2>. QED
    BY <1>1, <1>2, <1>3, <1>6, <2>1, CheckedActs, ApplyPlays
<1>7. ASSUME NEW n \in Nat, table.bet[s] + n <= table.currentBet, Apply(Paid(s, n), s)
      PROVE  \E m \in TableState : Plays(s, m)
  BY <1>1, <1>2, <1>3, <1>7, PaidBounded, PaidActs, ApplyPlays
<1>8. ASSUME NEW n \in Nat, RaiseAccepted(table, s, n), Apply(RaiseTo(table, s, n), s)
      PROVE  \E m \in TableState : Plays(s, m)
  <2>1. n > table.currentBet /\ RaiseReopened(table, s)
    BY <1>8 DEF RaiseAccepted
  <2>2. Acts(table, Answered(RaiseTo(table, s, n), s), s)
    BY <1>1, <1>2, <1>3, <2>1, RaisedActs
  <2>3. /\ RaiseTo(table, s, n) \in TableState /\ BetsBounded(RaiseTo(table, s, n))
        /\ HandActive(RaiseTo(table, s, n))
    BY <1>1, <1>2, <2>1, RaiseBounded
  <2>. QED
    BY <1>1, <1>8, <2>2, <2>3, ApplyPlays
<1>9. CASE Fold(s) \/ Check(s) \/ (s = table.acting /\ Timeout(table.turnID))
  BY <1>1, <1>5, <1>6, <1>9 DEF Fold, Check, Timeout
<1>10. CASE Call(s)
  <2>1. ToCall(table, s) \in Nat /\ table.bet[s] + ToCall(table, s) <= table.currentBet
    BY <1>4 DEF ToCall, Larger
  <2>. QED
    BY <1>7, <1>10, <2>1 DEF Call
<1>11. CASE AllIn(s)
  <2>. DEFINE n == Maximum(table, s)
  <2>1. n \in Nat /\ n = table.bet[s] + table.stack[s]
    BY <1>4 DEF Maximum
  <2>2. n <= table.currentBet \/ RaiseAccepted(table, s, n)
    BY <1>11 DEF AllIn, AllInAccepted
  <2>3. \/ n <= table.currentBet /\ Apply(Paid(s, table.stack[s]), s)
        \/ n > table.currentBet /\ Apply(RaiseTo(table, s, n), s)
    BY <1>11 DEF AllIn
  <2>. HIDE DEF n
  <2>4. n > table.currentBet => RaiseAccepted(table, s, n)
    BY <1>4, <2>1, <2>2
  <2>. QED
    BY <1>4, <1>7, <1>8, <2>1, <2>3, <2>4
<1>12. CASE \E n \in 1..MaxChips : Bet(s, n) \/ Raise(s, n)
  <2>1. PICK n \in 1..MaxChips : Bet(s, n) \/ Raise(s, n)
    BY <1>12
  <2>2. n \in Nat /\ RaiseAccepted(table, s, n) /\ Apply(RaiseTo(table, s, n), s)
    BY <2>1 DEF Bet, Raise
  <2>. QED
    BY <1>8, <2>2
<1>. QED
  BY <1>9, <1>10, <1>11, <1>12

\* Joining is sitting down on a free seat.
LEMMA JoinSits ==
  ASSUME IInv, IInv', NEW u \in Users, NEW b \in BuyIns, Join(u, b)
  PROVE  \E s \in Seats : Sits(s, u, b)
<1>. DEFINE seat == NextIn(Seats \ Occupied(table), NoSeat)
<1>1. table \in TableState /\ table' \in TableState
  BY DEF IInv, TypeOK
<1>2. seat \in Seats /\ table.user[seat] = NoUser
  <2>1. Seats \ Occupied(table) \in SUBSET Seats /\ Seats \ Occupied(table) # {}
    BY DEF Join, Occupied
  <2>2. seat \in Seats \ Occupied(table)
    BY <2>1, NextInType
  <2>. QED
    BY <2>2 DEF Occupied
<1>. HIDE DEF seat
<1>3. table' = [table EXCEPT
           !.user[seat] = u, !.stack[seat] = b,
           !.ready = IF HandActive(table) THEN @ ELSE Nobody]
  BY DEF Join, seat
<1>4. SamePlay(table, table')
  BY <1>1, <1>3 DEF SamePlay, TableState
<1>5. /\ table'.user = [table.user EXCEPT ![seat] = u]
      /\ table'.stack = [table.stack EXCEPT ![seat] = b]
      /\ table'.hole = table.hole /\ table'.folded = table.folded
      /\ table'.expired = table.expired
  BY <1>1, <1>3 DEF TableState
<1>6. \A o \in Seats : table.user[o] # u
  BY DEF Join, SeatOf
<1>. QED
  BY <1>2, <1>4, <1>5, <1>6 DEF Sits, Join

\* Leaving is getting up, between hands.
LEMMA LeaveRises ==
  ASSUME IInv, IInv', NEW u \in Users, Leave(u)
  PROVE  \E s \in Seats : Rises(s)
<1>1. table \in TableState /\ table' \in TableState
  BY DEF IInv, TypeOK
<1>2. PICK seat \in Seats :
        /\ table.user[seat] = u
        /\ table' = [table EXCEPT
             !.user[seat] = NoUser, !.stack[seat] = 0, !.hole[seat] = FALSE,
             !.folded[seat] = FALSE, !.ready = Nobody]
        /\ supply' = supply - table.stack[seat]
        /\ shown' = shown \ {seat}
  BY DEF Leave, SeatOf
<1>3. SamePlay(table, table')
  BY <1>1, <1>2 DEF SamePlay, TableState
<1>4. /\ table'.user = [table.user EXCEPT ![seat] = NoUser]
      /\ table'.stack = [table.stack EXCEPT ![seat] = 0]
      /\ table'.hole = [table.hole EXCEPT ![seat] = FALSE]
      /\ table'.folded = [table.folded EXCEPT ![seat] = FALSE]
      /\ table'.expired = table.expired
  BY <1>1, <1>2 DEF TableState
<1>5. table.user[seat] # NoUser
  BY <1>2, HoldemAssumption
<1>. QED
  BY <1>2, <1>3, <1>4, <1>5 DEF Rises, Leave

\* The last player to be ready deals a hand.
LEMMA ReadyAndDealDeals ==
  ASSUME IInv, NEW u \in Users, ReadyAndDeal(u)
  PROVE  \E p \in TableState : Deals(p)
<1>. DEFINE t == Marked(u)
<1>1. /\ t \in TableState /\ BetsBounded(t) /\ ~HandActive(t)
      /\ t.street = table.street /\ t.stack = table.stack
  BY MarkedSound DEF ReadyAndDeal, CanReady, Sound, HandActive
<1>2. Playable(t) = Playable(table) /\ Cardinality(Playable(table)) >= 2
  BY <1>1 DEF Playable, ReadyAndDeal, CanReady
<1>3. /\ t.user = table.user /\ t.handID = table.handID /\ t.turnID = table.turnID
      /\ t.hole = table.hole /\ t.inHand = table.inHand /\ t.folded = table.folded
      /\ t.committed = table.committed /\ t.bet = table.bet
  BY DEF Marked, IInv, TypeOK, TableState
<1>. HIDE DEF t
<1>4. table' \in StartHand(t) /\ Remember(table') /\ supply' = supply
  BY DEF ReadyAndDeal, t
<1>5. PICK p \in TableState : Dealt(t, p) /\ BetsBounded(p) /\ Outcome(p, table')
  BY <1>1, <1>2, <1>4, StartHandOutcome
<1>6. Dealt(table, p)
  BY <1>1, <1>2, <1>3, <1>5 DEF Dealt
<1>7. \E a, b \in Playable(table) : a # b
  <2>1. Playable(table) \in SUBSET Seats
    BY DEF Playable
  <2>. QED
    BY <1>2, <2>1, TwoMembers
<1>8. ~HandActive(table)
  BY <1>1 DEF HandActive
<1>9. CanReady(u) /\ AllReady(Marked(u))
  BY DEF ReadyAndDeal
<1>. QED
  BY <1>4, <1>5, <1>6, <1>7, <1>8, <1>9 DEF Deals

\* Other players getting ready, and a deadline passing, leave marks only.
LEMMA MarksOnly ==
  ASSUME IInv, IInv',
         \/ \E u \in Users : Ready(u) \/ ReadyWithoutShuffle(u)
         \/ DeadlinePasses
  PROVE  Marks
<1>1. table \in TableState /\ table' \in TableState
  BY DEF IInv, TypeOK
<1>2. CASE \E u \in Users : Ready(u) \/ ReadyWithoutShuffle(u)
  <2>1. PICK r : table' = [table EXCEPT !.ready = r]
    BY <1>2 DEF Ready, ReadyWithoutShuffle, Marked
  <2>2. UNCHANGED <<supply, dealt, spoke, shown>>
    BY <1>2 DEF Ready, ReadyWithoutShuffle
  <2>. QED
    BY <1>1, <2>1, <2>2 DEF Marks, SamePlay, TableState
<1>3. CASE DeadlinePasses
  <2>1. table' = [table EXCEPT !.expired = TRUE] /\ table.expired \in BOOLEAN
    BY <1>1, <1>3 DEF DeadlinePasses, TableState
  <2>. QED
    BY <1>1, <1>3, <2>1 DEF Marks, SamePlay, TableState, DeadlinePasses
<1>. QED
  BY <1>2, <1>3

\* Every step of the table is of one of these kinds.
LEMMA StepKinds ==
  ASSUME IInv, [Next]_vars
  PROVE  \/ \E s \in Seats, u \in Users, b \in BuyIns : Sits(s, u, b)
         \/ \E s \in Seats : Rises(s)
         \/ Marks
         \/ \E p \in TableState : Deals(p)
         \/ \E s \in Seats, m \in TableState : Plays(s, m)
         \/ UNCHANGED vars
<1>1. IInv'
  BY NextIInv
<1>2. CASE \E u \in Users, b \in BuyIns : Join(u, b)
  BY <1>1, <1>2, JoinSits
<1>3. CASE \E u \in Users : Leave(u)
  BY <1>1, <1>3, LeaveRises
<1>4. CASE \/ \E u \in Users : Ready(u) \/ ReadyWithoutShuffle(u)
           \/ DeadlinePasses
  BY <1>1, <1>4, MarksOnly
<1>5. CASE \E u \in Users : ReadyAndDeal(u)
  BY <1>5, ReadyAndDealDeals
<1>6. CASE \E s \in Seats :
             \/ Fold(s) \/ Check(s) \/ Call(s) \/ AllIn(s)
             \/ \E n \in 1..MaxChips : Bet(s, n) \/ Raise(s, n)
  BY <1>6, ActPlays
<1>7. CASE Timeout(table.turnID)
  <2>1. table.acting \in Seats
    BY <1>7 DEF Timeout, IInv, TypeOK, TableState
  <2>. QED
    BY <1>7, <2>1, ActPlays
<1>. QED
  BY <1>2, <1>3, <1>4, <1>5, <1>6, <1>7 DEF Next

-----------------------------------------------------------------------------
(* The end of a hand *)

ChipsOf(t) == [s \in Seats |-> t.stack[s] + t.committed[s]]

\* What is refunded and what is staked make up what was committed.
LEMMA StakedAndRefund ==
  ASSUME NEW t \in TableState
  PROVE  /\ SeatSum(Staked(t)) + SeatSum(Refund(t.committed)) = SeatSum(t.committed)
         /\ \A s \in Seats : t.committed[s] = 0 =>
              Refund(t.committed)[s] = 0 /\ Staked(t)[s] = 0
<1>1. t.committed \in [Seats -> Nat]
  BY DEF TableState
<1>2. /\ Refund(t.committed) \in [Seats -> Nat] /\ Staked(t) \in [Seats -> Nat]
      /\ \A s \in Seats : Refund(t.committed)[s] <= t.committed[s]
      /\ \A s \in Seats : Staked(t)[s] = t.committed[s] - Refund(t.committed)[s]
  BY <1>1, StakedType, RefundType DEF Staked
<1>. DEFINE refund == Refund(t.committed)
            staked == Staked(t)
            sum == [s \in Seats |-> staked[s] + refund[s]]
<1>. HIDE DEF refund, staked
<1>3. refund \in [Seats -> Nat] /\ staked \in [Seats -> Nat]
  BY <1>2 DEF refund, staked
<1>4. sum = t.committed
  BY <1>1, <1>2 DEF refund, staked
<1>5. SeatSum(sum) = SeatSum(staked) + SeatSum(refund)
  <2>1. refund \in [Seats -> Int] /\ staked \in [Seats -> Int]
    BY <1>3
  <2>. HIDE DEF sum
  <2>. QED
    BY <2>1, SeatSumAdd DEF sum
<1>6. \A s \in Seats : t.committed[s] = 0 => refund[s] = 0 /\ staked[s] = 0
  BY <1>1, <1>2, <1>3 DEF refund, staked
<1>. HIDE DEF sum
<1>7. SeatSum(staked) \in Nat /\ SeatSum(refund) \in Nat
  BY <1>3, SeatSumType
<1>. QED
  BY <1>4, <1>5, <1>6, <1>7 DEF refund, staked

\* A hand that ends pays out no more than was staked, only to players who did not
\* fold, and takes from nobody; whoever wins uncontested gets his own chips back.
LEMMA HandEndsFairly ==
  ASSUME NEW t \in TableState, NEW u, EndsHand(t, u)
  PROVE  /\ u.lastResult.payout \in [Seats -> Nat]
         /\ SeatSum(u.lastResult.payout) <= SeatSum(Staked(t))
         /\ \A s \in Seats \ Contesting(t) : u.lastResult.payout[s] = 0
         /\ ~u.lastResult.showdown => \A s \in Contesting(t) :
              u.lastResult.payout[s] + Refund(t.committed)[s] >= t.committed[s]
<1>. DEFINE payout == u.lastResult.payout
<1>1. Staked(t) \in [Seats -> Nat] /\ Contesting(t) \in SUBSET Seats
  BY StakedType DEF Contesting
<1>2. t.dealer \in Seats \cup {NoSeat}
  BY DEF TableState
<1>3. CASE ComparedHands(t, u)
  <2>1. PICK rank : payout = Payout(Staked(t), Contesting(t), rank, t.dealer)
    BY <1>3 DEF ComparedHands
  <2>2. u.lastResult.showdown
    BY <1>3 DEF ComparedHands
  <2>. HIDE DEF payout
  <2>. QED
    BY <1>1, <1>2, <2>1, <2>2, PayoutType, PayoutBounded DEF payout
<1>4. CASE LastOneWon(t, u)
  <2>. DEFINE pot == SeatSum(Staked(t))
  <2>1. /\ payout = [s \in Seats |-> IF s \in Contesting(t) THEN pot ELSE 0]
        /\ \A a, b \in Contesting(t) : a = b
    BY <1>4 DEF LastOneWon
  <2>2. pot \in Nat /\ \A s \in Seats : Staked(t)[s] <= pot
    BY <1>1, SeatSumType
  <2>. HIDE DEF payout, pot
  <2>3. payout \in [Seats -> Nat] /\ \A s \in Seats \ Contesting(t) : payout[s] = 0
    BY <1>1, <2>1, <2>2
  <2>4. SeatSum(payout) <= pot
    <3>1. CASE Contesting(t) = {}
      <4>1. payout = [s \in Seats |-> 0]
        BY <2>1, <3>1
      <4>2. SeatSum([s \in Seats |-> 0]) = 0
        BY DEF SeatSum
      <4>. QED
        BY <2>2, <4>1, <4>2
    <3>2. CASE Contesting(t) # {}
      <4>1. PICK w \in Contesting(t) : TRUE
        BY <3>2
      <4>2. Contesting(t) = {w}
        BY <2>1, <4>1
      <4>. DEFINE none == [s \in Seats |-> 0]
      <4>3. /\ none \in [Seats -> Int] /\ payout \in [Seats -> Int] /\ w \in Seats
            /\ \A s \in Seats \ {w} : none[s] = payout[s]
            /\ none[w] = 0 /\ payout[w] = pot
        BY <1>1, <2>1, <2>2, <2>3, <4>1, <4>2
      <4>4. SeatSum(none) = 0
        BY DEF SeatSum
      <4>. HIDE DEF none
      <4>5. SeatSum(payout) = SeatSum(none) + payout[w] - none[w]
        BY <4>3, SeatSumUpdate
      <4>. QED
        BY <2>2, <4>3, <4>4, <4>5
    <3>. QED
      BY <3>1, <3>2
  <2>5. ASSUME NEW s \in Contesting(t)
        PROVE  payout[s] + Refund(t.committed)[s] >= t.committed[s]
    <3>1. /\ s \in Seats /\ payout[s] = pot /\ t.committed[s] \in Nat
          /\ Refund(t.committed)[s] \in Nat
          /\ Staked(t)[s] = t.committed[s] - Refund(t.committed)[s]
      BY <1>1, <2>1, StakedType DEF TableState, Staked
    <3>. QED
      BY <2>2, <3>1
  <2>. QED
    BY <2>3, <2>4, <2>5 DEF payout, pot
<1>. QED
  BY <1>3, <1>4 DEF EndsHand

\* After the refund nobody alone has the most at stake.
LEMMA StakesShared ==
  ASSUME NEW t \in TableState, NEW s \in Seats
  PROVE  \E o \in Seats \ {s} : Staked(t)[s] <= Staked(t)[o]
<1>. DEFINE c == t.committed
<1>1. c \in [Seats -> Nat]
  BY DEF TableState
<1>2. \A o \in Seats : Staked(t)[o] = c[o] - Refund(c)[o]
  BY DEF Staked
<1>. HIDE DEF c
<1>3. ASSUME NEW r \in SoleLeader(c)
      PROVE  /\ r \in Seats /\ c[r] - Refund(c)[r] = Matched(c, r)
             /\ \E o \in Seats \ {r} : c[o] = Matched(c, r)
             /\ \A o \in Seats \ {r} : c[o] <= Matched(c, r)
  <2>. 0 \in Seats /\ 1 \in Seats
    BY SeatsAssumption DEF Seats
  <2>1. r \in Seats /\ Seats \ {r} # {}
    BY DEF SoleLeader
  <2>2. PICK m \in Seats \ {r} : \A o \in Seats \ {r} : c[o] <= c[m]
    BY <1>1, <2>1, SeatMax
  <2>3. /\ Matched(c, r) \in {c[o] : o \in Seats \ {r}}
        /\ \A o \in Seats \ {r} : c[o] <= Matched(c, r)
    BY <2>2 DEF Matched
  <2>4. Refund(c)[r] = c[r] - Matched(c, r)
    BY <2>1 DEF Refund
  <2>. QED
    BY <1>1, <2>1, <2>3, <2>4
<1>4. ASSUME NEW r \in Seats, r \notin SoleLeader(c)
      PROVE  c[r] - Refund(c)[r] = c[r]
  BY <1>1, <1>4 DEF Refund
<1>5. CASE s \in SoleLeader(c)
  <2>1. PICK o \in Seats \ {s} : c[o] = Matched(c, s)
    BY <1>3, <1>5
  <2>2. o \notin SoleLeader(c)
    BY <1>1, <1>5, <2>1 DEF SoleLeader
  <2>. QED
    BY <1>1, <1>2, <1>3, <1>4, <1>5, <2>1, <2>2
<1>6. CASE s \notin SoleLeader(c)
  <2>1. PICK o \in Seats \ {s} : c[s] <= c[o]
    BY <1>1, <1>6 DEF SoleLeader
  <2>2. c[s] <= c[o] - Refund(c)[o]
    <3>1. CASE o \in SoleLeader(c)
      BY <1>3, <2>1, <3>1
    <3>2. CASE o \notin SoleLeader(c)
      BY <1>1, <1>4, <2>1, <3>2
    <3>. QED
      BY <3>1, <3>2
  <2>3. Staked(t)[s] = c[s]
    BY <1>2, <1>4, <1>6
  <2>. QED
    BY <1>2, <2>1, <2>2, <2>3
<1>. QED
  BY <1>5, <1>6

\* Every player still in the hand t put in less than somebody who has folded.
Topped(t) ==
  \A w \in Contesting(t) : \E o \in Seats : t.folded[o] /\ Staked(t)[o] > Staked(t)[w]

\* Four different seats are four.
LEMMA FourMembers ==
  ASSUME NEW S \in SUBSET Seats, NEW a \in S, NEW b \in S, NEW s \in S, NEW o \in S,
         a # b, s # o, {a, b} \cap {s, o} = {}
  PROVE  Cardinality(S) >= 4
<1>1. IsFiniteSet(S) /\ Cardinality(S) \in Nat
  BY SeatsFinite
<1>2. \A T, r : IsFiniteSet(T) /\ r \in T =>
        IsFiniteSet(T \ {r}) /\ Cardinality(T \ {r}) = Cardinality(T) - 1
  BY FS_RemoveElement, Zenon
<1>. DEFINE A == S \ {a}
            B == A \ {b}
            C == B \ {s}
            D == C \ {o}
<1>3. IsFiniteSet(A) /\ Cardinality(A) = Cardinality(S) - 1
  BY <1>1, <1>2
<1>4. IsFiniteSet(B) /\ Cardinality(B) = Cardinality(A) - 1
  BY <1>2, <1>3
<1>5. IsFiniteSet(C) /\ Cardinality(C) = Cardinality(B) - 1
  BY <1>2, <1>4
<1>6. IsFiniteSet(D) /\ Cardinality(D) = Cardinality(C) - 1
  BY <1>2, <1>5
<1>7. Cardinality(D) \in Nat
  BY <1>6, FS_CardinalityType
<1>. HIDE DEF A, B, C, D
<1>. QED
  BY <1>1, <1>3, <1>4, <1>5, <1>6, <1>7

\* Nobody has chips at stake in a hand he is not in.
LEMMA StakedByPlayers ==
  ASSUME NEW t \in TableState, \A s \in Seats : ~t.inHand[s] => t.committed[s] = 0
  PROVE  \A s \in Seats : Staked(t)[s] > 0 => t.inHand[s]
<1>1. SUFFICES ASSUME NEW s \in Seats, ~t.inHand[s]  PROVE ~(Staked(t)[s] > 0)
  OBVIOUS
<1>2. t.committed[s] = 0 /\ t.committed \in [Seats -> Nat]
  BY <1>1 DEF TableState
<1>3. Refund(t.committed)[s] \in Nat /\ Refund(t.committed)[s] <= 0
  BY <1>2, RefundType
<1>. QED
  BY <1>2, <1>3 DEF Staked

\* Only of a hand dealt to four are all who put in the most folded: the most is
\* put in by two players at least, and two more compete.
LEMMA ToppedByTwo ==
  ASSUME NEW t \in TableState, \E a, b \in Contesting(t) : a # b, Topped(t),
         \A s \in Seats : ~t.inHand[s] => t.committed[s] = 0
  PROVE  Cardinality({s \in Seats : t.inHand[s]}) >= 4
<1>1. PICK a \in Contesting(t), b \in Contesting(t) : a # b
  OBVIOUS
<1>. DEFINE staked == Staked(t)
            S == {s \in Seats : t.inHand[s]}
<1>2. /\ a \in Seats /\ b \in Seats /\ a \in S /\ b \in S
      /\ ~t.folded[a] /\ ~t.folded[b]
  BY DEF Contesting
<1>3. staked \in [Seats -> Nat] /\ \A s \in Seats : staked[s] > 0 => t.inHand[s]
  BY StakedType, StakedByPlayers
<1>4. \A r \in Seats : \E o \in Seats \ {r} : staked[r] <= staked[o]
  BY StakesShared
<1>5. \A w \in Contesting(t) : \E o \in Seats : staked[o] > staked[w]
  BY DEF Topped
<1>. HIDE DEF staked
<1>6. PICK s \in Seats : \A o \in Seats : staked[o] <= staked[s]
  BY <1>2, <1>3, SeatMax
<1>7. PICK o \in Seats \ {s} : staked[s] <= staked[o]
  BY <1>4
<1>8. ASSUME NEW w \in Contesting(t)
      PROVE  staked[w] < staked[s] /\ staked[w] < staked[o]
  <2>1. w \in Seats
    BY DEF Contesting
  <2>2. PICK q \in Seats : staked[q] > staked[w]
    BY <1>5
  <2>3. staked[q] <= staked[s]
    BY <1>6
  <2>4. staked[w] \in Nat /\ staked[q] \in Nat /\ staked[s] \in Nat /\ staked[o] \in Nat
    BY <1>3, <2>1
  <2>. QED
    BY <1>7, <2>2, <2>3, <2>4
<1>9. /\ a # s /\ a # o /\ b # s /\ b # o
      /\ staked[s] > 0 /\ staked[o] > 0
  <2>1. staked[a] \in Nat /\ staked[b] \in Nat /\ staked[s] \in Nat /\ staked[o] \in Nat
    BY <1>2, <1>3
  <2>2. /\ staked[a] < staked[s] /\ staked[a] < staked[o]
        /\ staked[b] < staked[s] /\ staked[b] < staked[o]
    BY <1>8
  <2>. QED
    BY <2>1, <2>2
<1>10. s \in S /\ o \in S
  BY <1>3, <1>9
<1>11. S \in SUBSET Seats
  OBVIOUS
<1>. HIDE DEF S
<1>12. Cardinality(S) >= 4
  BY <1>1, <1>2, <1>7, <1>9, <1>10, <1>11, FourMembers
<1>. QED
  BY <1>12 DEF S

\* A hand is paid out in full if somebody who put in the most has not folded.
LEMMA HandEndsWhole ==
  ASSUME NEW t \in TableState, NEW u, EndsHand(t, u),
         ~(u.lastResult.showdown /\ Topped(t)),
         \A s \in Seats : ~t.inHand[s] => t.committed[s] = 0
  PROVE  SeatSum(u.lastResult.payout) = SeatSum(Staked(t))
<1>. DEFINE payout == u.lastResult.payout
            staked == Staked(t)
<1>1. /\ staked \in [Seats -> Nat] /\ Contesting(t) \in SUBSET Seats
      /\ payout \in [Seats -> Nat] /\ SeatSum(payout) <= SeatSum(staked)
      /\ t.dealer \in Seats \cup {NoSeat}
  BY StakedType, HandEndsFairly DEF Contesting, TableState
<1>0. \A s \in Seats : staked[s] > 0 => t.inHand[s]
  BY StakedByPlayers
<1>2. SeatSum(payout) \in Nat /\ SeatSum(staked) \in Nat
  BY <1>1, SeatSumType
<1>3. CASE ComparedHands(t, u)
  <2>1. PICK rank \in Ranks : payout = Payout(staked, Contesting(t), rank, t.dealer)
    BY <1>3 DEF ComparedHands
  <2>2. PICK w \in Contesting(t) : \A o \in Seats : staked[o] <= staked[w]
    <3>1. PICK w \in Contesting(t) : ~ \E o \in Seats : t.folded[o] /\ staked[o] > staked[w]
      BY <1>3 DEF ComparedHands, Topped
    <3>2. \A s \in Seats : staked[s] > 0 => t.inHand[s]
      BY <1>0
    <3>3. w \in Seats
      BY DEF Contesting
    <3>. HIDE DEF staked
    <3>4. PICK s \in Seats : \A o \in Seats : staked[o] <= staked[s]
      BY <1>1, <3>3, SeatMax
    <3>5. CASE staked[s] > staked[w]
      <4>1. staked[s] > 0 /\ ~t.folded[s]
        BY <1>1, <3>1, <3>3, <3>5
      <4>2. s \in Contesting(t)
        BY <3>2, <4>1 DEF Contesting
      <4>. QED
        BY <3>4, <4>2
    <3>6. CASE ~(staked[s] > staked[w])
      <4>1. \A o \in Seats : staked[o] <= staked[w]
        BY <1>1, <3>3, <3>4, <3>6
      <4>. QED
        BY <4>1
    <3>. QED
      BY <3>5, <3>6
  <2>3. rank \in [Seats -> Nat]
    <3>1. rank \in [Seats -> 1..MaxSeats] /\ MaxSeats \in Nat
      BY SeatsAssumption DEF Ranks
    <3>. QED
      BY <3>1
  <2>. HIDE DEF payout, staked
  <2>4. SeatSum(MatchedUpTo(staked, staked[w])) <= SeatSum(payout)
    BY <1>1, <2>1, <2>3, PayoutCovers
  <2>5. MatchedUpTo(staked, staked[w]) = staked
    BY <1>1, <2>2 DEF MatchedUpTo
  <2>. QED
    BY <1>1, <1>2, <2>4, <2>5 DEF payout, staked
<1>4. CASE LastOneWon(t, u)
  <2>. DEFINE pot == SeatSum(staked)
  <2>1. PICK w \in Contesting(t) : TRUE
    BY <1>4 DEF LastOneWon
  <2>2. w \in Seats /\ payout[w] = pot
    BY <1>1, <1>4, <2>1 DEF LastOneWon
  <2>. HIDE DEF payout, staked, pot
  <2>3. payout[w] <= SeatSum(payout)
    BY <1>1, <2>2, SeatSumType
  <2>. QED
    BY <1>1, <1>2, <2>2, <2>3 DEF payout, staked, pot
<1>. QED
  BY <1>3, <1>4 DEF EndsHand

\* Nobody's stack shrinks and no chips are made when a hand ends, and who was not
\* in it keeps his stack; none are lost either unless all who put in the most folded.
LEMMA HandEndsChips ==
  ASSUME NEW t \in TableState, NEW u, EndsHand(t, u)
  PROVE  /\ SeatSum(ChipsOf(u)) <= SeatSum(ChipsOf(t))
         /\ /\ ~(u.lastResult.showdown /\ Topped(t))
            /\ \A s \in Seats : ~t.inHand[s] => t.committed[s] = 0
            => SeatSum(ChipsOf(u)) = SeatSum(ChipsOf(t))
         /\ \A s \in Seats : u.stack[s] >= t.stack[s]
         /\ \A s \in Seats : ~t.inHand[s] /\ t.committed[s] = 0 => u.stack[s] = t.stack[s]
<1>. DEFINE payout == u.lastResult.payout
            refund == Refund(t.committed)
            gain == [s \in Seats |-> refund[s] + payout[s]]
            whole == /\ ~(u.lastResult.showdown /\ Topped(t))
                     /\ \A s \in Seats : ~t.inHand[s] => t.committed[s] = 0
<1>1. /\ payout \in [Seats -> Nat] /\ refund \in [Seats -> Nat]
      /\ SeatSum(payout) <= SeatSum(Staked(t))
      /\ whole => SeatSum(payout) = SeatSum(Staked(t))
      /\ \A s \in Seats \ Contesting(t) : payout[s] = 0
  BY HandEndsFairly, HandEndsWhole, StakedType
<1>2. /\ \A s \in Seats : u.stack[s] = t.stack[s] + refund[s] + payout[s]
      /\ u.committed = Zeros /\ u \in TableState
  BY DEF EndsHand, Settled
<1>3. t.stack \in [Seats -> Nat] /\ t.committed \in [Seats -> Nat]
  BY DEF TableState
<1>4. /\ SeatSum(Staked(t)) + SeatSum(refund) = SeatSum(t.committed)
      /\ \A s \in Seats : t.committed[s] = 0 => refund[s] = 0
  BY StakedAndRefund
<1>. HIDE DEF payout, refund, whole
<1>5. ChipsOf(u) = [s \in Seats |-> t.stack[s] + gain[s]]
  <2>1. ASSUME NEW s \in Seats
        PROVE  u.stack[s] + u.committed[s] = t.stack[s] + (refund[s] + payout[s])
    BY <1>1, <1>2, <1>3 DEF Zeros
  <2>. QED
    BY <2>1 DEF ChipsOf
<1>6. gain \in [Seats -> Nat]
  BY <1>1
<1>7. SeatSum(gain) = SeatSum(refund) + SeatSum(payout)
  <2>1. refund \in [Seats -> Int] /\ payout \in [Seats -> Int]
    BY <1>1
  <2>. HIDE DEF gain
  <2>. QED
    BY <2>1, SeatSumAdd DEF gain
<1>. HIDE DEF gain
<1>8. SeatSum([s \in Seats |-> t.stack[s] + gain[s]]) = SeatSum(t.stack) + SeatSum(gain)
  <2>1. t.stack \in [Seats -> Int] /\ gain \in [Seats -> Int]
    BY <1>3, <1>6
  <2>. QED
    BY <2>1, SeatSumAdd
<1>9. SeatSum(ChipsOf(t)) = SeatSum(t.stack) + SeatSum(t.committed)
  <2>1. t.stack \in [Seats -> Int] /\ t.committed \in [Seats -> Int]
    BY <1>3
  <2>. QED
    BY <2>1, SeatSumAdd DEF ChipsOf
<1>10. /\ SeatSum(ChipsOf(u)) <= SeatSum(ChipsOf(t))
       /\ whole => SeatSum(ChipsOf(u)) = SeatSum(ChipsOf(t))
  <2>1. /\ SeatSum(refund) \in Nat /\ SeatSum(payout) \in Nat /\ SeatSum(gain) \in Nat
        /\ SeatSum(t.stack) \in Nat /\ SeatSum(t.committed) \in Nat
        /\ SeatSum(Staked(t)) \in Nat
    BY <1>1, <1>3, <1>6, SeatSumType, StakedType
  <2>. QED
    BY <1>1, <1>4, <1>5, <1>7, <1>8, <1>9, <2>1
<1>11. ASSUME NEW s \in Seats
       PROVE  /\ u.stack[s] >= t.stack[s]
              /\ ~t.inHand[s] /\ t.committed[s] = 0 => u.stack[s] = t.stack[s]
  <2>1. refund[s] \in Nat /\ payout[s] \in Nat /\ t.stack[s] \in Nat
    BY <1>1, <1>3
  <2>2. ~t.inHand[s] => payout[s] = 0
    BY <1>1 DEF Contesting
  <2>. QED
    BY <1>2, <1>4, <2>1, <2>2
<1>. QED
  BY <1>10, <1>11 DEF whole

\* A showdown gives nobody more of a player's chips than he matched himself, and
\* nothing to who folded.
PaysMatchedOnly(r) ==
  r.showdown => \A s \in r.players :
    r.payout[s] <= IF r.folded[s] THEN 0
                   ELSE SeatSum([o \in Seats |-> Smaller(r.committed[o], r.committed[s])])

\* It pays out all that somebody who did not fold matched.
PaysAllMatched(r) ==
  r.showdown => \A s \in {p \in r.players : ~r.folded[p]} :
    SeatSum(r.payout) >= SeatSum([o \in Seats |-> Smaller(r.committed[o], r.committed[s])])

\* A hand that ends pays its showdown as the comparison says.
LEMMA HandEndsFair ==
  ASSUME NEW t \in TableState, NEW u, EndsHand(t, u)
  PROVE  PaysMatchedOnly(u.lastResult) /\ PaysAllMatched(u.lastResult)
<1>. DEFINE r == u.lastResult
<1>1. /\ r.players = {s \in Seats : t.inHand[s]} /\ r.folded = t.folded
      /\ r.committed = Staked(t)
  BY DEF EndsHand, Settled
<1>2. CASE ~r.showdown
  BY <1>2 DEF PaysMatchedOnly, PaysAllMatched
<1>3. CASE r.showdown
  <2>1. PICK rank \in Ranks : r.payout = Payout(Staked(t), Contesting(t), rank, t.dealer)
    BY <1>3 DEF EndsHand, ComparedHands, LastOneWon
  <2>2. /\ Staked(t) \in [Seats -> Nat] /\ Contesting(t) \in SUBSET Seats
        /\ rank \in [Seats -> Nat] /\ t.dealer \in Seats \cup {NoSeat}
    <3>1. rank \in [Seats -> 1..MaxSeats] /\ MaxSeats \in Nat
      BY SeatsAssumption DEF Ranks
    <3>2. rank \in [Seats -> Nat]
      BY <3>1
    <3>. QED
      BY <3>2, StakedType DEF Contesting, TableState
  <2>3. \A s \in Seats : [o \in Seats |-> Smaller(r.committed[o], r.committed[s])]
                           = MatchedUpTo(Staked(t), Staked(t)[s])
    BY <1>1 DEF MatchedUpTo, Smaller
  <2>4. ASSUME NEW s \in r.players
        PROVE  /\ s \in Seats
               /\ r.folded[s] => r.payout[s] = 0
               /\ ~r.folded[s] => s \in Contesting(t)
    BY <1>1, <2>1, <2>2, PayoutType, SMTT(60) DEF Contesting
  <2>. HIDE DEF r
  <2>5. ASSUME NEW s \in Seats
        PROVE  r.payout[s] <= SeatSum(MatchedUpTo(Staked(t), Staked(t)[s]))
    BY <2>1, <2>2, PayoutMatched
  <2>6. ASSUME NEW s \in Contesting(t)
        PROVE  SeatSum(r.payout) >= SeatSum(MatchedUpTo(Staked(t), Staked(t)[s]))
    <3>. DEFINE some == SeatSum(MatchedUpTo(Staked(t), Staked(t)[s]))
    <3>1. some <= SeatSum(r.payout)
      BY <2>1, <2>2, PayoutCovers
    <3>. QED
      BY <3>1
  <2>7. PaysMatchedOnly(r)
    BY <2>3, <2>4, <2>5 DEF PaysMatchedOnly
  <2>8. PaysAllMatched(r)
    BY <2>2, <2>3, <2>4, <2>6 DEF PaysAllMatched
  <2>. QED
    BY <2>7, <2>8 DEF r
<1>. QED
  BY <1>2, <1>3

-----------------------------------------------------------------------------
(* The books *)

\* Chips are in the pot only for players of the hand, who are users with chips;
\* between hands there are none; who folded kept chips, and who has none left is
\* all-in; and no result of an earlier hand is shown during a hand.
Books(t) ==
  /\ \A s \in Seats : ~t.inHand[s] => t.committed[s] = 0
  /\ ~HandActive(t) => \A s \in Seats : ~t.inHand[s]
  /\ \A s \in Seats : t.inHand[s] \/ t.stack[s] > 0 \/ t.hole[s] => t.user[s] # NoUser
  /\ \A s \in Seats : t.inHand[s] =>
       /\ t.stack[s] + t.committed[s] > 0
       /\ t.folded[s] => t.stack[s] > 0
       /\ t.stack[s] > 0 \/ t.allIn[s]
  /\ HandActive(t) => ~t.lastResult.showdown

\* Whoever can still act put in on the earlier streets as much as anybody.
Level(t) ==
  HandActive(t) =>
    \A s \in Actionable(t), o \in Seats :
      t.committed[o] - t.bet[o] <= t.committed[s] - t.bet[s]

\* An act keeps the books, and moves chips from a stack to the pot.
LEMMA ActsBooks ==
  ASSUME NEW t \in TableState, Sound(t), HandActive(t), NEW s \in Seats, s = t.acting,
         NEW m \in TableState, Acts(t, m, s), Books(t), Level(t)
  PROVE  Books(m) /\ Level(m) /\ ChipsOf(m) = ChipsOf(t)
<1>1. s \in NeedsAction(t)
  BY DEF Sound, TurnPlayable
<1>2. t.inHand[s] /\ ~t.folded[s] /\ ~t.allIn[s]
  BY <1>1 DEF NeedsAction, Actionable, Contesting
<1>3. SameTable(t, m) /\ OwnChips(t, m)
  BY DEF Acts
<1>4. /\ HandActive(m) /\ m.inHand = t.inHand /\ m.user = t.user /\ m.hole = t.hole
      /\ m.lastResult = t.lastResult
  BY <1>3 DEF SameTable, HandActive
<1>5. \A o \in Seats : /\ t.stack[o] \in Nat /\ t.committed[o] \in Nat
                       /\ m.stack[o] \in Nat /\ m.committed[o] \in Nat
  BY DEF TableState
<1>6. ChipsOf(m) = ChipsOf(t)
  BY <1>3 DEF ChipsOf, OwnChips
<1>7. Books(m)
  <2>1. ASSUME NEW o \in Seats
        PROVE  /\ ~m.inHand[o] => m.committed[o] = 0
               /\ m.inHand[o] \/ m.stack[o] > 0 \/ m.hole[o] => m.user[o] # NoUser
               /\ m.inHand[o] =>
                    /\ m.stack[o] + m.committed[o] > 0
                    /\ m.folded[o] => m.stack[o] > 0
                    /\ m.stack[o] > 0 \/ m.allIn[o]
    <3>1. CASE o = s
      BY <1>2, <1>3, <1>4, <1>5, <3>1 DEF Books, Acts, OwnChips
    <3>2. CASE o # s
      BY <1>3, <1>4, <1>5, <3>2 DEF Books, Acts, OwnChips
    <3>. QED
      BY <3>1, <3>2
  <2>. QED
    BY <1>4, <2>1 DEF Books
<1>8. Actionable(m) \subseteq Actionable(t)
  BY <1>1, <1>4 DEF Acts, Actionable, Contesting, NeedsAction
<1>9. Level(m)
  BY <1>3, <1>8 DEF Level, OwnChips, Actionable, Contesting
<1>. QED
  BY <1>6, <1>7, <1>9

\* A deal keeps the books, and moves blinds from stacks to the pot.
LEMMA DealtBooks ==
  ASSUME NEW t \in TableState, BetsBounded(t), ~HandActive(t),
         NEW p \in TableState, Dealt(t, p), Books(t)
  PROVE  Books(p) /\ Level(p) /\ ChipsOf(p) = ChipsOf(t)
<1>1. \A s \in Seats : /\ t.stack[s] \in Nat /\ t.committed[s] = 0 /\ ~t.inHand[s]
                       /\ t.bet[s] = 0
                       /\ p.stack[s] \in Nat /\ p.committed[s] \in Nat /\ p.bet[s] \in Nat
  BY DEF TableState, Books, BetsBounded
<1>2. \A s \in Seats : s \in Playable(t) <=> t.stack[s] > 0
  BY DEF Playable
<1>3. HandActive(p) /\ ~p.lastResult.showdown
  BY DEF Dealt, HandActive, BettingStreets, NoResult
<1>4. ASSUME NEW s \in Seats
      PROVE  /\ p.stack[s] + p.committed[s] = t.stack[s] + t.committed[s]
             /\ p.committed[s] - p.bet[s] = 0
  BY <1>1 DEF Dealt
<1>5. ChipsOf(p) = ChipsOf(t)
  BY <1>4 DEF ChipsOf
<1>6. Level(p)
  BY <1>4 DEF Level, Actionable, Contesting
<1>7. Books(p)
  <2>1. ASSUME NEW s \in Seats
        PROVE  /\ ~p.inHand[s] => p.committed[s] = 0
               /\ p.inHand[s] \/ p.stack[s] > 0 \/ p.hole[s] => p.user[s] # NoUser
               /\ p.inHand[s] =>
                    /\ p.stack[s] + p.committed[s] > 0
                    /\ p.folded[s] => p.stack[s] > 0
                    /\ p.stack[s] > 0 \/ p.allIn[s]
    <3>1. /\ p.hole[s] = (t.hole[s] \/ s \in Playable(t))
          /\ p.inHand[s] = (t.inHand[s] \/ s \in Playable(t))
          /\ p.folded[s] = (t.folded[s] /\ s \notin Playable(t))
          /\ p.user = t.user
      BY DEF Dealt
    <3>2. CASE s \in Playable(t)
      BY <1>1, <1>2, <1>4, <3>1, <3>2 DEF Dealt, Books
    <3>3. CASE s \notin Playable(t)
      <4>1. t.stack[s] = 0
        BY <1>1, <1>2, <3>3
      <4>2. p.stack[s] = 0 /\ p.committed[s] = 0
        BY <1>1, <1>4, <4>1
      <4>3. ~p.inHand[s] /\ (p.hole[s] => t.hole[s])
        BY <1>1, <3>1, <3>3, Zenon
      <4>4. t.hole[s] => t.user[s] # NoUser
        BY DEF Books
      <4>. QED
        BY <3>1, <4>2, <4>3, <4>4
    <3>. QED
      BY <3>2, <3>3
  <2>. QED
    BY <1>3, <2>1 DEF Books
<1>. QED
  BY <1>5, <1>6, <1>7

\* The known case in which chips leave the game, as the result r tells it.
AboveTheLive(r) ==
  /\ r.showdown /\ Cardinality(r.players) >= 4
  /\ \A s \in r.players : ~r.folded[s] =>
       \E o \in r.players : r.folded[o] /\ r.committed[o] > r.committed[s]

\* What comes of a hand keeps the books, and makes no chips; it loses some in the
\* known case only.
LEMMA OutcomeBooks ==
  ASSUME NEW t \in TableState, NEW u, Outcome(t, u), BetsBounded(t), HandActive(t),
         Books(t), Level(t)
  PROVE  /\ u \in TableState /\ Books(u) /\ Level(u)
         /\ SeatSum(ChipsOf(u)) <= SeatSum(ChipsOf(t))
         /\ SeatSum(ChipsOf(u)) = SeatSum(ChipsOf(t)) \/ AboveTheLive(u.lastResult)
<1>1. CASE HandGoesOn(t, u)
  <2>1. /\ u \in TableState /\ SameHand(t, u) /\ HandActive(u)
    BY <1>1 DEF HandGoesOn, SameHand
  <2>2. Books(u) /\ ChipsOf(u) = ChipsOf(t)
    BY <2>1 DEF SameHand, Books, ChipsOf
  <2>3. Actionable(u) = Actionable(t)
    BY <2>1, SameMust DEF SameHand
  <2>4. Level(u)
    <3>1. CASE SameBets(t, u)
      BY <2>1, <2>3, <3>1 DEF Level, SameBets, SameHand
    <3>2. CASE NewBets(t, u)
      <4>1. ASSUME NEW s \in Actionable(t), NEW o \in Seats
            PROVE  t.committed[o] <= t.committed[s]
        <5>1. s \in Seats /\ t.bet[s] = t.currentBet
          BY <3>2 DEF NewBets, NeedsAction, Actionable, Contesting
        <5>2. /\ t.bet[o] <= t.currentBet
              /\ t.committed[o] - t.bet[o] <= t.committed[s] - t.bet[s]
          BY DEF Level, BetsBounded
        <5>3. /\ t.bet[s] \in Nat /\ t.bet[o] \in Nat /\ t.currentBet \in Nat
              /\ t.committed[s] \in Nat /\ t.committed[o] \in Nat
          BY <5>1 DEF TableState
        <5>. QED
          BY <5>1, <5>2, <5>3
      <4>2. \A s \in Seats : u.committed[s] - u.bet[s] = t.committed[s]
        BY <2>1, <3>2 DEF NewBets, SameHand, Zeros, TableState
      <4>. QED
        BY <2>3, <4>1, <4>2 DEF Level, Actionable, Contesting
    <3>. QED
      BY <1>1, <3>1, <3>2 DEF HandGoesOn
  <2>6. SeatSum(ChipsOf(u)) <= SeatSum(ChipsOf(t))
    <3>1. ChipsOf(t) \in [Seats -> Int]
      BY DEF ChipsOf, TableState
    <3>2. SeatSum(ChipsOf(t)) \in Int
      BY <3>1, SeatSumInt
    <3>. QED
      BY <2>2, <3>2
  <2>. QED
    BY <2>1, <2>2, <2>4, <2>6
<1>2. CASE EndsHand(t, u)
  <2>1. u \in TableState /\ Settled(t, u)
    BY <1>2 DEF EndsHand
  <2>2. ~HandActive(u) /\ \A s \in Seats : ~u.inHand[s] /\ u.committed[s] = 0
    BY <2>1 DEF Settled, HandActive, BettingStreets, Nobody, Zeros
  <2>3. \A s \in Seats : u.stack[s] > 0 \/ u.hole[s] => u.user[s] # NoUser
    <3>1. ASSUME NEW s \in Seats, ~t.inHand[s]  PROVE u.stack[s] = t.stack[s]
      BY <1>2, <3>1, HandEndsChips DEF Books
    <3>. QED
      BY <2>1, <3>1 DEF Settled, Books
  <2>4. \A s \in Seats : ~t.inHand[s] => t.committed[s] = 0
    BY DEF Books
  <2>5. SeatSum(ChipsOf(u)) = SeatSum(ChipsOf(t)) \/ AboveTheLive(u.lastResult)
    <3>1. SUFFICES ASSUME u.lastResult.showdown, Topped(t)  PROVE AboveTheLive(u.lastResult)
      BY <1>2, <2>4, HandEndsChips
    <3>2. \E a, b \in Contesting(t) : a # b
      BY <1>2, <3>1 DEF EndsHand, ComparedHands, LastOneWon
    <3>3. Cardinality({s \in Seats : t.inHand[s]}) >= 4
      BY <2>4, <3>1, <3>2, ToppedByTwo
    <3>4. /\ u.lastResult.players = {s \in Seats : t.inHand[s]}
          /\ u.lastResult.folded = t.folded /\ u.lastResult.committed = Staked(t)
      BY <2>1 DEF Settled
    <3>5. ASSUME NEW s \in Seats, t.inHand[s], ~t.folded[s]
          PROVE  \E o \in Seats : t.inHand[o] /\ t.folded[o] /\ Staked(t)[o] > Staked(t)[s]
      <4>1. PICK o \in Seats : t.folded[o] /\ Staked(t)[o] > Staked(t)[s]
        BY <3>1, <3>5 DEF Topped, Contesting
      <4>2. Staked(t)[o] > 0
        BY <4>1, StakedType
      <4>. QED
        BY <2>4, <4>1, <4>2, StakedByPlayers
    <3>. QED
      BY <3>1, <3>3, <3>4, <3>5 DEF AboveTheLive
  <2>6. SeatSum(ChipsOf(u)) <= SeatSum(ChipsOf(t))
    BY <1>2, HandEndsChips
  <2>. QED
    BY <2>1, <2>2, <2>3, <2>5, <2>6 DEF Books, Level
<1>. QED
  BY <1>1, <1>2 DEF Outcome

\* The table a deal or an act goes through, whatever becomes of the hand then.
LEMMA Through ==
  ASSUME IInv, Books(table), Level(table),
         \/ \E p \in TableState : Deals(p)
         \/ \E s \in Seats, m \in TableState : Plays(s, m)
  PROVE  \E m \in TableState :
           /\ Books(m) /\ Level(m) /\ BetsBounded(m) /\ HandActive(m)
           /\ ChipsOf(m) = ChipsOf(table)
           /\ m.turnID = table.turnID /\ m.user = table.user
           /\ Outcome(m, table')
<1>1. table \in TableState /\ Sound(table) /\ BetsBounded(table)
  BY DEF IInv, TypeOK, Sound
<1>2. CASE \E p \in TableState : Deals(p)
  <2>1. PICK p \in TableState : Deals(p)
    BY <1>2
  <2>2. HandActive(p) /\ p.turnID = table.turnID /\ p.user = table.user
    BY <2>1 DEF Deals, Dealt, HandActive, BettingStreets
  <2>3. Books(p) /\ Level(p) /\ ChipsOf(p) = ChipsOf(table)
    BY <1>1, <2>1, DealtBooks DEF Deals
  <2>. QED
    BY <2>1, <2>2, <2>3 DEF Deals
<1>3. CASE \E s \in Seats, m \in TableState : Plays(s, m)
  <2>1. PICK s \in Seats, m \in TableState : Plays(s, m)
    BY <1>3
  <2>2. HandActive(m) /\ m.turnID = table.turnID /\ m.user = table.user
    BY <2>1 DEF Plays, Acts, SameTable, HandActive
  <2>3. Books(m) /\ Level(m) /\ ChipsOf(m) = ChipsOf(table)
    BY <1>1, <2>1, ActsBooks DEF Plays
  <2>. QED
    BY <2>1, <2>2, <2>3 DEF Plays
<1>. QED
  BY <1>2, <1>3

\* Every step keeps the books, and leaves at most the chips that were there and
\* were brought; it loses some in the known case only.
LEMMA BooksKept ==
  ASSUME IInv, Books(table), Level(table), Chips(table) <= supply, [Next]_vars
  PROVE  /\ Books(table') /\ Level(table') /\ Chips(table') <= supply'
         /\ \/ Chips(table') - supply' = Chips(table) - supply
            \/ AboveTheLive(table'.lastResult)
<1>. DEFINE Whole == \/ SeatSum(ChipsOf(table')) - supply' = SeatSum(ChipsOf(table)) - supply
                     \/ AboveTheLive(table'.lastResult)
<1>1. table \in TableState /\ supply \in Int
  BY DEF IInv, TypeOK
<1>2. ASSUME NEW t \in TableState
      PROVE  ChipsOf(t) \in [Seats -> Int] /\ SeatSum(ChipsOf(t)) \in Int
  <2>1. ChipsOf(t) \in [Seats -> Int]
    BY DEF ChipsOf, TableState
  <2>. QED
    BY <2>1, SeatSumInt
<1>3. SeatSum(ChipsOf(table)) <= supply
  BY DEF Chips, ChipsOf
<1>4. ASSUME NEW s \in Seats, NEW u \in Users, NEW b \in BuyIns, Sits(s, u, b)
      PROVE  Books(table') /\ Level(table') /\ SeatSum(ChipsOf(table')) <= supply' /\ Whole
  <2>1. /\ SamePlay(table, table') /\ table' \in TableState
        /\ table'.hole = table.hole /\ table'.folded = table.folded
        /\ supply' = supply + b /\ table.user[s] = NoUser
    BY <1>4 DEF Sits, SamePlay
  <2>2. b \in Nat /\ u # NoUser
    BY HoldemAssumption
  <2>3. /\ table.stack \in [Seats -> Nat] /\ table.committed \in [Seats -> Nat]
        /\ table.user \in [Seats -> Users \cup {NoUser}]
    BY <1>1 DEF TableState
  <2>4. /\ table'.stack[s] = b /\ table'.user[s] = u
        /\ \A o \in Seats \ {s} :
             table'.stack[o] = table.stack[o] /\ table'.user[o] = table.user[o]
    BY <1>4, <2>3 DEF Sits
  <2>5. table.stack[s] = 0 /\ table.committed[s] = 0 /\ ~table.inHand[s]
    BY <2>1, <2>3 DEF Books
  <2>6. Books(table')
    BY <2>1, <2>2, <2>4, <2>5 DEF Books, SamePlay, HandActive
  <2>7. Level(table')
    BY <2>1 DEF Level, SamePlay, HandActive, Actionable, Contesting
  <2>8. SeatSum(ChipsOf(table')) = SeatSum(ChipsOf(table)) + b
    <3>1. /\ ChipsOf(table)[s] = 0 /\ ChipsOf(table')[s] = b
          /\ \A o \in Seats \ {s} : ChipsOf(table)[o] = ChipsOf(table')[o]
      BY <2>1, <2>2, <2>4, <2>5 DEF ChipsOf, SamePlay
    <3>2. SeatSum(ChipsOf(table')) = SeatSum(ChipsOf(table)) + ChipsOf(table')[s] - ChipsOf(table)[s]
      BY <1>1, <1>2, <2>1, <3>1, SeatSumUpdate
    <3>. QED
      BY <1>1, <1>2, <2>2, <3>1, <3>2
  <2>. QED
    BY <1>1, <1>2, <1>3, <2>1, <2>2, <2>6, <2>7, <2>8
<1>5. ASSUME NEW s \in Seats, Rises(s)
      PROVE  Books(table') /\ Level(table') /\ SeatSum(ChipsOf(table')) <= supply' /\ Whole
  <2>1. /\ SamePlay(table, table') /\ table' \in TableState /\ ~HandActive(table)
        /\ supply' = supply - table.stack[s]
    BY <1>5 DEF Rises, SamePlay
  <2>2. /\ table.stack \in [Seats -> Nat] /\ table.committed \in [Seats -> Nat]
        /\ table.user \in [Seats -> Users \cup {NoUser}]
        /\ table.hole \in [Seats -> BOOLEAN]
    BY <1>1 DEF TableState
  <2>3. /\ table'.stack[s] = 0 /\ ~table'.hole[s]
        /\ \A o \in Seats \ {s} :
             /\ table'.stack[o] = table.stack[o] /\ table'.user[o] = table.user[o]
             /\ table'.hole[o] = table.hole[o]
    BY <1>5, <2>2 DEF Rises
  <2>4. \A o \in Seats : ~table.inHand[o] /\ table.committed[o] = 0
    BY <2>1 DEF Books
  <2>5. Books(table')
    BY <2>1, <2>3, <2>4 DEF Books, SamePlay, HandActive
  <2>6. Level(table')
    BY <2>1 DEF Level, SamePlay, HandActive
  <2>7. SeatSum(ChipsOf(table')) = SeatSum(ChipsOf(table)) - table.stack[s]
    <3>1. /\ ChipsOf(table)[s] = table.stack[s] /\ ChipsOf(table')[s] = 0
          /\ \A o \in Seats \ {s} : ChipsOf(table)[o] = ChipsOf(table')[o]
      BY <2>1, <2>2, <2>3, <2>4 DEF ChipsOf, SamePlay
    <3>2. SeatSum(ChipsOf(table')) = SeatSum(ChipsOf(table)) + ChipsOf(table')[s] - ChipsOf(table)[s]
      BY <1>1, <1>2, <2>1, <3>1, SeatSumUpdate
    <3>. QED
      BY <1>1, <1>2, <2>2, <3>1, <3>2
  <2>. QED
    BY <1>1, <1>2, <1>3, <2>1, <2>2, <2>5, <2>6, <2>7
<1>6. CASE Marks
  <2>1. /\ SamePlay(table, table') /\ table'.user = table.user
        /\ table'.stack = table.stack /\ table'.hole = table.hole
        /\ table'.folded = table.folded /\ supply' = supply
    BY <1>6 DEF Marks
  <2>. QED
    BY <1>3, <2>1 DEF Books, Level, SamePlay, HandActive, Actionable, Contesting, ChipsOf, Chips
<1>7. CASE \/ \E p \in TableState : Deals(p)
           \/ \E s \in Seats, m \in TableState : Plays(s, m)
  <2>1. PICK m \in TableState :
          /\ Books(m) /\ Level(m) /\ BetsBounded(m) /\ HandActive(m)
          /\ ChipsOf(m) = ChipsOf(table) /\ Outcome(m, table')
    BY <1>7, Through
  <2>2. /\ table' \in TableState /\ Books(table') /\ Level(table')
        /\ SeatSum(ChipsOf(table')) <= SeatSum(ChipsOf(table))
        /\ \/ SeatSum(ChipsOf(table')) = SeatSum(ChipsOf(table))
           \/ AboveTheLive(table'.lastResult)
    BY <2>1, OutcomeBooks
  <2>3. supply' = supply
    BY <1>7 DEF Deals, Plays
  <2>4. SeatSum(ChipsOf(table')) \in Int
    BY <1>2, <2>2
  <2>. QED
    BY <1>1, <1>2, <1>3, <2>2, <2>3, <2>4 DEF Chips, ChipsOf
<1>8. CASE UNCHANGED vars
  BY <1>8 DEF vars, Books, Level, Chips, HandActive, Actionable, Contesting
<1>. QED
  BY <1>4, <1>5, <1>6, <1>7, <1>8, StepKinds DEF Chips, ChipsOf

-----------------------------------------------------------------------------
(* What the history keeps *)

\* The players' chips are those they were dealt in with, as far as they are not
\* yet paid out, and the last result says so.
DealtKept ==
  /\ ResultStartsFromDeal
  /\ HandActive(table) => \A s \in Seats : table.inHand[s] =>
       table.stack[s] + table.committed[s] = dealt[s]

\* Every step keeps account of the chips the players were dealt in with.
LEMMA DealtIsKept ==
  ASSUME IInv, Books(table), Level(table), DealtKept, [Next]_vars
  PROVE  DealtKept'
<1>1. table \in TableState
  BY DEF IInv, TypeOK
<1>2. ASSUME NEW s \in Seats, NEW u \in Users, NEW b \in BuyIns, Sits(s, u, b)
      PROVE  DealtKept'
  <2>1. /\ SamePlay(table, table') /\ dealt' = dealt /\ table.user[s] = NoUser
        /\ table'.stack = [table.stack EXCEPT ![s] = b]
    BY <1>2 DEF Sits
  <2>2. ~table.inHand[s] /\ \A o \in Seats \ {s} : table'.stack[o] = table.stack[o]
    BY <1>1, <2>1 DEF Books, TableState
  <2>. QED
    BY <2>1, <2>2 DEF DealtKept, ResultStartsFromDeal, SamePlay, HandActive
<1>3. ASSUME NEW s \in Seats, Rises(s)
      PROVE  DealtKept'
  BY <1>3 DEF DealtKept, ResultStartsFromDeal, Rises, SamePlay, HandActive
<1>4. CASE Marks
  BY <1>4 DEF DealtKept, ResultStartsFromDeal, Marks, SamePlay, HandActive
<1>5. ASSUME NEW m \in TableState, Outcome(m, table'),
             \A s \in Seats : m.inHand[s] => m.stack[s] + m.committed[s] = dealt'[s],
             \A s \in m.lastResult.players : m.lastResult.start[s] = dealt'[s]
      PROVE  DealtKept'
  <2>1. CASE HandGoesOn(m, table')
    BY <1>5, <2>1 DEF HandGoesOn, SameHand, DealtKept, ResultStartsFromDeal
  <2>2. CASE EndsHand(m, table')
    BY <1>5, <2>2 DEF EndsHand, Settled, DealtKept, ResultStartsFromDeal,
                      HandActive, BettingStreets
  <2>. QED
    BY <1>5, <2>1, <2>2 DEF Outcome
<1>6. ASSUME NEW t \in TableState, NEW u, Outcome(t, u)
      PROVE  u.handID = t.handID
  BY <1>6 DEF Outcome, HandGoesOn, EndsHand, Settled, SameHand
<1>7. ASSUME NEW p \in TableState, Deals(p)
      PROVE  DealtKept'
  <2>1. Outcome(p, table') /\ Dealt(table, p) /\ Remember(table') /\ ~HandActive(table)
    BY <1>7 DEF Deals
  <2>2. table'.handID # table.handID
    BY <1>1, <1>6, <2>1 DEF Dealt, TableState
  <2>3. dealt' = table.stack
    BY <2>1, <2>2 DEF Remember
  <2>4. ASSUME NEW s \in Seats, p.inHand[s]
        PROVE  p.stack[s] + p.committed[s] = table.stack[s]
    BY <2>1, <2>4 DEF Dealt, Books
  <2>5. p.lastResult.players = {}
    BY <2>1 DEF Dealt, NoResult
  <2>. QED
    BY <1>5, <2>1, <2>3, <2>4, <2>5
<1>8. ASSUME NEW s \in Seats, NEW m \in TableState, Plays(s, m)
      PROVE  DealtKept'
  <2>1. /\ Outcome(m, table') /\ SameTable(table, m) /\ OwnChips(table, m)
        /\ Remember(table') /\ HandActive(table)
    BY <1>8 DEF Plays, Acts
  <2>2. dealt' = dealt
    BY <1>6, <2>1 DEF Remember, SameTable
  <2>. QED
    BY <1>5, <2>1, <2>2 DEF SameTable, OwnChips, DealtKept, ResultStartsFromDeal
<1>9. CASE UNCHANGED vars
  BY <1>9 DEF vars, DealtKept, ResultStartsFromDeal, HandActive
<1>. QED
  BY <1>2, <1>3, <1>4, <1>7, <1>8, <1>9, StepKinds

\* Who acted on this street spoke; who spoke, can still act and has not acted since
\* the last full raise faces at least one.
SpokeKept ==
  /\ \A s \in Seats : table.acted[s] => s \in spoke
  /\ \A s \in Seats : table.actedAtBet[s] <= table.currentBet
  /\ \A s \in spoke \cap Actionable(table) :
       table.acted[s] \/ table.currentBet - table.actedAtBet[s] >= table.minRaise

\* Every step keeps account of who has spoken since the last full raise.
LEMMA SpokeIsKept ==
  ASSUME IInv, Books(table), Level(table), SpokeKept, [Next]_vars
  PROVE  SpokeKept'
<1>1. table \in TableState /\ Sound(table)
  BY DEF IInv, TypeOK
<1>2. CASE (\E s \in Seats, u \in Users, b \in BuyIns : Sits(s, u, b)) \/ Marks
  <2>1. SamePlay(table, table') /\ table'.folded = table.folded /\ spoke' = spoke
    BY <1>2 DEF Sits, Marks
  <2>. QED
    BY <2>1 DEF SpokeKept, SamePlay, Actionable, Contesting
<1>3. CASE \E s \in Seats : Rises(s)
  <2>1. SamePlay(table, table') /\ ~HandActive(table) /\ spoke' = spoke
    BY <1>3 DEF Rises
  <2>2. Actionable(table') = {}
    BY <2>1 DEF Books, SamePlay, Actionable, Contesting
  <2>. QED
    BY <2>1, <2>2 DEF SpokeKept, SamePlay
<1>4. ASSUME NEW t, t.acted = Nobody, t.actedAtBet = Zeros, t.currentBet \in Nat
      PROVE  /\ \A s \in Seats : ~t.acted[s]
             /\ \A s \in Seats : t.actedAtBet[s] <= t.currentBet
  BY <1>4 DEF Nobody, Zeros
<1>5. ASSUME NEW p \in TableState, Deals(p)
      PROVE  SpokeKept'
  <2>1. Outcome(p, table') /\ Dealt(table, p) /\ Remember(table') /\ p.currentBet \in Nat
    BY <1>5 DEF Deals, TableState
  <2>2. /\ table'.handID = p.handID /\ table'.acted = Nobody /\ table'.actedAtBet = Zeros
        /\ table'.currentBet = p.currentBet \/ table'.currentBet = 0
    BY <2>1 DEF Outcome, HandGoesOn, EndsHand, Settled, SameHand, SameBets, NewBets, Dealt
  <2>3. spoke' = {}
    BY <1>1, <2>1, <2>2 DEF Remember, Dealt, TableState
  <2>. QED
    BY <1>4, <2>1, <2>2, <2>3 DEF SpokeKept
<1>6. ASSUME NEW s \in Seats, NEW m \in TableState, Plays(s, m)
      PROVE  SpokeKept'
  <2>1. /\ Outcome(m, table') /\ SameTable(table, m) /\ Acts(table, m, s)
        /\ Remember(table') /\ HandActive(table) /\ s = table.acting
    BY <1>6 DEF Plays, Acts
  <2>2. CASE table'.street # table.street
    <3>1. spoke' = {}
      BY <2>1, <2>2 DEF Remember
    <3>2. table'.acted = Nobody /\ table'.actedAtBet = Zeros /\ table'.currentBet = 0
      BY <2>1, <2>2 DEF Outcome, HandGoesOn, EndsHand, Settled, SameBets, NewBets, SameTable
    <3>. QED
      BY <1>4, <3>1, <3>2 DEF SpokeKept
  <2>3. CASE table'.street = table.street
    <3>1. HandGoesOn(m, table') /\ SameBets(m, table')
      BY <2>1, <2>3 DEF Outcome, EndsHand, Settled, HandActive, BettingStreets,
                        HandGoesOn, NewBets, SameTable
    <3>2. table'.handID = table.handID /\ spoke' = spoke \cup {s}
      BY <2>1, <2>3, <3>1 DEF HandGoesOn, SameHand, SameTable, Remember
    <3>3. Actionable(table') = Actionable(m)
      BY <3>1, SameMust DEF HandGoesOn, SameHand
    <3>4. \A o \in Seats : /\ table.actedAtBet[o] \in Nat /\ m.actedAtBet[o] \in Nat
                           /\ table.actedAtBet[o] <= table.currentBet
      BY <1>1 DEF SpokeKept, TableState
    <3>5. table.currentBet \in Nat /\ m.currentBet \in Nat /\ table.minRaise \in Nat /\ m.minRaise \in Nat
      BY <1>1 DEF TableState
    <3>6. \A o \in Seats : m.actedAtBet[o] <= m.currentBet
      <4>1. ASSUME NEW o \in Seats  PROVE m.actedAtBet[o] <= m.currentBet
        <5>1. CASE o = s
          BY <2>1, <3>5, <5>1 DEF Acts
        <5>2. CASE o # s
          BY <2>1, <3>4, <3>5, <5>2 DEF Acts
        <5>. QED
          BY <5>1, <5>2
      <4>. QED
        BY <4>1
    <3>7. \A o \in Seats : m.acted[o] => o \in spoke'
      BY <2>1, <3>2 DEF Acts, SpokeKept
    <3>8. ASSUME NEW o \in spoke' \cap Actionable(m)
          PROVE  m.acted[o] \/ m.currentBet - m.actedAtBet[o] >= m.minRaise
      <4>1. CASE o = s
        BY <2>1, <4>1 DEF Acts
      <4>2. CASE o # s
        <5>1. o \in Seats \ {s} /\ o \in spoke \cap Actionable(table)
          BY <2>1, <3>2, <4>2 DEF Acts, SameTable, Actionable, Contesting
        <5>2. table.acted[o] \/ table.currentBet - table.actedAtBet[o] >= table.minRaise
          BY <5>1 DEF SpokeKept
        <5>3. CASE m.minRaise = m.currentBet - table.currentBet
          BY <2>1, <3>4, <3>5, <5>1, <5>3 DEF Acts
        <5>4. CASE m.minRaise = table.minRaise /\ m.acted[o] = table.acted[o]
          <6>1. m.currentBet >= table.currentBet /\ m.actedAtBet[o] = table.actedAtBet[o]
            BY <2>1, <5>1 DEF Acts
          <6>. QED
            BY <3>4, <3>5, <5>1, <5>2, <5>4, <6>1
        <5>. QED
          BY <2>1, <5>1, <5>3, <5>4 DEF Acts
      <4>. QED
        BY <4>1, <4>2
    <3>. QED
      BY <3>1, <3>3, <3>6, <3>7, <3>8 DEF SpokeKept, SameBets
  <2>. QED
    BY <2>2, <2>3
<1>7. CASE UNCHANGED vars
  BY <1>7 DEF vars, SpokeKept, Actionable, Contesting
<1>. QED
  BY <1>2, <1>3, <1>5, <1>6, <1>7, StepKinds

\* A player without chips, or not in the hand, who still holds cards of an old hand
\* has shown them.
ShownKept ==
  /\ HoleCardsPrivate
  /\ \A s \in Seats :
       table.hole[s] /\ ~table.inHand[s] /\ (HandActive(table) \/ table.stack[s] = 0)
         => s \in shown

\* Every step keeps account of whose hole cards were shown.
LEMMA ShownIsKept ==
  ASSUME IInv, Books(table), Level(table), ShownKept, [Next]_vars
  PROVE  ShownKept'
<1>1. table \in TableState
  BY DEF IInv, TypeOK
<1>2. ASSUME NEW s \in Seats, NEW u \in Users, NEW b \in BuyIns, Sits(s, u, b)
      PROVE  ShownKept'
  <2>1. /\ SamePlay(table, table') /\ shown' = shown /\ table.user[s] = NoUser
        /\ table'.stack = [table.stack EXCEPT ![s] = b]
        /\ table'.hole = table.hole /\ table'.folded = table.folded
    BY <1>2 DEF Sits
  <2>2. ~table.hole[s] /\ \A o \in Seats \ {s} : table'.stack[o] = table.stack[o]
    BY <1>1, <2>1 DEF Books, TableState
  <2>. QED
    BY <2>1, <2>2 DEF ShownKept, HoleCardsPrivate, Exposed, SamePlay, HandActive
<1>3. ASSUME NEW s \in Seats, Rises(s)
      PROVE  ShownKept'
  <2>1. /\ SamePlay(table, table') /\ shown' = shown \ {s}
        /\ ~table'.hole[s]
        /\ \A o \in Seats \ {s} : /\ table'.stack[o] = table.stack[o]
                                  /\ table'.hole[o] = table.hole[o]
                                  /\ table'.folded[o] = table.folded[o]
    BY <1>1, <1>3 DEF Rises, TableState
  <2>. QED
    BY <2>1 DEF ShownKept, HoleCardsPrivate, Exposed, SamePlay, HandActive
<1>4. CASE Marks
  BY <1>4 DEF ShownKept, HoleCardsPrivate, Exposed, Marks, SamePlay, HandActive
<1>5. ASSUME NEW m \in TableState, Outcome(m, table'), Books(m), HandActive(m),
             m.turnID = table.turnID,
             NEW S, \A s \in Seats : m.hole[s] /\ ~m.inHand[s] => s \in S,
             shown' = S \cup (IF table'.lastResult.showdown /\ table'.turnID # table.turnID
                         THEN {s \in table'.lastResult.players : ~table'.lastResult.folded[s]}
                         ELSE {})
      PROVE  ShownKept'
  <2>1. CASE HandGoesOn(m, table')
    BY <1>5, <2>1 DEF HandGoesOn, SameHand, Books, ShownKept, HoleCardsPrivate, Exposed
  <2>2. CASE EndsHand(m, table')
    <3>1. Settled(m, table') /\ table' \in TableState
      BY <2>2 DEF EndsHand
    <3>2. table'.turnID # table.turnID
      BY <1>1, <1>5, <3>1 DEF Settled, TableState
    <3>3. table'.lastResult.showdown =>
            \A s \in Seats : m.inHand[s] /\ ~m.folded[s] => s \in shown'
      BY <1>5, <3>1, <3>2 DEF Settled
    <3>4. HoleCardsPrivate'
      BY <1>5, <3>1, <3>3 DEF HoleCardsPrivate, Exposed, Settled
    <3>5. ASSUME NEW s \in Seats, m.inHand[s], table'.stack[s] = 0
          PROVE  s \in shown'
      <4>1. /\ m.stack[s] \in Nat /\ m.committed[s] \in Nat
            /\ table'.stack[s] >= m.stack[s]
            /\ Refund(m.committed)[s] \in Nat /\ table'.lastResult.payout[s] \in Nat
        BY <2>2, HandEndsChips, HandEndsFairly, StakedType DEF TableState
      <4>2. ~m.folded[s] /\ m.stack[s] + m.committed[s] > 0
        BY <1>5, <3>5, <4>1 DEF Books
      <4>3. s \in Contesting(m)
        BY <3>5, <4>2 DEF Contesting
      <4>4. CASE table'.lastResult.showdown
        BY <3>3, <3>5, <4>2, <4>4
      <4>5. CASE ~table'.lastResult.showdown
        <5>1. table'.lastResult.payout[s] + Refund(m.committed)[s] >= m.committed[s]
          BY <2>2, <4>3, <4>5, HandEndsFairly
        <5>2. table'.stack[s] = m.stack[s] + Refund(m.committed)[s] + table'.lastResult.payout[s]
          BY <3>1 DEF Settled
        <5>. QED
          BY <3>5, <4>1, <4>2, <5>1, <5>2, SMTT(60)
      <4>. QED
        BY <4>4, <4>5
    <3>6. ~HandActive(table') /\ table'.hole = m.hole
      BY <3>1 DEF Settled, HandActive, BettingStreets
    <3>. QED
      BY <1>5, <3>4, <3>5, <3>6 DEF ShownKept
  <2>. QED
    BY <1>5, <2>1, <2>2 DEF Outcome
<1>6. ASSUME NEW t \in TableState, NEW u, Outcome(t, u)
      PROVE  u.handID = t.handID
  BY <1>6 DEF Outcome, HandGoesOn, EndsHand, Settled, SameHand
<1>7. ASSUME NEW p \in TableState, Deals(p)
      PROVE  ShownKept'
  <2>1. Outcome(p, table') /\ Dealt(table, p) /\ Remember(table') /\ ~HandActive(table)
    BY <1>7 DEF Deals
  <2>2. HandActive(p) /\ p.turnID = table.turnID /\ table'.handID # table.handID
    <3>1. table'.handID = table.handID + 1 /\ table.handID \in Nat
      BY <1>1, <1>6, <2>1 DEF Dealt, TableState
    <3>2. table'.handID # table.handID
      BY <3>1
    <3>. QED
      BY <2>1, <3>2 DEF Dealt, HandActive, BettingStreets
  <2>3. Books(p)
    <3>1. BetsBounded(table)
      BY DEF IInv, Sound
    <3>. QED
      BY <1>1, <2>1, <3>1, DealtBooks
  <2>. DEFINE S == shown \ Playable(table)
  <2>4. ASSUME NEW s \in Seats, p.hole[s], ~p.inHand[s]  PROVE s \in S
    <3>1. s \notin Playable(table) /\ table.hole[s] /\ ~table.inHand[s]
      <4>1. /\ p.hole[s] = (table.hole[s] \/ s \in Playable(table))
            /\ p.inHand[s] = (table.inHand[s] \/ s \in Playable(table))
        BY <2>1 DEF Dealt
      <4>. QED
        BY <2>4, <4>1, Zenon
    <3>2. table.stack[s] = 0
      BY <1>1, <3>1 DEF Playable, TableState
    <3>. QED
      BY <3>1, <3>2 DEF ShownKept
  <2>5. shown' = S \cup (IF table'.lastResult.showdown /\ table'.turnID # table.turnID
                         THEN {s \in table'.lastResult.players : ~table'.lastResult.folded[s]}
                         ELSE {})
    BY <2>1, <2>2 DEF Remember
  <2>. HIDE DEF S
  <2>. QED
    BY <1>5, <2>1, <2>2, <2>3, <2>4, <2>5
<1>8. ASSUME NEW s \in Seats, NEW m \in TableState, Plays(s, m)
      PROVE  ShownKept'
  <2>1. /\ Outcome(m, table') /\ SameTable(table, m) /\ Acts(table, m, s)
        /\ Remember(table') /\ HandActive(table) /\ s = table.acting
    BY <1>8 DEF Plays, Acts
  <2>2. HandActive(m) /\ m.turnID = table.turnID /\ table'.handID = table.handID
    BY <1>6, <2>1 DEF SameTable, HandActive
  <2>3. Books(m)
    <3>1. Sound(table)
      BY DEF IInv
    <3>. QED
      BY <1>1, <2>1, <3>1, ActsBooks
  <2>4. \A o \in Seats : m.hole[o] /\ ~m.inHand[o] => o \in shown
    BY <2>1 DEF SameTable, ShownKept
  <2>5. shown' = shown \cup (IF table'.lastResult.showdown /\ table'.turnID # table.turnID
                         THEN {o \in table'.lastResult.players : ~table'.lastResult.folded[o]}
                         ELSE {})
    BY <2>1, <2>2 DEF Remember
  <2>. QED
    BY <1>5, <2>1, <2>2, <2>3, <2>4, <2>5
<1>9. CASE UNCHANGED vars
  BY <1>9 DEF vars, ShownKept, HoleCardsPrivate, Exposed, HandActive
<1>. QED
  BY <1>2, <1>3, <1>4, <1>7, <1>8, <1>9, StepKinds

\* A recorded showdown paid fairly.
LEMMA ResultKept ==
  ASSUME IInv, ShowdownPaysMatchedOnly, ShowdownPaysAllMatched, [Next]_vars
  PROVE  (ShowdownPaysMatchedOnly /\ ShowdownPaysAllMatched)'
<1>1. ASSUME NEW m \in TableState, Outcome(m, table'),
             m.lastResult = table.lastResult \/ m.lastResult = NoResult
      PROVE  (ShowdownPaysMatchedOnly /\ ShowdownPaysAllMatched)'
  <2>1. CASE HandGoesOn(m, table')
    <3>1. table'.lastResult = table.lastResult \/ table'.lastResult = NoResult
      BY <1>1, <2>1 DEF HandGoesOn, SameHand
    <3>2. ~NoResult.showdown
      BY DEF NoResult
    <3>. QED
      BY <3>1, <3>2 DEF ShowdownPaysMatchedOnly, ShowdownPaysAllMatched
  <2>2. CASE EndsHand(m, table')
    BY <2>2, HandEndsFair DEF ShowdownPaysMatchedOnly, ShowdownPaysAllMatched,
                              PaysMatchedOnly, PaysAllMatched
  <2>. QED
    BY <1>1, <2>1, <2>2 DEF Outcome
<1>2. CASE table'.lastResult = table.lastResult
  BY <1>2 DEF ShowdownPaysMatchedOnly, ShowdownPaysAllMatched
<1>3. CASE \E p \in TableState : Deals(p)
  BY <1>1, <1>3 DEF Deals, Dealt
<1>4. CASE \E s \in Seats, m \in TableState : Plays(s, m)
  BY <1>1, <1>4 DEF Plays, Acts, SameTable
<1>. QED
  BY <1>2, <1>3, <1>4, StepKinds DEF Sits, Rises, Marks, SamePlay, vars

-----------------------------------------------------------------------------
(* The invariant of the game *)

GInv ==
  /\ IInv
  /\ Books(table) /\ Level(table) /\ ChipsNeverCreated
  /\ DealtKept /\ SpokeKept /\ ShownKept
  /\ ShowdownPaysMatchedOnly /\ ShowdownPaysAllMatched

\* A table just made has its books in order, and no chips.
LEMMA NewTableBooks ==
  Books(NewTable) /\ Level(NewTable) /\ Chips(NewTable) = 0
<1>1. /\ \A s \in Seats : NewTable.committed[s] = 0 /\ NewTable.stack[s] = 0
      /\ \A s \in Seats : ~NewTable.inHand[s] /\ ~NewTable.hole[s]
      /\ ~HandActive(NewTable)
  BY DEF NewTable, Zeros, Nobody, HandActive, BettingStreets
<1>2. [s \in Seats |-> NewTable.stack[s] + NewTable.committed[s]] = [s \in Seats |-> 0]
  BY <1>1
<1>3. SeatSum([s \in Seats |-> 0]) = 0
  BY DEF SeatSum
<1>. QED
  BY <1>1, <1>2, <1>3 DEF Books, Level, Chips

\* An empty table satisfies the invariant.
LEMMA InitGInv == Init => GInv
<1>. SUFFICES ASSUME Init PROVE GInv
  OBVIOUS
<1>1. IInv
  BY InitIInv
<1>2. table = NewTable /\ supply = 0 /\ spoke = {}
  BY DEF Init
<1>3. /\ \A s \in Seats : table.actedAtBet[s] = 0
      /\ \A s \in Seats : ~table.inHand[s] /\ ~table.hole[s] /\ ~table.acted[s]
      /\ ~HandActive(table) /\ table.currentBet = 0
      /\ ~table.lastResult.showdown /\ table.lastResult.players = {}
  BY <1>2 DEF NewTable, Zeros, Nobody, HandActive, BettingStreets, NoResult
<1>4. DealtKept /\ SpokeKept /\ ShownKept
  BY <1>2, <1>3 DEF DealtKept, ResultStartsFromDeal, SpokeKept, ShownKept,
                    HoleCardsPrivate, Exposed
<1>5. ShowdownPaysMatchedOnly /\ ShowdownPaysAllMatched
  BY <1>3 DEF ShowdownPaysMatchedOnly, ShowdownPaysAllMatched
<1>. QED
  BY <1>1, <1>2, <1>4, <1>5, NewTableBooks DEF GInv, ChipsNeverCreated

\* Every step keeps the invariant.
LEMMA NextGInv == GInv /\ [Next]_vars => GInv'
<1>. SUFFICES ASSUME GInv, [Next]_vars PROVE GInv'
  OBVIOUS
<1>1. /\ IInv /\ Books(table) /\ Level(table) /\ Chips(table) <= supply
      /\ DealtKept /\ SpokeKept /\ ShownKept
      /\ ShowdownPaysMatchedOnly /\ ShowdownPaysAllMatched
  BY DEF GInv, ChipsNeverCreated
<1>2. IInv'
  BY <1>1, NextIInv
<1>3. Books(table') /\ Level(table') /\ Chips(table') <= supply'
  BY <1>1, BooksKept
<1>4. DealtKept' /\ SpokeKept' /\ ShownKept'
  BY <1>1, DealtIsKept, SpokeIsKept, ShownIsKept
<1>5. (ShowdownPaysMatchedOnly /\ ShowdownPaysAllMatched)'
  BY <1>1, ResultKept
<1>6. Books(table)' /\ Level(table)' /\ ChipsNeverCreated'
  BY <1>3 DEF Books, Level, ChipsNeverCreated, Chips, HandActive, Actionable, Contesting
<1>. QED
  BY <1>2, <1>4, <1>5, <1>6 DEF GInv

\* The invariant always holds.
LEMMA GameInvariant == Spec => []GInv
BY InitGInv, NextGInv, PTL DEF Spec

-----------------------------------------------------------------------------
(* Theorems *)

\* No bet, refund or award of table.go makes chips: stacks and pot never hold more
\* than was brought to the table.
THEOREM NoChipsCreated == Spec => []ChipsNeverCreated
<1>1. GInv => ChipsNeverCreated
  BY DEF GInv
<1>. QED
  BY <1>1, GameInvariant, PTL

\* No step of the table makes or loses chips but one: a showdown of a hand dealt
\* to four players at least, where everybody who put in the most has folded, and so
\* the top layer of the pot has no winner. So a hand dealt to two or three keeps
\* every chip, at a table of any size.
THEOREM ChipsAreLostOnlyAboveTheLive == Spec => ChipsLostOnlyAboveTheLive
<1>1. GInv /\ [Next]_vars =>
        [LET r == table'.lastResult
         IN  Chips(table') - supply' # Chips(table) - supply =>
               /\ r.showdown /\ Cardinality(r.players) >= 4
               /\ \A s \in r.players : ~r.folded[s] =>
                    \E o \in r.players : r.folded[o] /\ r.committed[o] > r.committed[s]]_vars
  BY BooksKept DEF GInv, ChipsNeverCreated, AboveTheLive
<1>. QED
  BY <1>1, GameInvariant, PTL DEF Spec, ChipsLostOnlyAboveTheLive

\* advanceStreetLocked opens a street only when bets are matched: whoever can still
\* act put in as much on the earlier streets as anybody.
THEOREM StreetsAreClosedMatched == Spec => []StreetsClosedMatched
<1>1. GInv => StreetsClosedMatched
  BY DEF GInv, Level, StreetsClosedMatched
<1>. QED
  BY <1>1, GameInvariant, PTL

\* The starting stacks that handResultLocked computes backwards from the stacks
\* after the payout are those the hand was dealt with.
THEOREM ResultsStartFromDeal == Spec => []ResultStartsFromDeal
<1>1. GInv => ResultStartsFromDeal
  BY DEF GInv, DealtKept
<1>. QED
  BY <1>1, GameInvariant, PTL

\* At a showdown nobody is paid more than each opponent matched of his own chips,
\* and nothing if he folded.
THEOREM ShowdownsPayMatchedOnly == Spec => []ShowdownPaysMatchedOnly
<1>1. GInv => ShowdownPaysMatchedOnly
  BY DEF GInv
<1>. QED
  BY <1>1, GameInvariant, PTL

\* At a showdown every chip is paid out that a player who did not fold has matched,
\* odd chips and those of folded players included.
THEOREM ShowdownsPayAllMatched == Spec => []ShowdownPaysAllMatched
<1>1. GInv => ShowdownPaysAllMatched
  BY DEF GInv
<1>. QED
  BY <1>1, GameInvariant, PTL

\* The views of the table expose hole cards only of players who were compared at a
\* showdown, or showed them so before.
THEOREM HoleCardsStayPrivate == Spec => []HoleCardsPrivate
<1>1. GInv => HoleCardsPrivate
  BY DEF GInv, ShownKept
<1>. QED
  BY <1>1, GameInvariant, PTL

\* A step that deals or plays gives the turn a later number.
LEMMA TurnsOnlyGrow ==
  ASSUME NEW t, NEW u, Outcome(t, u)
  PROVE  u.turnID > t.turnID /\ ~u.expired /\ u.user = t.user
BY DEF Outcome, HandGoesOn, EndsHand, Settled, SameHand

\* A turn number names one decision, so that a timer or a client that quotes it
\* cannot act on a later one.
THEOREM TurnsNameDecisions == Spec => TurnNamesDecision
<1>. DEFINE A ==
       table'.turnID = table.turnID =>
         /\ <<table'.street, table'.acting, table'.handID, table'.currentBet>>
              = <<table.street, table.acting, table.handID, table.currentBet>>
         /\ HandActive(table) =>
              <<table'.committed, table'.folded, table'.acted>>
                = <<table.committed, table.folded, table.acted>>
<1>1. GInv /\ [Next]_vars => [A]_vars
  <2>. SUFFICES ASSUME GInv, [Next]_vars, table'.turnID = table.turnID, ~UNCHANGED vars
                PROVE  A
    OBVIOUS
  <2>1. IInv /\ Books(table) /\ Level(table) /\ table.turnID \in Nat
    BY DEF GInv, IInv, TypeOK, TableState
  <2>2. ASSUME NEW m, Outcome(m, table'), m.turnID = table.turnID  PROVE FALSE
    BY <2>1, <2>2, TurnsOnlyGrow
  <2>3. ~ \/ \E p \in TableState : Deals(p)
          \/ \E s \in Seats, m \in TableState : Plays(s, m)
    BY <2>1, <2>2, Through
  <2>4. SamePlay(table, table') /\ (HandActive(table) => table'.folded = table.folded)
    BY <2>1, <2>3, StepKinds DEF Sits, Rises, Marks
  <2>. QED
    BY <2>4 DEF SamePlay
<1>. QED
  BY <1>1, GameInvariant, PTL DEF Spec, TurnNamesDecision

\* A street is closed, or the hands are compared, only after everybody who could
\* still act on it has been asked.
THEOREM NobodyIsSkipped == Spec => NobodySkipped
<1>. DEFINE A ==
       HandActive(table) /\ table'.street # table.street
         /\ (HandActive(table') \/ table'.lastResult.showdown)
       => Actionable(table) \ {table.acting} \subseteq spoke
<1>1. GInv /\ [Next]_vars => [A]_vars
  <2>. SUFFICES ASSUME GInv, [Next]_vars, HandActive(table), table'.street # table.street,
                       HandActive(table') \/ table'.lastResult.showdown,
                       NEW o \in Actionable(table) \ {table.acting}
                PROVE  o \in spoke
    OBVIOUS
  <2>1. IInv /\ SpokeKept
    BY DEF GInv
  <2>2. ~ ((\E s \in Seats, u \in Users, b \in BuyIns : Sits(s, u, b))
           \/ (\E s \in Seats : Rises(s)) \/ Marks
           \/ (\E p \in TableState : Deals(p)) \/ UNCHANGED vars)
    BY DEF Sits, Rises, Marks, SamePlay, Deals, vars
  <2>3. PICK s \in Seats, m \in TableState : Plays(s, m)
    BY <2>1, <2>2, StepKinds
  <2>4. /\ SameTable(table, m) /\ Acts(table, m, s) /\ s = table.acting
        /\ Outcome(m, table')
    BY <2>3 DEF Plays, Acts
  <2>5. NeedsAction(m) = {}
    BY <2>4 DEF Outcome, HandGoesOn, EndsHand, Settled, SameBets, NewBets, SameTable,
                HandActive, BettingStreets
  <2>6. o \in Actionable(m) /\ o \in Seats \ {s}
    BY <2>4 DEF Acts, SameTable, Actionable, Contesting
  <2>7. m.acted[o]
    BY <2>5, <2>6 DEF NeedsAction
  <2>. QED
    BY <2>1, <2>4, <2>6, <2>7 DEF Acts, SpokeKept
<1>. QED
  BY <1>1, GameInvariant, PTL DEF Spec, NobodySkipped

\* A player who has acted on a street raises again only after a full raise on top
\* of the bet he acted at.
THEOREM RaisesOnlyWhenReopened == Spec => RaiseOnlyWhenReopened
<1>. DEFINE A ==
       \A s \in spoke :
         /\ s = table.acting /\ table'.handID = table.handID
         /\ table'.stack[s] < table.stack[s]
         /\ table.bet[s] + table.stack[s] - table'.stack[s] > table.currentBet
         => table.currentBet - table.actedAtBet[s] >= table.minRaise
<1>1. GInv /\ [Next]_vars => [A]_vars
  <2>. SUFFICES ASSUME GInv, [Next]_vars, NEW s \in spoke, s = table.acting,
                       table'.handID = table.handID,
                       table'.stack[s] < table.stack[s],
                       table.bet[s] + table.stack[s] - table'.stack[s] > table.currentBet
                PROVE  table.currentBet - table.actedAtBet[s] >= table.minRaise
    OBVIOUS
  <2>1. /\ IInv /\ SpokeKept /\ Books(table) /\ Sound(table) /\ table \in TableState
        /\ s \in Seats /\ table.stack \in [Seats -> Nat] /\ table.handID \in Nat
        /\ table.bet[s] \in Nat /\ table.currentBet \in Nat
    BY DEF GInv, IInv, TypeOK, TableState
  <2>2. s \in NeedsAction(table) /\ HandActive(table)
    BY <2>1 DEF Sound, TurnPlayable, Seats, NoSeat
  <2>3. ~ \E o \in Seats, u \in Users, b \in BuyIns : Sits(o, u, b)
    <3>. SUFFICES ASSUME NEW o \in Seats, NEW u \in Users, NEW b \in BuyIns, Sits(o, u, b)
                  PROVE  FALSE
      OBVIOUS
    <3>1. table'.stack = [table.stack EXCEPT ![o] = b] /\ table.user[o] = NoUser /\ b \in Nat
      BY HoldemAssumption DEF Sits
    <3>2. s # o
      BY <2>1, <2>2, <3>1 DEF Books, NeedsAction, Actionable, Contesting
    <3>. QED
      BY <2>1, <3>1, <3>2
  <2>4. ~ ((\E o \in Seats : Rises(o)) \/ Marks \/ UNCHANGED vars)
    BY <2>1, <2>2 DEF Rises, Marks, vars
  <2>5. ~ \E p \in TableState : Deals(p)
    BY <2>2 DEF Deals
  <2>6. PICK m \in TableState : Plays(s, m)
    BY <2>1, <2>3, <2>4, <2>5, StepKinds DEF Plays
  <2>7. Acts(table, m, s) /\ Outcome(m, table') /\ m.stack[s] \in Nat
    BY <2>1, <2>6 DEF Plays, TableState
  <2>8. table'.stack[s] \in Nat /\ table'.stack[s] >= m.stack[s]
    <3>1. table' \in TableState
      BY <2>7 DEF Outcome, HandGoesOn, EndsHand, SameHand
    <3>2. table'.stack[s] \in Nat
      BY <2>1, <3>1 DEF TableState
    <3>3. CASE HandGoesOn(m, table')
      BY <3>2, <3>3 DEF HandGoesOn, SameHand
    <3>4. CASE EndsHand(m, table')
      BY <2>1, <3>2, <3>4, HandEndsChips
    <3>. QED
      BY <2>7, <3>3, <3>4 DEF Outcome
  <2>9. table.bet[s] + table.stack[s] - m.stack[s] > table.currentBet
    BY <2>1, <2>7, <2>8
  <2>10. CASE table.acted[s]
    BY <2>7, <2>9, <2>10 DEF Acts
  <2>11. CASE ~table.acted[s]
    BY <2>1, <2>2, <2>11 DEF SpokeKept, NeedsAction
  <2>. QED
    BY <2>10, <2>11
<1>. QED
  BY <1>1, GameInvariant, PTL DEF Spec, RaiseOnlyWhenReopened

-----------------------------------------------------------------------------
(* The table is a card game *)

InHand(t) == {s \in Seats : t.inHand[s]}

\* Being the same ring of seats, the card game counts chips as the table does.
LEMMA GameSeats ==
  /\ Game!Seats = Seats
  /\ \A f : Game!SeatSum(f) = SeatSum(f)
BY DEF Game!Seats, Seats, Game!SeatSum, SeatSum

\* An empty table is a card game with nobody at it.
LEMMA InitGame == Init => Game!GameInit
<1>. SUFFICES ASSUME Init PROVE Game!GameInit
  OBVIOUS
<1>1. /\ table.user = [s \in Seats |-> NoUser] /\ table.stack = Zeros
      /\ table.committed = Zeros /\ table.inHand = Nobody
      /\ table.turnID = 0 /\ table.expired = FALSE
  BY DEF Init, NewTable
<1>2. [s \in Seats |-> table.stack[s] + table.committed[s]] = [s \in Seats |-> 0]
  BY <1>1 DEF Zeros
<1>3. {s \in Seats : table.inHand[s]} = {}
  BY <1>1 DEF Nobody
<1>. QED
  BY <1>1, <1>2, <1>3, GameSeats DEF Game!GameInit

\* Steps that give no turn are those of people and the clock.
LEMMA SitsGame ==
  ASSUME GInv, NEW s \in Seats, NEW u \in Users, NEW b \in BuyIns, Sits(s, u, b)
  PROVE  Game!SitDown(s, u)
<1>1. /\ table.stack \in [Seats -> Nat] /\ table.committed \in [Seats -> Nat]
      /\ Books(table)
  BY DEF GInv, IInv, TypeOK, TableState
<1>2. /\ table'.stack = [table.stack EXCEPT ![s] = b] /\ table'.committed = table.committed
      /\ table.user[s] = NoUser /\ b \in Nat /\ b > 0
      /\ table'.inHand = table.inHand /\ table'.turnID = table.turnID
      /\ table'.expired = table.expired
      /\ table'.user = [table.user EXCEPT ![s] = u] /\ \A o \in Seats : table.user[o] # u
  BY HoldemAssumption DEF Sits, SamePlay
<1>. DEFINE chips == [o \in Seats |-> table.stack[o] + table.committed[o]]
            next == [o \in Seats |-> table'.stack[o] + table'.committed[o]]
<1>3. next[s] > 0 /\ \A o \in Seats \ {s} : next[o] = chips[o]
  BY <1>1, <1>2
<1>4. next = [chips EXCEPT ![s] = next[s]]
  BY <1>3
<1>. QED
  BY <1>2, <1>3, <1>4, GameSeats DEF Game!SitDown

\* So is getting up.
LEMMA RisesGame ==
  ASSUME GInv, NEW s \in Seats, Rises(s)
  PROVE  Game!StandUp(s)
<1>1. /\ table.stack \in [Seats -> Nat] /\ table.committed \in [Seats -> Nat]
      /\ Books(table)
  BY DEF GInv, IInv, TypeOK, TableState
<1>2. /\ table'.stack = [table.stack EXCEPT ![s] = 0] /\ table'.committed = table.committed
      /\ table'.inHand = table.inHand /\ table'.turnID = table.turnID
      /\ table'.expired = table.expired /\ ~HandActive(table)
      /\ table'.user = [table.user EXCEPT ![s] = NoUser] /\ table.user[s] # NoUser
  BY DEF Rises, SamePlay
<1>. DEFINE chips == [o \in Seats |-> table.stack[o] + table.committed[o]]
            next == [o \in Seats |-> table'.stack[o] + table'.committed[o]]
<1>3. \A o \in Seats : ~table.inHand[o] /\ table.committed[o] = 0
  BY <1>1, <1>2 DEF Books
<1>4. next = [chips EXCEPT ![s] = 0]
  BY <1>1, <1>2, <1>3
<1>5. {o \in Seats : table.inHand[o]} = {}
  BY <1>3
<1>. QED
  BY <1>2, <1>4, <1>5, GameSeats DEF Game!StandUp

\* Only the deadline is of interest to the card game.
LEMMA MarksGame ==
  ASSUME GInv, Marks
  PROVE  Game!Expire \/ UNCHANGED Game!gameVars
<1>1. /\ table'.user = table.user /\ table'.stack = table.stack
      /\ table'.committed = table.committed /\ table'.inHand = table.inHand
      /\ table'.turnID = table.turnID
      /\ \/ table'.expired = table.expired
         \/ HandActive(table) /\ table.expired = FALSE /\ table'.expired = TRUE
  BY DEF Marks, SamePlay
<1>2. HandActive(table) => {s \in Seats : table.inHand[s]} # {}
  <2>1. Sound(table)
    BY DEF GInv, IInv
  <2>. QED
    BY <2>1 DEF Sound, TurnPlayable, NeedsAction, Actionable, Contesting
<1>3. CASE table'.expired = table.expired
  BY <1>1, <1>3 DEF Game!gameVars
<1>4. CASE HandActive(table) /\ table.expired = FALSE /\ table'.expired = TRUE
  BY <1>1, <1>2, <1>4, GameSeats DEF Game!Expire
<1>. QED
  BY <1>1, <1>3, <1>4

\* A hand that ends settles among its players.
LEMMA EndSettles ==
  ASSUME GInv, NEW m \in TableState, Books(m), EndsHand(m, table'),
         ChipsOf(m) = ChipsOf(table), m.user = table.user,
         NEW P \in SUBSET Seats, P = {s \in Seats : m.inHand[s]}
  PROVE  Game!Settle(P)
<1>1. Settled(m, table') /\ table' \in TableState
  BY DEF EndsHand
<1>2. {s \in Seats : table'.inHand[s]} = {}
  BY <1>1 DEF Settled, Nobody
<1>3. /\ SeatSum(ChipsOf(table')) <= SeatSum(ChipsOf(table))
      /\ \A s \in Seats : ~m.inHand[s] => ChipsOf(table')[s] = ChipsOf(m)[s]
  <2>1. ASSUME NEW s \in Seats, ~m.inHand[s]
        PROVE  ChipsOf(table')[s] = ChipsOf(m)[s]
    <3>1. m.committed[s] = 0 /\ table'.committed[s] = 0
      BY <1>1, <2>1 DEF Books, Settled, Zeros
    <3>2. table'.stack[s] = m.stack[s]
      BY <2>1, <3>1, HandEndsChips
    <3>. QED
      BY <3>1, <3>2 DEF ChipsOf
  <2>. QED
    BY <2>1, HandEndsChips
<1>4. \A s \in Seats : ChipsOf(table')[s] >= 0
  BY <1>1 DEF ChipsOf, TableState
<1>5. table'.user = table.user
  BY <1>1 DEF Settled
<1>. QED
  BY <1>2, <1>3, <1>4, <1>5, GameSeats DEF Game!Settle, ChipsOf

\* Dealing starts a hand, which may be over at once.
LEMMA DealsGame ==
  ASSUME GInv, NEW p \in TableState, Deals(p)
  PROVE  Game!Deal \/ Game!DealAndFinish
<1>. DEFINE P == {s \in Seats : p.inHand[s]}
<1>1. /\ table \in TableState /\ BetsBounded(table) /\ Books(table) /\ table.turnID \in Nat
  BY DEF GInv, IInv, TypeOK, Sound, TableState
<1>2. /\ Dealt(table, p) /\ Outcome(p, table') /\ ~HandActive(table)
      /\ \E a, b \in Playable(table) : a # b
  BY DEF Deals
<1>3. Books(p) /\ ChipsOf(p) = ChipsOf(table) /\ p.user = table.user /\ p.turnID = table.turnID
  BY <1>1, <1>2, DealtBooks DEF Dealt
<1>4. /\ {s \in Seats : table.inHand[s]} = {}
      /\ \A s \in P : ChipsOf(table)[s] > 0
      /\ \E a, b \in P : a # b
  <2>1. P = Playable(table)
    BY <1>1, <1>2 DEF Dealt, Books, Playable
  <2>2. \A s \in Playable(table) : ChipsOf(table)[s] > 0
    BY <1>1 DEF Playable, ChipsOf, TableState
  <2>. QED
    BY <1>1, <1>2, <2>1, <2>2 DEF Books
<1>5. table'.turnID > table.turnID /\ table'.expired = FALSE /\ table'.user = table.user
  <2>1. table' \in TableState
    BY <1>2 DEF Outcome, HandGoesOn, EndsHand, SameHand
  <2>2. table'.expired \in BOOLEAN
    BY <2>1 DEF TableState
  <2>. QED
    BY <1>2, <1>3, <2>2, TurnsOnlyGrow
<1>6. P \in SUBSET Seats
  OBVIOUS
<1>7. CASE HandGoesOn(p, table')
  <2>1. {s \in Seats : table'.inHand[s]} = P /\ ChipsOf(table') = ChipsOf(table)
    BY <1>3, <1>7 DEF HandGoesOn, SameHand, ChipsOf
  <2>. HIDE DEF P
  <2>2. Game!DealTo({s \in Seats : table'.inHand[s]})
    BY <1>4, <1>5, <2>1, GameSeats DEF Game!DealTo, ChipsOf
  <2>. QED
    BY <1>5, <2>1, <2>2, GameSeats DEF Game!Deal, ChipsOf
<1>8. CASE EndsHand(p, table')
  <2>1. Game!Settle(P)
    BY <1>3, <1>8, EndSettles
  <2>. HIDE DEF P
  <2>2. Game!DealTo(P)
    BY <1>4, <1>5, GameSeats DEF Game!DealTo, ChipsOf
  <2>. QED
    BY <1>6, <2>1, <2>2, GameSeats DEF Game!DealAndFinish
<1>. QED
  BY <1>2, <1>7, <1>8 DEF Outcome

\* Playing moves the hand on or finishes it.
LEMMA PlaysGame ==
  ASSUME GInv, NEW s \in Seats, NEW m \in TableState, Plays(s, m)
  PROVE  Game!Move \/ Game!Finish
<1>1. /\ table \in TableState /\ Sound(table) /\ Books(table) /\ Level(table)
      /\ table.turnID \in Nat
  BY DEF GInv, IInv, TypeOK, TableState
<1>2. /\ Acts(table, m, s) /\ SameTable(table, m) /\ Outcome(m, table')
      /\ HandActive(table) /\ s = table.acting
  BY DEF Plays, Acts
<1>3. /\ Books(m) /\ ChipsOf(m) = ChipsOf(table) /\ m.user = table.user
      /\ m.turnID = table.turnID /\ m.inHand = table.inHand
  BY <1>1, <1>2, ActsBooks DEF SameTable
<1>4. {o \in Seats : table.inHand[o]} # {}
  BY <1>1, <1>2 DEF Sound, TurnPlayable, NeedsAction, Actionable, Contesting
<1>5. table' \in TableState
  BY <1>2 DEF Outcome, HandGoesOn, EndsHand, SameHand
<1>6. table'.turnID > table.turnID /\ table'.expired = FALSE /\ table'.user = table.user
  <2>1. table'.expired \in BOOLEAN
    BY <1>5 DEF TableState
  <2>. QED
    BY <1>2, <1>3, <2>1, TurnsOnlyGrow
<1>7. CASE HandGoesOn(m, table')
  <2>1. table'.inHand = table.inHand /\ ChipsOf(table') = ChipsOf(table)
    BY <1>3, <1>7 DEF HandGoesOn, SameHand, ChipsOf
  <2>. QED
    BY <1>4, <1>6, <2>1, GameSeats DEF Game!Move, ChipsOf
<1>8. CASE EndsHand(m, table')
  <2>1. PICK P \in SUBSET Seats : P = {o \in Seats : table.inHand[o]}
    OBVIOUS
  <2>2. Game!Settle(P)
    <3>1. P = {o \in Seats : m.inHand[o]}
      BY <1>3, <2>1
    <3>. QED
      BY <1>3, <1>8, <3>1, EndSettles
  <2>3. table'.turnID >= table.turnID
    <3>1. table'.turnID \in Nat
      BY <1>5 DEF TableState
    <3>. QED
      BY <1>1, <1>6, <3>1
  <2>4. P # {} /\ table'.expired = FALSE
    BY <1>4, <1>6, <2>1
  <2>5. Game!Finish
    BY <2>1, <2>2, <2>3, <2>4, GameSeats DEF Game!Finish, Game!Settle
  <2>. QED
    BY <2>5
<1>. QED
  BY <1>2, <1>7, <1>8 DEF Outcome

\* The table is the card game that the service relies on: chips move only between
\* the players of a hand and when it ends, nobody leaves with chips at stake, and
\* every decision has a later turn number than the one before.
THEOREM TableImplementsCardGame == Spec => ImplementsCardGame
<1>1. Init => Game!GameInit
  BY InitGame
<1>2. GInv /\ [Next]_vars => [Game!GameNext]_(Game!gameVars)
  <2>. SUFFICES ASSUME GInv, [Next]_vars
                PROVE  Game!GameNext \/ UNCHANGED Game!gameVars
    OBVIOUS
  <2>1. IInv
    BY DEF GInv
  <2>2. CASE \E s \in Seats, u \in Users, b \in BuyIns : Sits(s, u, b)
    BY <2>2, SitsGame, GameSeats DEF Game!GameNext
  <2>3. CASE \E s \in Seats : Rises(s)
    BY <2>3, RisesGame, GameSeats DEF Game!GameNext
  <2>4. CASE Marks
    BY <2>4, MarksGame DEF Game!GameNext
  <2>5. CASE \E p \in TableState : Deals(p)
    BY <2>5, DealsGame DEF Game!GameNext
  <2>6. CASE \E s \in Seats, m \in TableState : Plays(s, m)
    BY <2>6, PlaysGame DEF Game!GameNext
  <2>7. CASE UNCHANGED vars
    BY <2>7 DEF vars, Game!gameVars
  <2>. QED
    BY <2>1, <2>2, <2>3, <2>4, <2>5, <2>6, <2>7, StepKinds
<1>. QED
  BY <1>1, <1>2, GameInvariant, PTL DEF Spec, ImplementsCardGame, Game!GameSpec

=============================================================================
