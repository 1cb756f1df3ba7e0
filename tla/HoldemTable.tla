----------------------------- MODULE HoldemTable -----------------------------
(***************************************************************************)
(* The no-limit Texas hold'em cash table (internal/poker/table.go): players *)
(* sit down with chips and leave with them, ready up for a hand, and act in *)
(* turn until the hand is won by the last player left or at a showdown.     *)
(*                                                                         *)
(* The table is one record, as TableState is one struct; an empty seat (a   *)
(* nil *Player) is a seat without user, whose fields have their zero value. *)
(* Each operation runs under the table's mutex, so it is one action.        *)
(*                                                                         *)
(* Cards are abstracted: a hand's strength is chosen when a showdown        *)
(* compares hands (the deck is shuffled), and a hole hand is only known to  *)
(* exist. The clock is abstracted to "the deadline of this turn passed".    *)
(***************************************************************************)
EXTENDS SidePots

CONSTANTS
  Users,               \* the people who may sit down
  NoUser,              \* the occupant of an empty seat
  SmallBlind, BigBlind,
  BuyIns,              \* amounts a player may bring to the table
  MaxHands,            \* bound: hands dealt
  MaxChips             \* bound: chips ever on the table

ASSUME HoldemAssumption ==
  /\ NoUser \notin Users
  /\ SmallBlind \in Nat \ {0} /\ BigBlind \in Nat /\ SmallBlind <= BigBlind
  /\ BuyIns \subseteq Nat \ {0}
  /\ MaxHands \in Nat /\ MaxChips \in Nat

VARIABLES
  table,    \* the table's state
  supply,   \* history: chips brought to the table minus chips taken away
  dealt,    \* history: each seat's stack when the current hand was dealt
  spoke,    \* history: seats that acted since the current street began
  shown     \* history: seats whose hole cards were exposed by a showdown

vars == <<table, supply, dealt, spoke, shown>>

-----------------------------------------------------------------------------
(* Data *)

BettingStreets == {"preflop", "flop", "turn", "river"}
Streets        == {"waiting", "complete"} \cup BettingStreets

NextStreet == [preflop |-> "flop", flop |-> "turn", turn |-> "river"]

\* Relative strengths of the best five cards of each seat, ties included.
Ranks == {r \in [Seats -> 1..MaxSeats] :
            \A s \in Seats : r[s] = 1 \/ \E o \in Seats : r[o] = r[s] - 1}

Zeros  == [s \in Seats |-> 0]
Nobody == [s \in Seats |-> FALSE]

\* The outcome of a hand as handResultLocked records it for its players.
HandResult ==
  [showdown : BOOLEAN, pot : Nat, players : SUBSET Seats,
   folded : [Seats -> BOOLEAN], start : [Seats -> Int],
   committed : [Seats -> Nat], payout : [Seats -> Nat], ending : [Seats -> Nat]]

NoResult == [showdown |-> FALSE, pot |-> 0, players |-> {}, folded |-> Nobody,
             start |-> Zeros, committed |-> Zeros, payout |-> Zeros, ending |-> Zeros]

TableState ==
  [user : [Seats -> Users \cup {NoUser}], stack : [Seats -> Nat],
   bet : [Seats -> Nat], committed : [Seats -> Nat], hole : [Seats -> BOOLEAN],
   inHand : [Seats -> BOOLEAN], folded : [Seats -> BOOLEAN],
   allIn : [Seats -> BOOLEAN], ready : [Seats -> BOOLEAN],
   acted : [Seats -> BOOLEAN], actedAtBet : [Seats -> Nat],
   street : Streets, dealer : Seats \cup {NoSeat}, acting : Seats \cup {NoSeat},
   currentBet : Nat, minRaise : Nat, handID : Nat, turnID : Nat,
   expired : BOOLEAN, lastResult : HandResult]

NewTable ==
  [user |-> [s \in Seats |-> NoUser], stack |-> Zeros, bet |-> Zeros,
   committed |-> Zeros, hole |-> Nobody, inHand |-> Nobody, folded |-> Nobody,
   allIn |-> Nobody, ready |-> Nobody, acted |-> Nobody, actedAtBet |-> Zeros,
   street |-> "waiting", dealer |-> NoSeat, acting |-> NoSeat,
   currentBet |-> 0, minRaise |-> BigBlind, handID |-> 0, turnID |-> 0,
   expired |-> FALSE, lastResult |-> NoResult]

-----------------------------------------------------------------------------
(* Questions the code asks of a table *)

HandActive(t)  == t.street \in BettingStreets
Occupied(t)    == {s \in Seats : t.user[s] # NoUser}
SeatOf(t, u)   == {s \in Seats : t.user[s] = u}
Playable(t)    == {s \in Seats : t.stack[s] > 0}
Contesting(t)  == {s \in Seats : t.inHand[s] /\ ~t.folded[s]}
Actionable(t)  == {s \in Contesting(t) : ~t.allIn[s]}

\* Mutant: whoever acted once on the street is done, although the bet went up.
NeedsActionOnce(t) == {s \in Actionable(t) : ~t.acted[s]}

\* Mutant: whoever has matched the bet is done, asked or not.
NeedsActionUnmatched(t) == {s \in Actionable(t) : t.bet[s] # t.currentBet}

NeedsAction(t) == {s \in Actionable(t) : ~t.acted[s] \/ t.bet[s] # t.currentBet}
Smaller(a, b) == IF a <= b THEN a ELSE b
Larger(a, b)  == IF a <= b THEN b ELSE a

ToCall(t, s)  == Larger(0, t.currentBet - t.bet[s])
Maximum(t, s) == t.bet[s] + t.stack[s]

\* An opponent still in the hand could match a bet of n.
Matchable(t, s, n) == \E o \in Contesting(t) \ {s} : n <= Maximum(t, o)

MinimumRaise(t) == IF t.currentBet = 0 THEN BigBlind ELSE t.minRaise

RaiseReopened(t, s) ==
  ~t.acted[s] \/ t.currentBet - t.actedAtBet[s] >= t.minRaise

\* raiseToLocked accepts a bet or raise of seat s to n.
RaiseAccepted(t, s, n) ==
  /\ n > t.currentBet /\ n <= Maximum(t, s)
  /\ Matchable(t, s, n)
  /\ RaiseReopened(t, s)
  /\ n - t.currentBet >= MinimumRaise(t) \/ n = Maximum(t, s)

\* An all-in of seat s is a call of what it can pay, or an accepted raise.
AllInAccepted(t, s) ==
  /\ t.stack[s] > 0
  /\ Maximum(t, s) <= t.currentBet \/ RaiseAccepted(t, s, Maximum(t, s))

-----------------------------------------------------------------------------
(* Steps the operations are made of *)

\* Mutant: a seat that keeps the turn over the end of a street keeps its number.
SetActingSameTurn(t, s) ==
  [t EXCEPT !.acting = s, !.turnID = IF t.acting = s THEN @ ELSE @ + 1,
            !.expired = FALSE]

SetActing(t, s) ==
  [t EXCEPT !.acting = s, !.turnID = @ + 1, !.expired = FALSE]

\* Mutant: chips a player does not have are committed.
CommitUncapped(t, s, requested) ==
  [t EXCEPT !.stack[s] = @ - requested, !.bet[s] = @ + requested,
            !.committed[s] = @ + requested, !.allIn[s] = @ \/ requested = t.stack[s]]

Commit(t, s, requested) ==
  LET amount == Smaller(requested, t.stack[s])
  IN  [t EXCEPT !.stack[s] = @ - amount, !.bet[s] = @ + amount,
                !.committed[s] = @ + amount,
                !.allIn[s] = @ \/ amount = t.stack[s]]

\* Mutant: an all-in too short to be a raise reopens the betting.
RaiseToReopening(t, s, n) ==
  [Commit(t, s, n - t.bet[s]) EXCEPT
     !.currentBet = n,
     !.minRaise = IF n - t.currentBet >= MinimumRaise(t) THEN n - t.currentBet ELSE @,
     !.acted = [o \in Seats |-> o = s]]

RaiseTo(t, s, n) ==
  LET paid == Commit(t, s, n - t.bet[s])
      full == n - t.currentBet >= MinimumRaise(t)
  IN  [paid EXCEPT
         !.currentBet = n,
         !.minRaise = IF full THEN n - t.currentBet ELSE @,
         !.acted = [o \in Seats |->
                      o = s \/ (@[o] /\ ~(full /\ o \in Actionable(paid)))]]

\* Mutant: the hand is settled on the bets before the refund.
StakedGross(t) == t.committed

\* What each seat has in the pot once the unmatched part of a bet is refunded.
Staked(t) == [s \in Seats |-> t.committed[s] - Refund(t.committed)[s]]

\* Pays refund and payout, records the result and resets the hand.
FinishHand(t, showdown, payout) ==
  LET ending  == [s \in Seats |-> t.stack[s] + Refund(t.committed)[s] + payout[s]]
      players == {s \in Seats : t.inHand[s]}
      of(f)   == [s \in Seats |-> IF s \in players THEN f[s] ELSE 0]
      closed  == [t EXCEPT
        !.stack = ending, !.bet = Zeros, !.committed = Zeros, !.ready = Nobody,
        !.inHand = Nobody, !.allIn = Nobody, !.acted = Nobody,
        !.actedAtBet = Zeros, !.currentBet = 0, !.street = "complete",
        !.lastResult =
          [showdown |-> showdown, pot |-> SeatSum(Staked(t)), players |-> players,
           folded |-> t.folded, committed |-> Staked(t), payout |-> payout,
           start |-> of([s \in Seats |-> ending[s] + Staked(t)[s] - payout[s]]),
           ending |-> of(ending)]]
  IN  SetActing(closed, NoSeat)

\* The tables a showdown may end in, one for each way the hands that compete
\* may compare.
FinishShowdown(t) ==
  {FinishHand(t, TRUE, Payout(Staked(t), Contesting(t), rank, t.dealer)) :
     rank \in {r \in Ranks : \A s \in Seats \ Contesting(t) : r[s] = 1}}

\* Mutant: the last player wins the bets before the refund.
FinishUncontestedGross(t) ==
  FinishHand(t, FALSE, [s \in Seats |->
    IF s \in Contesting(t) THEN SeatSum(t.committed) ELSE 0])

\* The whole pot goes to the one player who did not fold.
FinishUncontested(t) ==
  FinishHand(t, FALSE, [s \in Seats |->
    IF s \in Contesting(t) THEN SeatSum(Staked(t)) ELSE 0])

AdvanceStreet(t) ==
  LET cleared == [t EXCEPT !.bet = Zeros, !.currentBet = 0, !.minRaise = BigBlind,
                           !.acted = Nobody, !.actedAtBet = Zeros]
      dealtOn == [cleared EXCEPT !.street = NextStreet[@]]
      turn    == SetActing(dealtOn, NextIn(NeedsAction(dealtOn), t.dealer))
  IN  IF t.street = "river" THEN FinishShowdown(cleared)
      ELSE IF \A a, b \in Actionable(dealtOn) : a = b THEN FinishShowdown(dealtOn)
      ELSE IF turn.acting = NoSeat THEN FinishShowdown(turn)
      ELSE {turn}

\* Mutant: the turn goes to the next player in the hand, able to act or not.
PassTurnAnyone(t, from) ==
  IF NeedsAction(t) = {} THEN AdvanceStreet(t)
  ELSE {SetActing(t, NextIn(Contesting(t), from))}

\* Gives the turn to the next seat that must act after "from", or goes on to
\* the next street when nobody has to.
PassTurn(t, from) ==
  LET turn == SetActing(t, NextIn(NeedsAction(t), from))
  IN  IF turn.acting = NoSeat THEN AdvanceStreet(turn) ELSE {turn}

\* What actLocked does once the action of seat s has been applied.
EndAction(t, s) ==
  LET acted == [t EXCEPT !.actedAtBet[s] = t.currentBet]
  IN  IF \A a, b \in Contesting(acted) : a = b THEN {FinishUncontested(acted)}
      ELSE IF NeedsAction(acted) = {} THEN AdvanceStreet(acted)
      ELSE PassTurn(acted, s)

\* startHandLocked: the button moves, the funded players are dealt in, the
\* blinds are posted and the first turn is given.
StartHand(t) ==
  LET active == Playable(t)
      dealer == NextIn(active, t.dealer)
      fresh  == [t EXCEPT
        !.handID = @ + 1, !.street = "preflop", !.currentBet = 0,
        !.minRaise = BigBlind, !.lastResult = NoResult, !.acted = Nobody,
        !.actedAtBet = Zeros, !.dealer = dealer,
        !.ready     = [s \in Seats |-> @[s] /\ s \notin active],
        !.bet       = [s \in Seats |-> IF s \in active THEN 0 ELSE @[s]],
        !.committed = [s \in Seats |-> IF s \in active THEN 0 ELSE @[s]],
        !.hole      = [s \in Seats |-> @[s] \/ s \in active],
        !.inHand    = [s \in Seats |-> @[s] \/ s \in active],
        !.folded    = [s \in Seats |-> @[s] /\ s \notin active],
        !.allIn     = [s \in Seats |-> @[s] /\ s \notin active]]
      left   == NextIn(Contesting(fresh), dealer)
      small  == IF Cardinality(active) = 2 THEN dealer ELSE left
      big    == NextIn(Contesting(fresh), small)
      posted == Commit(Commit(fresh, small, SmallBlind), big, BigBlind)
      opened == [posted EXCEPT
                   !.currentBet = Larger(posted.bet[small], posted.bet[big])]
  IN  PassTurn(opened, big)

-----------------------------------------------------------------------------
(* Operations *)

\* The history after the table moved on to t.
Remember(t) ==
  /\ dealt' = IF t.handID = table.handID THEN dealt ELSE table.stack
  /\ shown' = (shown \ (IF t.handID = table.handID THEN {} ELSE Playable(table)))
                 \cup (IF t.lastResult.showdown /\ t.turnID # table.turnID
                         THEN {s \in t.lastResult.players : ~t.lastResult.folded[s]} ELSE {})
  /\ spoke' = IF t.street = table.street /\ t.handID = table.handID
                THEN spoke \cup ({table.acting} \cap Seats) ELSE {}

\* Bound: once the last hand is over nobody comes or gets ready any more.
MoreToCome == table.handID < MaxHands \/ HandActive(table)

Join(u, buyIn) ==
  /\ MoreToCome /\ supply + buyIn <= MaxChips
  /\ SeatOf(table, u) = {}
  /\ Occupied(table) # Seats
  /\ LET seat == NextIn(Seats \ Occupied(table), NoSeat)
     IN  table' = [table EXCEPT
           !.user[seat] = u, !.stack[seat] = buyIn,
           !.ready = IF HandActive(table) THEN @ ELSE Nobody]
  /\ supply' = supply + buyIn
  /\ UNCHANGED <<dealt, spoke, shown>>

\* Mutant: a player may leave in the middle of a hand.
LeaveAnyTime(u) ==
  /\ \E seat \in SeatOf(table, u) :
       /\ table' = [table EXCEPT
            !.user[seat] = NoUser, !.stack[seat] = 0, !.hole[seat] = FALSE,
            !.folded[seat] = FALSE, !.ready = Nobody]
       /\ supply' = supply - table.stack[seat]
       /\ shown' = shown \ {seat}
  /\ UNCHANGED <<dealt, spoke>>

Leave(u) ==
  /\ ~HandActive(table)
  /\ \E seat \in SeatOf(table, u) :
       /\ table' = [table EXCEPT
            !.user[seat] = NoUser, !.stack[seat] = 0, !.hole[seat] = FALSE,
            !.folded[seat] = FALSE, !.ready = Nobody]
       /\ supply' = supply - table.stack[seat]
       /\ shown' = shown \ {seat}
  /\ UNCHANGED <<dealt, spoke>>

CanReady(u) ==
  /\ MoreToCome /\ ~HandActive(table)
  /\ SeatOf(table, u) \cap Playable(table) # {}
  /\ Cardinality(Playable(table)) >= 2

Marked(u) == [table EXCEPT
  !.ready = [s \in Seats |-> @[s] \/ s \in SeatOf(table, u)]]

AllReady(t) == \A s \in Playable(t) : t.ready[s]

\* Ready of a player while others still have to ready up.
Ready(u) ==
  /\ CanReady(u)
  /\ ~AllReady(Marked(u))
  /\ table' = Marked(u)
  /\ UNCHANGED <<supply, dealt, spoke, shown>>

\* Ready of the last player: the hand is dealt.
ReadyAndDeal(u) ==
  /\ CanReady(u)
  /\ AllReady(Marked(u))
  /\ table' \in StartHand(Marked(u))
  /\ Remember(table')
  /\ UNCHANGED supply

\* Ready of the last player when the shuffle has no random source: not ready.
ReadyWithoutShuffle(u) ==
  /\ CanReady(u)
  /\ AllReady(Marked(u))
  /\ table' = [table EXCEPT
       !.ready = [s \in Seats |-> @[s] /\ s \notin SeatOf(table, u)]]
  /\ UNCHANGED <<supply, dealt, spoke, shown>>

\* Seat s has the turn and its deadline has not passed.
MayAct(s) == HandActive(table) /\ s = table.acting /\ ~table.expired

\* The action of seat s turned the table into t; the hand goes on from there.
Apply(t, s) ==
  /\ table' \in EndAction(t, s)
  /\ Remember(table')
  /\ UNCHANGED supply

Folded(s)  == [table EXCEPT !.folded[s] = TRUE, !.acted[s] = TRUE]
Checked(s) == [table EXCEPT !.acted[s] = TRUE]
Paid(s, n) == [Commit(table, s, n) EXCEPT !.acted[s] = TRUE]

Fold(s) == MayAct(s) /\ Apply(Folded(s), s)

Check(s) == MayAct(s) /\ ToCall(table, s) = 0 /\ Apply(Checked(s), s)

Call(s) ==
  /\ MayAct(s)
  /\ ToCall(table, s) # 0
  /\ Apply(Paid(s, ToCall(table, s)), s)

Bet(s, n) ==
  /\ MayAct(s)
  /\ table.currentBet = 0
  /\ RaiseAccepted(table, s, n)
  /\ Apply(RaiseTo(table, s, n), s)

Raise(s, n) ==
  /\ MayAct(s)
  /\ table.currentBet # 0
  /\ RaiseAccepted(table, s, n)
  /\ Apply(RaiseTo(table, s, n), s)

AllIn(s) ==
  /\ MayAct(s)
  /\ AllInAccepted(table, s)
  /\ LET n == Maximum(table, s)
     IN  \/ n <= table.currentBet /\ Apply(Paid(s, table.stack[s]), s)
         \/ n > table.currentBet /\ Apply(RaiseTo(table, s, n), s)

\* The clock reaches the deadline of the current turn.
DeadlinePasses ==
  /\ HandActive(table) /\ table.acting # NoSeat /\ ~table.expired
  /\ table' = [table EXCEPT !.expired = TRUE]
  /\ UNCHANGED <<supply, dealt, spoke, shown>>

\* Mutant: the timer folds a player who faces a bet, and leaves the others be.
TimeoutOnlyFolds(id) ==
  /\ HandActive(table) /\ table.acting # NoSeat /\ id = table.turnID
  /\ table.expired
  /\ ToCall(table, table.acting) # 0
  /\ Apply(Folded(table.acting), table.acting)

\* The timer armed for turn id fires: a check if it is free, a fold otherwise.
\* A timer of an earlier turn, or one that fires early, does nothing.
Timeout(id) ==
  /\ HandActive(table) /\ table.acting # NoSeat /\ id = table.turnID
  /\ table.expired
  /\ LET s == table.acting
     IN  \/ ToCall(table, s) = 0 /\ Apply(Checked(s), s)
         \/ ToCall(table, s) # 0 /\ Apply(Folded(s), s)

-----------------------------------------------------------------------------
Init ==
  /\ table = NewTable
  /\ supply = 0
  /\ dealt = Zeros
  /\ spoke = {}
  /\ shown = {}

Next ==
  \/ \E u \in Users, b \in BuyIns : Join(u, b)
  \/ \E u \in Users : Leave(u)
  \/ \E u \in Users : Ready(u)
  \/ \E u \in Users : ReadyAndDeal(u)
  \/ \E u \in Users : ReadyWithoutShuffle(u)
  \/ \E s \in Seats : Fold(s)
  \/ \E s \in Seats : Check(s)
  \/ \E s \in Seats : Call(s)
  \/ \E s \in Seats, n \in 1..MaxChips : Bet(s, n)
  \/ \E s \in Seats, n \in 1..MaxChips : Raise(s, n)
  \/ \E s \in Seats : AllIn(s)
  \/ DeadlinePasses
  \/ Timeout(table.turnID)

Spec == Init /\ [][Next]_vars

-----------------------------------------------------------------------------
(* What the snapshot offers the acting player (allowedActionsLocked) *)

MaxRaiseTo(t, s) ==
  Smaller(Maximum(t, s),
          CHOOSE m \in {0} \cup {Maximum(t, o) : o \in Contesting(t) \ {s}} :
            \A o \in Contesting(t) \ {s} : Maximum(t, o) <= m)

AllowedActions(t, s) ==
  LET maximum  == Maximum(t, s)
      most     == MaxRaiseTo(t, s)
      minimum  == IF t.currentBet = 0 THEN BigBlind ELSE t.currentBet + t.minRaise
      reopened == RaiseReopened(t, s)
  IN  [canCheck |-> ToCall(t, s) = 0,
       canCall  |-> ToCall(t, s) > 0,
       canBet   |-> /\ t.currentBet = 0 /\ most > 0
                    /\ most >= BigBlind \/ most = maximum,
       canRaise |-> /\ t.currentBet > 0 /\ most > t.currentBet /\ reopened
                    /\ most - t.currentBet >= t.minRaise \/ most = maximum,
       canAllIn |-> /\ t.stack[s] > 0
                    /\ \/ maximum <= t.currentBet
                       \/ maximum <= most /\ reopened,
       minRaiseTo |-> Smaller(minimum, most),
       maxRaiseTo |-> most]

\* Mutant: a showdown exposes the hole cards of every seat.
ExposedAll(t) == {s \in Seats : t.hole[s] /\ t.lastResult.showdown}

\* Seats whose hole cards Snapshot puts into every viewer's picture.
Exposed(t) == {s \in Seats : t.hole[s] /\ t.lastResult.showdown /\ ~t.folded[s]}

-----------------------------------------------------------------------------
(* Invariants *)

\* The table always has the shape of a TableState.
TypeOK ==
  /\ table \in TableState
  /\ supply \in Int
  /\ dealt \in [Seats -> Nat]
  /\ spoke \subseteq Seats
  /\ shown \subseteq Seats

Chips(t) == SeatSum([s \in Seats |-> t.stack[s] + t.committed[s]])

\* No sequence of bets, refunds and awards makes chips: the table never holds
\* more than the players brought to it.
ChipsNeverCreated == Chips(table) <= supply

\* And it never loses any: every chip brought in is in a stack or in the pot.
ChipsConserved == Chips(table) = supply

\* While a hand runs, the seat with the turn is one that really has something to
\* decide, against somebody; between hands nobody has the turn. A table that
\* waits for a folded, all-in or empty seat would wait forever.
TurnIsPlayable ==
  IF HandActive(table)
    THEN /\ table.acting \in NeedsAction(table)
         /\ \E o \in Contesting(table) : o # table.acting
    ELSE table.acting = NoSeat

\* A street is closed only when bets are matched: whoever can still act has paid
\* on the earlier streets as much as anybody, all-in and folded players included.
StreetsClosedMatched ==
  HandActive(table) =>
    \A s \in Actionable(table), o \in Seats :
      table.committed[o] - table.bet[o] <= table.committed[s] - table.bet[s]

\* Hole cards reach the other players only through a showdown their owner did
\* not fold before, even when a broke player keeps the cards of an old hand.
HoleCardsPrivate == Exposed(table) \subseteq shown

\* The recorded result, computed backwards from the stacks after the payout,
\* starts every player from the stack the hand was dealt with.
ResultStartsFromDeal ==
  \A s \in table.lastResult.players : table.lastResult.start[s] = dealt[s]

\* A player wins from each opponent at most the amount he put in himself, and
\* nothing at all after folding: the side pots keep short stacks in their layer.
ShowdownPaysMatchedOnly ==
  LET r == table.lastResult
  IN  r.showdown =>
        \A s \in r.players :
          r.payout[s] <= IF r.folded[s] THEN 0
                         ELSE SeatSum([o \in Seats |->
                                Smaller(r.committed[o], r.committed[s])])

\* A showdown pays out every chip that some player who did not fold has matched,
\* folded players' chips and odd chips included.
ShowdownPaysAllMatched ==
  LET r == table.lastResult
  IN  r.showdown =>
        \A s \in {p \in r.players : ~r.folded[p]} :
          SeatSum(r.payout) >= SeatSum([o \in Seats |->
                                 Smaller(r.committed[o], r.committed[s])])

-----------------------------------------------------------------------------
(* Action properties *)

\* Chips leave the game in one case only, never another way and never are made: a
\* showdown of a hand dealt to four players at least, in which everybody who put
\* in the most has folded. A hand dealt to three, at a table of any size, keeps
\* every chip, and so does one whose last bet is called by a player who stays.
ChipsLostOnlyAboveTheLive ==
  [][LET r == table'.lastResult
     IN  Chips(table') - supply' # Chips(table) - supply =>
           /\ r.showdown /\ Cardinality(r.players) >= 4
           /\ \A s \in r.players : ~r.folded[s] =>
                \E o \in r.players : r.folded[o] /\ r.committed[o] > r.committed[s]]_vars

\* A player who has acted on this street may raise again only after facing at
\* least one full raise on top of the bet he acted at: an all-in too short to be
\* a raise does not reopen the betting for him, several together may.
RaiseOnlyWhenReopened ==
  [][\A s \in spoke :
       /\ s = table.acting /\ table'.handID = table.handID
       /\ table'.stack[s] < table.stack[s]
       /\ table.bet[s] + table.stack[s] - table'.stack[s] > table.currentBet
       => table.currentBet - table.actedAtBet[s] >= table.minRaise]_vars

\* A street ends, or the hands are compared, only after everybody who could still
\* act on it has been asked: the big blind keeps its option, and a street checked
\* around is closed by the last check.
NobodySkipped ==
  [][HandActive(table) /\ table'.street # table.street
       /\ (HandActive(table') \/ table'.lastResult.showdown)
     => Actionable(table) \ {table.acting} \subseteq spoke]_vars

\* A turn number names one decision: as long as it is the same, the street, the
\* acting seat and every bet are the same, so a timer or a client that quotes
\* it cannot act on a later decision.
TurnNamesDecision ==
  [][table'.turnID = table.turnID =>
       /\ <<table'.street, table'.acting, table'.handID, table'.currentBet>>
            = <<table.street, table.acting, table.handID, table.currentBet>>
       /\ HandActive(table) =>
            <<table'.committed, table'.folded, table'.acted>>
              = <<table.committed, table.folded, table.acted>>]_vars

-----------------------------------------------------------------------------
(* Refinement *)

\* The table is a card game: chips move only between the players of a hand and
\* when the hand ends, nobody leaves with chips at stake, and every decision has
\* a later turn number than the one before.
Game == INSTANCE CardGame WITH
  JoinMidHand <- TRUE,
  who <- table.user,
  chips <- [s \in Seats |-> table.stack[s] + table.committed[s]],
  playing <- {s \in Seats : table.inHand[s]},
  turn <- table.turnID,
  expired <- table.expired

ImplementsCardGame == Game!GameSpec

=============================================================================
