------------------------------ MODULE CardGame ------------------------------
(***************************************************************************)
(* What a card game promises to the service that runs it (the calls of     *)
(* internal/app/game_runtime.go, served by the poker and the landlord       *)
(* table): who sits where with how many chips, who is in the running hand,  *)
(* and the number of the turn that timers and clients quote.               *)
(*                                                                         *)
(* Chips are a seat's own: what it keeps in its stack and what it has put   *)
(* into a pot that is not yet won.                                         *)
(***************************************************************************)
EXTENDS SeatRing

CONSTANTS
  Users, NoUser,
  JoinMidHand          \* may a player sit down while a hand is played?

VARIABLES
  who,       \* the user in each seat
  chips,     \* the chips of each seat
  playing,   \* the seats dealt into the running hand; empty between hands
  turn,      \* number of the current turn
  expired    \* the deadline of the current turn has passed

gameVars == <<who, chips, playing, turn, expired>>

GameInit ==
  /\ who = [s \in Seats |-> NoUser]
  /\ chips = [s \in Seats |-> 0]
  /\ playing = {}
  /\ turn = 0
  /\ expired = FALSE

\* A user takes an empty seat with chips.
SitDown(s, u) ==
  /\ playing = {} \/ JoinMidHand
  /\ who[s] = NoUser /\ \A o \in Seats : who[o] # u
  /\ who' = [who EXCEPT ![s] = u]
  /\ chips'[s] > 0 /\ chips' = [chips EXCEPT ![s] = chips'[s]]
  /\ UNCHANGED <<playing, turn, expired>>

\* A seat is given up, between hands only.
StandUp(s) ==
  /\ playing = {}
  /\ who[s] # NoUser
  /\ who' = [who EXCEPT ![s] = NoUser]
  /\ chips' = [chips EXCEPT ![s] = 0]
  /\ UNCHANGED <<playing, turn, expired>>

\* A hand starts among at least two funded seats.
DealTo(P) ==
  /\ playing = {}
  /\ \A s \in P : chips[s] > 0
  /\ \E a, b \in P : a # b
  /\ turn' > turn /\ expired' = FALSE

Deal ==
  /\ DealTo(playing')
  /\ UNCHANGED <<who, chips>>

\* A decision is made and another is due.
Move ==
  /\ playing # {}
  /\ turn' > turn /\ expired' = FALSE
  /\ UNCHANGED <<who, chips, playing>>

\* The chips of the seats in P change hands; none is made.
Settle(P) ==
  /\ playing' = {}
  /\ \A s \in Seats : chips'[s] >= 0 /\ (s \notin P => chips'[s] = chips[s])
  /\ SeatSum(chips') <= SeatSum(chips)
  /\ UNCHANGED who

\* The last decision of a hand ends it.
Finish ==
  /\ playing # {}
  /\ turn' >= turn /\ expired' = FALSE
  /\ Settle(playing)

\* A hand in which nobody has a decision to make ends as it is dealt.
DealAndFinish == \E P \in SUBSET Seats : DealTo(P) /\ Settle(P)

Expire ==
  /\ playing # {} /\ ~expired
  /\ expired' = TRUE
  /\ UNCHANGED <<who, chips, playing, turn>>

GameNext ==
  \/ \E s \in Seats, u \in Users : SitDown(s, u)
  \/ \E s \in Seats : StandUp(s)
  \/ Deal
  \/ Move
  \/ Finish
  \/ DealAndFinish
  \/ Expire

GameSpec == GameInit /\ [][GameNext]_gameVars

=============================================================================
