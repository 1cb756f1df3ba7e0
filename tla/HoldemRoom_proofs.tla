------------------------- MODULE HoldemRoom_proofs -------------------------
(***************************************************************************)
(* What lies around a hold'em table, for any seats, users, blinds, stacks   *)
(* and mishaps: the vote to remove a player (TableVote), the screen         *)
(* (TableScene) and the service with its saves, restarts, deletions and     *)
(* timers (TableService).  Vote and screen are one specification, VoteSpec,  *)
(* the service is another, ServiceSpec; what holds of the table through its *)
(* own steps comes to both from HoldemTable_proofs.                         *)
(*                                                                         *)
(* The invariant VInv adds to the table's that a vote which is not decided  *)
(* has two voters at least.  With its target they are three funded players, *)
(* so that a hand dealt to them is never over at once (DealtToThree): no    *)
(* vote runs on over a table that was played on in between.                 *)
(*                                                                         *)
(* SceneInv adds what the screen takes for granted of a hand: a least       *)
(* raise.  What it offers is compared with the handlers path by path.       *)
(*                                                                         *)
(* A step of the service either moves the table and saves it (Saves), sets  *)
(* marks without a save (Unsaved), undoes a join, restarts, or leaves table *)
(* and histories alone (Idle).  ServiceInv holds of the table and of the    *)
(* row in the database as well, so that it survives a restart.              *)
(***************************************************************************)
EXTENDS TableScene, TableService, HoldemTable_proofs

-----------------------------------------------------------------------------
(* The invariant of the vote *)

\* A vote has a proposer and counts nobody twice.
Ballots(v) ==
  /\ v \in [target : Users, voters : SUBSET (Users \cup {NoUser}),
            yes : SUBSET Users, no : SUBSET Users]
  /\ IsFiniteSet(v.voters) /\ v.yes \cup v.no \subseteq v.voters
  /\ v.yes # {} /\ v.yes \cap v.no = {}

\* It is not decided yet: with one voice for it already, it has two voters at least.
VoteOpen(v) == Ballots(v) /\ ~Carried(v)

\* What the vote says of the table, until a save fails.
VoteFits(v, t) ==
  LET funded == {t.user[s] : s \in Playable(t)}
  IN  /\ ~HandActive(t)
      /\ v.voters = funded \ {v.target} /\ v.target \in funded
      /\ \A s \in SeatOf(t, v.target) : ~t.ready[s]

VInv ==
  /\ IInv /\ failedSaves \in Nat
  /\ vote # NoVote => VoteOpen(vote)
  /\ vote # NoVote /\ failedSaves = 0 => VoteFits(vote, table)

-----------------------------------------------------------------------------
(* Counting votes *)

\* The funded players of a table are finitely many.
LEMMA FundedFinite ==
  ASSUME NEW t
  PROVE  IsFiniteSet({t.user[s] : s \in Playable(t)})
  <1> DEFINE S == Playable(t)
             T == {t.user[s] : s \in S}
             f == [s \in S |-> t.user[s]]
  <1>1. IsFiniteSet(S)
    BY SeatsFinite DEF Playable
  <1>2. f \in Surjection(S, T)
    BY Zenon DEF Surjection
  <1> HIDE DEF f, T, S
  <1>3. IsFiniteSet(T)
    BY <1>1, <1>2, FS_Surjection
  <1> QED BY <1>3 DEF T, S

\* What is more than half.
LEMMA MoreThanHalf ==
  ASSUME NEW n \in Nat, NEW k \in Nat
  PROVE  /\ k >= n \div 2 + 1 <=> 2 * k > n
         /\ ~ k >= n \div 2 + 1 /\ k >= 1 => n >= 2
  OBVIOUS

\* A vote that is not carried at once has two voters.
LEMMA TwoVoters ==
  ASSUME NEW v, VoteOpen(v)
  PROVE  \E a, b \in v.voters : a # b
  <1>1. IsFiniteSet(v.voters) /\ v.yes \subseteq v.voters /\ v.yes # {}
    BY DEF VoteOpen, Ballots
  <1>2. IsFiniteSet(v.yes)
    BY <1>1, FS_Subset
  <1>3. Cardinality(v.yes) \in Nat /\ Cardinality(v.voters) \in Nat /\ Cardinality(v.yes) # 0
    BY <1>1, <1>2, FS_CardinalityType, FS_EmptySet
  <1>4. ~ Cardinality(v.yes) >= Cardinality(v.voters) \div 2 + 1
    BY DEF VoteOpen, Carried, Required
  <1>5. Cardinality(v.voters) >= 2
    BY <1>3, <1>4, MoreThanHalf
  <1>6. PICK a \in v.voters : TRUE
    BY <1>1
  <1>7. IsFiniteSet(v.voters \ {a}) /\ Cardinality(v.voters \ {a}) = Cardinality(v.voters) - 1
    BY <1>1, <1>6, FS_RemoveElement
  <1>8. v.voters \ {a} # {}
    BY <1>3, <1>5, <1>7, FS_EmptySet
  <1> QED BY <1>6, <1>8

-----------------------------------------------------------------------------
(* Dealing to three *)

\* A hand among three funded players or more is not over when it is dealt: one
\* of them posts no blind and has to act.
LEMMA DealtToThree ==
  ASSUME NEW t \in TableState, BetsBounded(t), ~HandActive(t),
         Cardinality(Playable(t)) >= 2,
         NEW a \in Playable(t), NEW b \in Playable(t), NEW c \in Playable(t),
         a # b, b # c, a # c
  PROVE  \A u \in StartHand(t) : HandActive(u)
  <1>1. PICK p \in TableState, big \in Seats, small \in Seats :
          /\ HandActive(p) /\ StartHand(t) = PassTurn(p, big)
          /\ Playable(t) \ {small, big} \subseteq NeedsAction(p)
    BY StartHandDeals
  <1>2. NeedsAction(p) # {}
    BY <1>1
  <1> DEFINE n == NextIn(NeedsAction(p), big)
             turn == SetActing(p, n)
  <1>3. n \in Seats /\ n # NoSeat
    <2>1. NeedsAction(p) \in SUBSET Seats
      BY DEF NeedsAction, Actionable, Contesting
    <2>2. n \in NeedsAction(p)
      BY <1>2, <2>1, NextInType
    <2> QED BY <2>1, <2>2 DEF Seats, NoSeat
  <1> HIDE DEF n
  <1>4. turn.acting = n /\ turn.street = p.street
    BY DEF SetActing, TableState
  <1>5. PassTurn(p, big) = {turn}
    BY <1>3, <1>4 DEF PassTurn, n
  <1> HIDE DEF turn
  <1>6. HandActive(turn)
    BY <1>1, <1>4 DEF HandActive
  <1> QED BY <1>1, <1>5, <1>6

\* So nobody who was voting is left with a table where the hand is over again.
LEMMA DealingEndsVote ==
  ASSUME IInv, NEW v, VoteOpen(v), VoteFits(v, table), NEW u \in Users, ReadyAndDeal(u)
  PROVE  HandActive(table')
  <1>1. /\ Marked(u) \in TableState /\ BetsBounded(Marked(u)) /\ ~HandActive(Marked(u))
        /\ Playable(Marked(u)) = Playable(table)
    BY MarkedSound DEF ReadyAndDeal, CanReady, Sound, HandActive, Playable
  <1>2. PICK x, y \in v.voters : x # y
    BY TwoVoters
  <1>3. PICK a \in Playable(table) : table.user[a] = x
    BY <1>2 DEF VoteFits
  <1>4. PICK b \in Playable(table) : table.user[b] = y
    BY <1>2 DEF VoteFits
  <1>5. PICK c \in Playable(table) : table.user[c] = v.target
    BY DEF VoteFits
  <1>6. x # v.target /\ y # v.target
    BY <1>2 DEF VoteFits
  <1>7. a # b /\ b # c /\ a # c
    BY <1>2, <1>3, <1>4, <1>5, <1>6
  <1>8. Cardinality(Playable(Marked(u))) >= 2 /\ table' \in StartHand(Marked(u))
    BY <1>1 DEF ReadyAndDeal, CanReady
  <1> QED BY <1>1, <1>7, <1>8, DealtToThree

-----------------------------------------------------------------------------
(* Counting *)

\* Whoever is removed by a count is its target, who leaves between hands.
LEMMA CountKeeps ==
  ASSUME VInv, NEW v, Ballots(v), failedSaves = 0 => VoteFits(v, table), Count(v)
  PROVE  /\ VInv'
         /\ \A u \in barred' \ barred : u = v.target /\ Carried(v) /\ ~HandActive(table)
  <1>1. v.target \in Users
    BY DEF Ballots
  <1>2. CASE Carried(v)
    <2>1. vote' = NoVote /\ CashOutTarget(v.target)
      BY <1>2 DEF Count
    <2>2. [Next]_vars /\ failedSaves' \in Nat
      BY <1>1, <2>1 DEF CashOutTarget, Next, VInv
    <2>3. IInv'
      BY <2>2, NextIInv DEF VInv
    <2>4. \A u \in barred' \ barred : u = v.target /\ ~HandActive(table)
      BY <2>1 DEF CashOutTarget, Leave
    <2> QED BY <1>2, <2>1, <2>2, <2>3, <2>4 DEF VInv
  <1>3. CASE ~Carried(v)
    <2>1. vote' = NoVote \/ vote' = v
      BY <1>3 DEF Count
    <2>2. UNCHANGED <<vars, barred, failedSaves>>
      BY <1>3 DEF Count
    <2>3. IInv' /\ table' = table
      BY <2>2, NextIInv DEF VInv, vars
    <2>4. VoteOpen(v)
      BY <1>3 DEF VoteOpen
    <2> QED BY <2>1, <2>2, <2>3, <2>4 DEF VInv
  <1> QED BY <1>2, <1>3

\* The ballots of a new vote are in order, and it is about the table.
LEMMA NewBallots ==
  ASSUME IInv, NEW u \in Users, NEW target \in Users, u # target,
         {u, target} \subseteq Funded, ~HandActive(table), ~IsReady(target)
  PROVE  LET v == [target |-> target, voters |-> Funded \ {target}, yes |-> {u}, no |-> {}]
         IN  Ballots(v) /\ VoteFits(v, table)
  <1> DEFINE v == [target |-> target, voters |-> Funded \ {target}, yes |-> {u}, no |-> {}]
  <1>1. IsFiniteSet(Funded)
    BY FundedFinite DEF Funded, UserIn
  <1>2. IsFiniteSet(Funded \ {target})
    BY <1>1, FS_Subset
  <1>3. Funded \subseteq Users \cup {NoUser}
    BY DEF Funded, UserIn, Playable, IInv, TypeOK, TableState
  <1>4. Ballots(v)
    BY <1>2, <1>3 DEF Ballots
  <1>5. VoteFits(v, table)
    BY DEF VoteFits, Funded, UserIn, IsReady
  <1> QED BY <1>4, <1>5

\* So are the ballots after one more voice, for or against.
LEMMA MoreBallots ==
  ASSUME NEW v, Ballots(v), NEW u \in Users, u \in v.voters \ (v.yes \cup v.no)
  PROVE  LET aye == [v EXCEPT !.yes = v.yes \cup {u}]
             nay == [v EXCEPT !.no = v.no \cup {u}]
         IN  /\ Ballots(aye) /\ Ballots(nay)
             /\ aye.target = v.target /\ aye.voters = v.voters /\ aye.yes = v.yes \cup {u}
             /\ nay.target = v.target /\ nay.voters = v.voters /\ nay.yes = v.yes
  BY DEF Ballots

\* Asking for somebody's removal opens a vote that fits the table.
LEMMA StartKeeps ==
  ASSUME VInv, NEW u \in Users, NEW target \in Users, StartVote(u, target)
  PROVE  /\ VInv'
         /\ \A w \in barred' \ barred :
              /\ vote = NoVote /\ w = target /\ ~HandActive(table) /\ ~IsReady(target)
              /\ 2 * 1 > Cardinality(Funded \ {target})
  <1> DEFINE v == [target |-> target, voters |-> Funded \ {target}, yes |-> {u}, no |-> {}]
  <1>1. /\ vote = NoVote /\ ~HandActive(table) /\ u # target
        /\ {u, target} \subseteq Funded /\ ~IsReady(target) /\ Count(v)
    BY DEF StartVote
  <1>2. Ballots(v) /\ VoteFits(v, table)
    BY <1>1, NewBallots DEF VInv
  <1>3. v.target = target /\ v.yes = {u} /\ v.voters = Funded \ {target}
    OBVIOUS
  <1> HIDE DEF v
  <1>4. VInv' /\ \A w \in barred' \ barred : w = v.target /\ Carried(v) /\ ~HandActive(table)
    BY <1>1, <1>2, CountKeeps
  <1>5. Carried(v) => 2 * 1 > Cardinality(Funded \ {target})
    <2>1. Cardinality({u}) = 1
      BY FS_Singleton
    <2>2. Cardinality(v.voters) \in Nat
      BY <1>2, FS_CardinalityType DEF Ballots
    <2>3. Carried(v) => 1 >= Cardinality(v.voters) \div 2 + 1
      BY <1>3, <2>1 DEF Carried, Required
    <2> QED BY <1>3, <2>2, <2>3, MoreThanHalf
  <1> QED BY <1>1, <1>3, <1>4, <1>5

\* A voice more decides the vote, or leaves it open; only a voice for it decides
\* that the target has to go.
LEMMA CastKeeps ==
  ASSUME VInv, NEW u \in Users, NEW approve \in BOOLEAN, CastVote(u, approve)
  PROVE  /\ VInv'
         /\ \A w \in barred' \ barred :
              /\ vote # NoVote /\ w = vote.target /\ ~HandActive(table)
              /\ 2 * (Cardinality(vote.yes) + 1) > Cardinality(vote.voters)
  <1> DEFINE aye == [vote EXCEPT !.yes = vote.yes \cup {u}]
             nay == [vote EXCEPT !.no = vote.no \cup {u}]
  <1>1. /\ vote # NoVote /\ u \in vote.voters \ (vote.yes \cup vote.no)
        /\ Count(aye) \/ Count(nay)
    BY DEF CastVote
  <1>2. VoteOpen(vote) /\ (failedSaves = 0 => VoteFits(vote, table))
    BY <1>1 DEF VInv
  <1>3. /\ Ballots(aye) /\ Ballots(nay)
        /\ aye.target = vote.target /\ aye.voters = vote.voters /\ aye.yes = vote.yes \cup {u}
        /\ nay.target = vote.target /\ nay.voters = vote.voters /\ nay.yes = vote.yes
    BY <1>1, <1>2, MoreBallots DEF VoteOpen
  <1> HIDE DEF aye, nay
  <1>4. failedSaves = 0 => VoteFits(aye, table) /\ VoteFits(nay, table)
    BY <1>2, <1>3 DEF VoteFits
  <1>5. ~Carried(nay)
    BY <1>2, <1>3 DEF VoteOpen, Carried, Required
  <1>6. Carried(aye) => 2 * (Cardinality(vote.yes) + 1) > Cardinality(vote.voters)
    <2>1. IsFiniteSet(vote.voters) /\ vote.yes \subseteq vote.voters /\ u \notin vote.yes
      BY <1>1, <1>2 DEF VoteOpen, Ballots
    <2>2. IsFiniteSet(vote.yes)
      BY <2>1, FS_Subset
    <2>3. Cardinality(aye.yes) = Cardinality(vote.yes) + 1
      BY <1>3, <2>1, <2>2, FS_AddElement
    <2>4. Cardinality(vote.voters) \in Nat /\ Cardinality(vote.yes) + 1 \in Nat
      BY <2>1, <2>2, FS_CardinalityType
    <2>5. Carried(aye) => Cardinality(vote.yes) + 1 >= Cardinality(vote.voters) \div 2 + 1
      BY <1>3, <2>3 DEF Carried, Required
    <2> QED BY <2>4, <2>5, MoreThanHalf
  <1>7. CASE Count(aye)
    BY <1>1, <1>3, <1>4, <1>6, <1>7, CountKeeps
  <1>8. CASE Count(nay)
    BY <1>1, <1>3, <1>4, <1>5, <1>8, CountKeeps
  <1> QED BY <1>1, <1>7, <1>8

-----------------------------------------------------------------------------
(* What moves the table *)

\* A handler whose save failed leaves the vote behind; the rest of them end it
\* or leave a table it still fits.
LEMMA HandlerKeeps ==
  ASSUME VInv, [Next]_vars,
         \/ vote' = NoVote /\ failedSaves' = failedSaves
         \/ SaveFails
         \/ /\ UNCHANGED <<vote, failedSaves>>
            /\ vote # NoVote /\ failedSaves = 0 => VoteFits(vote, table')
  PROVE  VInv'
  <1>1. IInv'
    BY NextIInv DEF VInv
  <1>2. SaveFails => failedSaves' # 0 /\ failedSaves' \in Nat /\ vote' = vote
    BY DEF SaveFails, VInv
  <1> QED BY <1>1, <1>2 DEF VInv

\* Nobody sits down during a vote.
LEMMA JoinTableKeeps ==
  ASSUME VInv, NEW u \in Users, NEW b \in BuyIns, JoinTable(u, b)
  PROVE  VInv' /\ barred' = barred
  <1>1. [Next]_vars /\ vote = NoVote /\ UNCHANGED voteVars
    BY DEF JoinTable, Next
  <1> QED BY <1>1, HandlerKeeps DEF voteVars

\* Whoever leaves ends the vote, unless the save fails.
LEMMA LeaveTableKeeps ==
  ASSUME VInv, NEW u \in Users, LeaveTable(u)
  PROVE  VInv' /\ barred' = barred
  <1>1. /\ [Next]_vars /\ barred' = barred
        /\ (vote' = NoVote /\ failedSaves' = failedSaves) \/ SaveFails
    BY DEF LeaveTable, Next
  <1> QED BY <1>1, HandlerKeeps

\* A mark that is set or taken away leaves the funded players alone.
LEMMA MarksKeepVote ==
  ASSUME NEW v, NEW t \in TableState, VoteFits(v, t), NEW ready,
         NEW w, w = [t EXCEPT !.ready = ready],
         \A s \in SeatOf(w, v.target) : ~w.ready[s]
  PROVE  VoteFits(v, w)
  <1>1. w.user = t.user /\ w.stack = t.stack /\ w.street = t.street
    BY DEF TableState
  <1>2. Playable(w) = Playable(t) /\ (HandActive(w) <=> HandActive(t))
    BY <1>1 DEF Playable, HandActive
  <1> QED BY <1>1, <1>2 DEF VoteFits

\* Whoever gets ready ends the vote by a deal or as its target, or leaves it as it was.
LEMMA ReadyAtTableKeeps ==
  ASSUME VInv, NEW u \in Users, ReadyAtTable(u)
  PROVE  VInv' /\ barred' = barred
  <1>1. [Next]_vars /\ barred' = barred
    BY DEF ReadyAtTable, Next
  <1> DEFINE Ends == NoMoreToVote(table', vote.target)
  <1>2. CASE SaveFails
    BY <1>1, <1>2, HandlerKeeps
  <1>3. CASE failedSaves' = failedSaves /\ vote' = IF vote # NoVote /\ Ends THEN NoVote ELSE vote
    <2>1. CASE vote = NoVote \/ Ends
      BY <1>1, <1>3, <2>1, HandlerKeeps
    <2>2. CASE vote # NoVote /\ ~Ends
      <3>1. ASSUME failedSaves = 0
            PROVE  VoteFits(vote, table')
        <4>1. VoteOpen(vote) /\ VoteFits(vote, table) /\ table \in TableState /\ IInv
          BY <2>2, <3>1 DEF VInv, IInv, TypeOK
        <4>2. ~ReadyAndDeal(u)
          BY <2>2, <4>1, DealingEndsVote DEF NoMoreToVote
        <4>3. table' = [table EXCEPT
                !.ready = [s \in Seats |-> table.ready[s] \/ s \in SeatOf(table, u)]]
          BY <4>2 DEF ReadyAtTable, Ready, Marked
        <4>4. \A s \in SeatOf(table', vote.target) : ~table'.ready[s]
          BY <2>2 DEF NoMoreToVote
        <4> QED BY <4>1, <4>3, <4>4, MarksKeepVote
      <3>2. UNCHANGED <<vote, failedSaves>>
        BY <1>3, <2>2
      <3> QED BY <1>1, <3>1, <3>2, HandlerKeeps
    <2> QED BY <2>1, <2>2
  <1> QED BY <1>2, <1>3 DEF ReadyAtTable

\* During a vote nobody has a turn; a deal that fails takes marks away only.
LEMMA PlayKeeps ==
  ASSUME VInv, Play
  PROVE  VInv' /\ barred' = barred
  <1>1. [Next]_vars
    BY DEF Play, Next
  <1>2. UNCHANGED <<vote, failedSaves>> /\ barred' = barred
    BY DEF Play, voteVars
  <1>3. ASSUME vote # NoVote, failedSaves = 0
        PROVE  VoteFits(vote, table')
    <2>1. VoteFits(vote, table) /\ ~HandActive(table) /\ table \in TableState
      BY <1>3 DEF VInv, VoteFits, IInv, TypeOK
    <2>2. PICK u \in Users : ReadyWithoutShuffle(u)
      BY <2>1 DEF Play, Fold, Check, Call, AllIn, Bet, Raise, MayAct, DeadlinePasses, Timeout
    <2> DEFINE ready == [s \in Seats |-> table.ready[s] /\ s \notin SeatOf(table, u)]
    <2>3. table' = [table EXCEPT !.ready = ready]
      BY <2>2 DEF ReadyWithoutShuffle
    <2>4. table'.ready = ready /\ table'.user = table.user
      BY <2>1, <2>3 DEF TableState
    <2>5. \A s \in SeatOf(table', vote.target) : ~table'.ready[s]
      BY <2>1, <2>4 DEF SeatOf, VoteFits
    <2> HIDE DEF ready
    <2> QED BY <2>1, <2>3, <2>5, MarksKeepVote
  <1> QED BY <1>1, <1>2, <1>3, HandlerKeeps

\* Every step keeps the invariant; only two of them bar anybody.
LEMMA VoteKeeps ==
  ASSUME VInv, VoteNext \/ UNCHANGED votingVars
  PROVE  /\ VInv'
         /\ \/ barred' \ barred = {}
            \/ \E u, target \in Users : StartVote(u, target)
            \/ \E u \in Users, approve \in BOOLEAN : CastVote(u, approve)
  <1>1. CASE \E u \in Users, b \in BuyIns : JoinTable(u, b)
    BY <1>1, JoinTableKeeps
  <1>2. CASE \E u \in Users : LeaveTable(u)
    BY <1>2, LeaveTableKeeps
  <1>3. CASE \E u \in Users : ReadyAtTable(u)
    BY <1>3, ReadyAtTableKeeps
  <1>4. CASE Play
    BY <1>4, PlayKeeps
  <1>5. CASE \E u \in Users : BarEnds(u)
    <2>1. [Next]_vars /\ barred' \ barred = {} /\ UNCHANGED <<vote, failedSaves>> /\ table' = table
      BY <1>5 DEF BarEnds, vars
    <2>2. vote # NoVote /\ failedSaves = 0 => VoteFits(vote, table')
      BY <2>1 DEF VInv
    <2> QED BY <2>1, <2>2, HandlerKeeps
  <1>6. CASE VoteExpires
    <2>1. [Next]_vars /\ barred' = barred /\ vote' = NoVote /\ failedSaves' = failedSaves
      BY <1>6 DEF VoteExpires
    <2> QED BY <2>1, HandlerKeeps
  <1>7. CASE UNCHANGED votingVars
    <2>1. /\ [Next]_vars /\ barred' = barred /\ UNCHANGED <<vote, failedSaves>>
          /\ table' = table
      BY <1>7 DEF votingVars, voteVars, vars
    <2>2. vote # NoVote /\ failedSaves = 0 => VoteFits(vote, table')
      BY <2>1 DEF VInv
    <2> QED BY <2>1, <2>2, HandlerKeeps
  <1>8. CASE \E u, target \in Users : StartVote(u, target)
    BY <1>8, StartKeeps
  <1>9. CASE \E u \in Users, approve \in BOOLEAN : CastVote(u, approve)
    BY <1>9, CastKeeps
  <1> QED
    BY <1>1, <1>2, <1>3, <1>4, <1>5, <1>6, <1>7, <1>8, <1>9 DEF VoteNext

-----------------------------------------------------------------------------
(* Theorems about the vote *)

\* Whoever joins, leaves, gets ready, plays or votes, and whichever saves fail,
\* the table is sound and the vote open and, while nothing failed, about it.
THEOREM VotesAreSound == VoteSpec => []VInv
  <1>1. VoteInit => VInv
    BY InitIInv DEF VoteInit, VInv
  <1>2. VInv /\ [VoteNext]_votingVars => VInv'
    BY VoteKeeps
  <1> QED BY <1>1, <1>2, PTL DEF VoteSpec

\* A running vote is about the table as it is: its voters are the funded
\* players but the target, who is not ready, and no hand is played (the vote
\* is ended by the handlers of table_handlers.go that would make it stale).
THEOREM VotesFitTheTable == VoteSpec => []VoteIsAboutTheTable
  <1>1. VInv => VoteIsAboutTheTable
    <2> SUFFICES ASSUME VInv, vote # NoVote, failedSaves = 0 PROVE VoteIsAboutTheTable
      BY DEF VoteIsAboutTheTable
    <2>1. VoteFits(vote, table) /\ Ballots(vote)
      BY DEF VInv, VoteOpen
    <2> QED BY <2>1 DEF VoteFits, Ballots, VoteIsAboutTheTable, Funded, UserIn, IsReady
  <1> QED BY <1>1, VotesAreSound, PTL

\* Nobody is removed but by more than half of the other funded players, and
\* never in a hand (handleTableKickVote and cashOutPlayerLocked).
THEOREM RemovalTakesAMajority == VoteSpec => RemovedByMajority
  <1> DEFINE Majority ==
        \A u \in barred' \ barred :
          /\ ~HandActive(table)
          /\ failedSaves = 0 =>
               /\ ~IsReady(u)
               /\ LET others == Funded \ {u}
                      yes    == IF vote = NoVote THEN 1 ELSE Cardinality(vote.yes) + 1
                  IN  2 * yes > Cardinality(others)
  <1>1. ASSUME VInv, [VoteNext]_votingVars
        PROVE  Majority
    <2>1. CASE barred' \ barred = {}
      BY <2>1
    <2>2. ASSUME NEW u \in Users, NEW target \in Users, StartVote(u, target)
          PROVE  Majority
      BY <1>1, <2>2, StartKeeps
    <2>3. ASSUME NEW u \in Users, NEW approve \in BOOLEAN, CastVote(u, approve)
          PROVE  Majority
      <3>1. \A w \in barred' \ barred :
              /\ vote # NoVote /\ w = vote.target /\ ~HandActive(table)
              /\ 2 * (Cardinality(vote.yes) + 1) > Cardinality(vote.voters)
        BY <1>1, <2>3, CastKeeps
      <3>2. vote # NoVote /\ failedSaves = 0
              => vote.voters = Funded \ {vote.target} /\ ~IsReady(vote.target)
        BY <1>1 DEF VInv, VoteFits, Funded, UserIn, IsReady
      <3> QED BY <3>1, <3>2
    <2> QED BY <1>1, <2>1, <2>2, <2>3, VoteKeeps
  <1>2. VInv /\ [VoteNext]_votingVars => [Majority]_votingVars
    BY <1>1
  <1> HIDE DEF Majority
  <1>3. VoteSpec => [][Majority]_votingVars
    BY <1>2, VotesAreSound, PTL DEF VoteSpec
  <1> QED BY <1>3, PTL DEF Majority, RemovedByMajority

-----------------------------------------------------------------------------
(* What the screen relies on *)

\* In a hand the least raise is never nothing.
Fresh(t) == HandActive(t) => t.minRaise > 0

SceneInv == GInv /\ VInv /\ Fresh(table)

\* What comes of a hand leaves it fresh, or ends it.
LEMMA OutcomeFresh ==
  ASSUME NEW t, NEW u, Outcome(t, u), t.minRaise > 0
  PROVE  Fresh(u)
  <1>1. BigBlind > 0
    BY HoldemAssumption
  <1>2. CASE HandGoesOn(t, u)
    BY <1>1, <1>2 DEF HandGoesOn, SameHand, SameBets, NewBets, Fresh
  <1>3. CASE EndsHand(t, u)
    BY <1>3 DEF EndsHand, Settled, HandActive, BettingStreets, Fresh
  <1> QED BY <1>2, <1>3 DEF Outcome

\* Every step leaves the table fresh.
LEMMA FreshKept ==
  ASSUME IInv, Fresh(table), [Next]_vars
  PROVE  Fresh(table')
  <1>1. CASE \/ \E s \in Seats, u \in Users, b \in BuyIns : Sits(s, u, b)
             \/ \E s \in Seats : Rises(s)
             \/ Marks \/ UNCHANGED vars
    BY <1>1 DEF Sits, Rises, Marks, SamePlay, Fresh, HandActive, vars
  <1>2. ASSUME NEW p \in TableState, Deals(p)
        PROVE  Fresh(table')
    <2>1. p.minRaise > 0
      BY <1>2, HoldemAssumption DEF Deals, Dealt
    <2> QED BY <1>2, <2>1, OutcomeFresh DEF Deals
  <1>3. ASSUME NEW s \in Seats, NEW m \in TableState, Plays(s, m)
        PROVE  Fresh(table')
    <2>1. table.minRaise > 0 /\ Acts(table, m, s)
      BY <1>3 DEF Plays, Fresh
    <2>2. m.currentBet \in Nat /\ table.currentBet \in Nat
      BY DEF IInv, TypeOK, TableState
    <2>3. m.minRaise > 0
      BY <2>1, <2>2 DEF Acts, SameTable
    <2> QED BY <1>3, <2>3, OutcomeFresh DEF Plays
  <1> QED BY <1>1, <1>2, <1>3, StepKinds

\* A vote moves the table as the table can.
LEMMA VoteMovesTable ==
  ASSUME VInv, [VoteNext]_votingVars
  PROVE  [Next]_vars
  <1>1. ASSUME NEW v, Ballots(v), Count(v)
        PROVE  [Next]_vars
    BY <1>1 DEF Count, CashOutTarget, Ballots, Next
  <1>2. CASE \E u, target \in Users : StartVote(u, target)
    <2>1. PICK u \in Users, target \in Users : StartVote(u, target)
      BY <1>2
    <2> DEFINE v == [target |-> target, voters |-> Funded \ {target}, yes |-> {u}, no |-> {}]
    <2>2. Ballots(v)
      BY <2>1, NewBallots DEF VInv, StartVote
    <2>3. Count(v)
      BY <2>1 DEF StartVote
    <2> HIDE DEF v
    <2> QED BY <1>1, <2>2, <2>3
  <1>3. CASE \E u \in Users, approve \in BOOLEAN : CastVote(u, approve)
    <2>1. PICK u \in Users, approve \in BOOLEAN : CastVote(u, approve)
      BY <1>3
    <2> DEFINE aye == [vote EXCEPT !.yes = vote.yes \cup {u}]
               nay == [vote EXCEPT !.no = vote.no \cup {u}]
    <2>2. Ballots(aye) /\ Ballots(nay)
      BY <2>1, MoreBallots DEF VInv, VoteOpen, CastVote
    <2>3. Count(aye) \/ Count(nay)
      BY <2>1 DEF CastVote
    <2> HIDE DEF aye, nay
    <2> QED BY <1>1, <2>2, <2>3
  <1>4. CASE \/ \E u \in Users, b \in BuyIns : JoinTable(u, b)
             \/ \E u \in Users : LeaveTable(u) \/ ReadyAtTable(u) \/ BarEnds(u)
             \/ VoteExpires \/ Play \/ UNCHANGED votingVars
    BY <1>4 DEF JoinTable, LeaveTable, ReadyAtTable, BarEnds, VoteExpires, Play, Next,
                votingVars
  <1> QED BY <1>2, <1>3, <1>4 DEF VoteNext

\* The screen's table is always as the screen expects it.
LEMMA SceneInvariant == VoteSpec => []SceneInv
  <1>1. VoteInit => SceneInv
    <2>1. NewTable.street = "waiting"
      BY DEF NewTable
    <2>2. Init => Fresh(table)
      BY <2>1 DEF Init, Fresh, HandActive, BettingStreets
    <2> QED BY <2>2, InitGInv, InitIInv DEF VoteInit, VInv, SceneInv
  <1>2. SceneInv /\ [VoteNext]_votingVars => SceneInv'
    <2> SUFFICES ASSUME SceneInv, [VoteNext]_votingVars PROVE SceneInv'
      OBVIOUS
    <2>1. GInv /\ VInv /\ Fresh(table) /\ IInv
      BY DEF SceneInv, VInv
    <2>2. [Next]_vars
      BY <2>1, VoteMovesTable
    <2>3. GInv' /\ VInv' /\ Fresh(table')
      BY <2>1, <2>2, NextGInv, VoteKeeps, FreshKept
    <2> QED BY <2>3 DEF SceneInv, Fresh, HandActive
  <1> QED BY <1>1, <1>2, PTL DEF VoteSpec

-----------------------------------------------------------------------------
(* What the snapshot offers *)

\* The greatest raise is the seat's own maximum, or what an opponent can match.
LEMMA MaxRaiseToReach ==
  ASSUME NEW t \in TableState, NEW s \in Seats, \E o \in Contesting(t) : o # s
  PROVE  /\ MaxRaiseTo(t, s) \in Nat /\ MaxRaiseTo(t, s) <= Maximum(t, s)
         /\ \A n \in Nat : n <= MaxRaiseTo(t, s)
                             <=> n <= Maximum(t, s) /\ Matchable(t, s, n)
  <1> DEFINE O == Contesting(t) \ {s}
             M(o) == Maximum(t, o)
             C == {0} \cup {M(o) : o \in O}
             m == CHOOSE m \in C : \A o \in O : M(o) <= m
  <1>1. O \in SUBSET Seats /\ O # {}
    BY DEF Contesting
  <1>2. \A o \in Seats : M(o) \in Nat
    BY DEF Maximum, TableState
  <1>3. PICK b \in O : \A o \in O : M(o) <= M(b)
    <2> DEFINE f == [o \in Seats |-> M(o)]
    <2>1. f \in [Seats -> Nat]
      BY <1>2
    <2>2. \E b \in O : \A o \in O : f[o] <= f[b]
      <3> HIDE DEF f, O
      <3> QED BY <1>1, <2>1, SeatMax
    <2> QED BY <1>1, <2>2
  <1> HIDE DEF M
  <1>4. m \in C /\ \A o \in O : M(o) <= m
    BY <1>3
  <1> HIDE DEF m
  <1>5. m = M(b)
    BY <1>1, <1>2, <1>3, <1>4
  <1>6. MaxRaiseTo(t, s) = Smaller(Maximum(t, s), m)
    BY DEF MaxRaiseTo, m, M
  <1>7. Maximum(t, s) \in Nat /\ M(b) \in Nat
    BY <1>1, <1>2 DEF M
  <1>8. \A n \in Nat : Matchable(t, s, n) <=> n <= m
    <2> TAKE n \in Nat
    <2>1. Matchable(t, s, n) <=> \E o \in O : n <= M(o)
      BY DEF Matchable, M
    <2> QED BY <1>1, <1>2, <1>3, <1>5, <2>1
  <1> HIDE DEF O, C
  <1> QED BY <1>5, <1>6, <1>7, <1>8 DEF Smaller

\* The seat with the turn, its greatest and least raise and its turn to raise.
LEMMA OffersExact ==
  ASSUME IInv, Fresh(table), HandActive(table), NEW s, s = table.acting
  PROVE  LET a == AllowedActions(table, s)
         IN  /\ s \in Seats
             /\ a.canCheck <=> ToCall(table, s) = 0
             /\ a.canCall <=> ToCall(table, s) # 0
             /\ a.canAllIn <=> AllInAccepted(table, s)
             /\ a.canBet => table.currentBet = 0
             /\ a.canRaise => table.currentBet # 0
             /\ a.canBet \/ a.canRaise =>
                  /\ a.minRaiseTo \in Nat \ {0} /\ a.maxRaiseTo \in Nat
                  /\ a.minRaiseTo <= a.maxRaiseTo
                  /\ \A n \in a.minRaiseTo..a.maxRaiseTo : RaiseAccepted(table, s, n)
             /\ \A n \in Nat : RaiseAccepted(table, s, n) =>
                  IF table.currentBet = 0 THEN a.canBet ELSE a.canRaise
  <1> DEFINE a == AllowedActions(table, s)
             maximum == Maximum(table, s)
             most == MaxRaiseTo(table, s)
             bet == table.currentBet
             least == IF bet = 0 THEN BigBlind ELSE bet + table.minRaise
  <1>1. /\ table \in TableState /\ s \in NeedsAction(table)
        /\ \E o \in Contesting(table) : o # s
    BY DEF IInv, TypeOK, Sound, TurnPlayable
  <1>2. s \in Seats
    BY <1>1 DEF NeedsAction, Actionable, Contesting
  <1>3. /\ bet \in Nat /\ maximum \in Nat /\ table.bet[s] \in Nat /\ table.stack[s] \in Nat
        /\ table.minRaise \in Nat \ {0} /\ BigBlind \in Nat \ {0}
        /\ ToCall(table, s) \in Nat
    BY <1>1, <1>2, HoldemAssumption DEF TableState, Maximum, Fresh, ToCall, Larger
  <1>4. /\ most \in Nat /\ most <= maximum
        /\ \A n \in Nat : n <= most <=> n <= maximum /\ Matchable(table, s, n)
    BY <1>1, <1>2, MaxRaiseToReach
  <1>5. bet = 0 => RaiseReopened(table, s)
    <2>1. table.bet[s] <= bet
      BY <1>2 DEF IInv, Sound, BetsBounded
    <2> QED BY <1>1, <1>3, <2>1 DEF NeedsAction, RaiseReopened
  <1>6. MinimumRaise(table) = IF bet = 0 THEN BigBlind ELSE table.minRaise
    BY DEF MinimumRaise
  <1>7. /\ a.canCheck <=> ToCall(table, s) = 0
        /\ a.canCall <=> ToCall(table, s) > 0
        /\ a.canBet <=> bet = 0 /\ most > 0 /\ (most >= BigBlind \/ most = maximum)
        /\ a.canRaise <=> /\ bet > 0 /\ most > bet /\ RaiseReopened(table, s)
                          /\ most - bet >= table.minRaise \/ most = maximum
        /\ a.canAllIn <=> /\ table.stack[s] > 0
                          /\ maximum <= bet \/ (maximum <= most /\ RaiseReopened(table, s))
        /\ a.minRaiseTo = Smaller(least, most) /\ a.maxRaiseTo = most
    BY DEF AllowedActions
  <1>8. \A n \in Nat : RaiseAccepted(table, s, n) <=>
          /\ n > bet /\ n <= most /\ RaiseReopened(table, s)
          /\ n - bet >= MinimumRaise(table) \/ n = maximum
    BY <1>4 DEF RaiseAccepted
  <1>9. AllInAccepted(table, s) <=>
          /\ table.stack[s] > 0
          /\ maximum <= bet \/ RaiseAccepted(table, s, maximum)
    BY DEF AllInAccepted
  <1> HIDE DEF a, maximum, most, bet
  <1>10. least \in Nat /\ least = bet + MinimumRaise(table) /\ least > bet
    BY <1>3, <1>6
  <1>11. MinimumRaise(table) \in Nat \ {0}
    BY <1>3, <1>6
  <1>12. ASSUME a.canBet \/ a.canRaise
         PROVE  /\ most > bet /\ RaiseReopened(table, s)
                /\ most >= least \/ most = maximum
    BY <1>3, <1>4, <1>5, <1>6, <1>7, <1>12, <1>10
  <1> HIDE DEF least
  <1>13. ASSUME a.canBet \/ a.canRaise
         PROVE  /\ a.minRaiseTo \in Nat \ {0} /\ a.maxRaiseTo \in Nat
                /\ a.minRaiseTo <= a.maxRaiseTo
                /\ \A n \in a.minRaiseTo..a.maxRaiseTo : RaiseAccepted(table, s, n)
    <2>1. /\ a.minRaiseTo \in Nat /\ a.minRaiseTo > bet /\ a.minRaiseTo <= most
          /\ a.minRaiseTo = least \/ a.minRaiseTo = most
      BY <1>3, <1>4, <1>7, <1>10, <1>12, <1>13 DEF Smaller
    <2>2. ASSUME NEW n \in a.minRaiseTo..most
          PROVE  RaiseAccepted(table, s, n)
      <3>1. n \in Nat /\ n > bet /\ n <= most
        BY <1>3, <1>4, <2>1
      <3>2. n >= least \/ n = maximum
        BY <1>3, <1>4, <1>10, <1>12, <1>13, <2>1, <3>1
      <3>3. n - bet >= MinimumRaise(table) \/ n = maximum
        BY <1>3, <1>10, <1>11, <3>1, <3>2
      <3> QED BY <1>8, <1>12, <1>13, <3>1, <3>3
    <2> QED BY <1>3, <1>4, <1>7, <2>1, <2>2
  <1>14. ASSUME NEW n \in Nat, RaiseAccepted(table, s, n)
         PROVE  IF bet = 0 THEN a.canBet ELSE a.canRaise
    <2>1. /\ n > bet /\ n <= most /\ RaiseReopened(table, s)
          /\ n - bet >= MinimumRaise(table) \/ n = maximum
      BY <1>8, <1>14
    <2>2. most > bet /\ (most - bet >= MinimumRaise(table) \/ most = maximum)
      BY <1>3, <1>4, <1>11, <2>1
    <2>3. CASE bet = 0
      BY <1>3, <1>4, <1>6, <1>7, <2>1, <2>2, <2>3
    <2>4. CASE bet # 0
      <3>1. bet > 0 /\ (most - bet >= table.minRaise \/ most = maximum)
        BY <1>3, <1>6, <2>2, <2>4
      <3> QED BY <1>7, <2>1, <2>2, <2>4, <3>1
    <2> QED BY <2>3, <2>4
  <1>15. maximum > bet => (RaiseAccepted(table, s, maximum)
                              <=> maximum <= most /\ RaiseReopened(table, s))
    BY <1>3, <1>8
  <1>16. a.canAllIn <=> AllInAccepted(table, s)
    BY <1>3, <1>7, <1>9, <1>15
  <1>17. /\ a.canCheck <=> ToCall(table, s) = 0
         /\ a.canCall <=> ToCall(table, s) # 0
         /\ a.canBet => bet = 0
         /\ a.canRaise => bet # 0
    BY <1>3, <1>7
  <1> QED BY <1>2, <1>13, <1>14, <1>16, <1>17 DEF a, bet

-----------------------------------------------------------------------------
(* Controls and handlers *)

\* What each handler asks.
LEMMA AcceptsWhat ==
  ASSUME NEW u, NEW r
  PROVE  LET s == ViewerSeat(u)
             plays == HandActive(table) /\ s = table.acting
         IN  /\ r.path = "leave" => (Accepts(u, r) <=> ~HandActive(table))
             /\ r.path = "ready" =>
                  (Accepts(u, r)
                     <=> ~HandActive(table) /\ u \in Funded /\ Cardinality(Funded) >= 2)
             /\ r.path = "start" =>
                  (Accepts(u, r) <=> /\ vote = NoVote /\ ~HandActive(table)
                                     /\ {u, r.target} \subseteq Funded /\ ~IsReady(r.target))
             /\ r.path \in {"approve", "reject"} => (Accepts(u, r) <=> CanVote(u))
             /\ r.path = "fold" => (Accepts(u, r) <=> plays)
             /\ r.path = "check" => (Accepts(u, r) <=> plays /\ ToCall(table, s) = 0)
             /\ r.path = "call" => (Accepts(u, r) <=> plays /\ ToCall(table, s) # 0)
             /\ r.path = "all_in" => (Accepts(u, r) <=> plays /\ AllInAccepted(table, s))
             /\ r.path = "bet" =>
                  (Accepts(u, r) <=> /\ plays /\ table.currentBet = 0
                                     /\ RaiseAccepted(table, s, r.amount))
             /\ r.path = "raise" =>
                  (Accepts(u, r) <=> /\ plays /\ table.currentBet # 0
                                     /\ RaiseAccepted(table, s, r.amount))
  <1> DEFINE s == ViewerSeat(u)
             J == vote = NoVote /\ u \notin barred /\ Occupied(table) # Seats
             L == ~HandActive(table)
             R == ~HandActive(table) /\ u \in Funded /\ Cardinality(Funded) >= 2
             S == /\ vote = NoVote /\ ~HandActive(table)
                  /\ {u, r.target} \subseteq Funded /\ ~IsReady(r.target)
             V == CanVote(u)
             K == ToCall(table, s) = 0
             C == ToCall(table, s) # 0
             A == AllInAccepted(table, s)
             B == table.currentBet = 0 /\ RaiseAccepted(table, s, r.amount)
             U == table.currentBet # 0 /\ RaiseAccepted(table, s, r.amount)
             P == HandActive(table) /\ s = table.acting
             Does == [join |-> J, leave |-> L, ready |-> R, start |-> S,
                      approve |-> V, reject |-> V]
             Plays_ == [fold |-> TRUE, check |-> K, call |-> C, all_in |-> A,
                        bet |-> B, raise |-> U]
  <1>1. Accepts(u, r) <=> IF r.path \in DOMAIN Does THEN Does[r.path]
                          ELSE HandActive(table) /\ s = table.acting /\ Plays_[r.path]
    BY DEF Accepts
  <1>2. Accepts(u, r) <=> IF r.path \in DOMAIN Does THEN Does[r.path]
                          ELSE P /\ Plays_[r.path]
    BY <1>1
  <1> HIDE DEF J, L, R, S, V, K, C, A, B, U, P
  <1>3. DOMAIN Does = {"join", "leave", "ready", "start", "approve", "reject"}
    OBVIOUS
  <1>4. /\ r.path = "leave" => (Accepts(u, r) <=> L)
        /\ r.path = "ready" => (Accepts(u, r) <=> R)
        /\ r.path = "start" => (Accepts(u, r) <=> S)
        /\ r.path \in {"approve", "reject"} => (Accepts(u, r) <=> V)
    BY <1>2, <1>3
  <1>5. /\ r.path = "fold" => (Accepts(u, r) <=> P)
        /\ r.path = "check" => (Accepts(u, r) <=> P /\ K)
        /\ r.path = "call" => (Accepts(u, r) <=> P /\ C)
        /\ r.path = "all_in" => (Accepts(u, r) <=> P /\ A)
        /\ r.path = "bet" => (Accepts(u, r) <=> P /\ B)
        /\ r.path = "raise" => (Accepts(u, r) <=> P /\ U)
    BY <1>2, <1>3
  <1> QED BY <1>4, <1>5 DEF L, R, S, V, K, C, A, B, U, P, s

\* Slider, quick bet and first proposal stay within what the snapshot allows.
LEMMA AmountsAllowed ==
  ASSUME table \in TableState, NEW a,
         a.minRaiseTo \in Nat \ {0}, a.maxRaiseTo \in Nat, a.minRaiseTo <= a.maxRaiseTo
  PROVE  Amounts(a) \subseteq a.minRaiseTo..a.maxRaiseTo /\ Amounts(a) # {}
  <1>1. FirstAmount(a) = a.minRaiseTo
    BY DEF FirstAmount
  <1>2. Pot \in Int /\ table.currentBet \in Nat
    BY SeatSumInt DEF Pot, TableState
  <1>3. ASSUME NEW q \in QuickBets
        PROVE  QuickAmount(a, q) \in a.minRaiseTo..a.maxRaiseTo
    <2> DEFINE n == table.currentBet + (2 * Pot * q[1] + q[2]) \div (2 * q[2])
    <2>1. n \in Int
      <3> HIDE DEF Pot
      <3>1. CASE q = <<1, 3>>
        BY <1>2, <3>1
      <3>2. CASE q = <<1, 2>>
        BY <1>2, <3>2
      <3>3. CASE q = <<3, 4>>
        BY <1>2, <3>3
      <3>4. CASE q = <<1, 1>>
        BY <1>2, <3>4
      <3> QED BY <3>1, <3>2, <3>3, <3>4 DEF QuickBets
    <2>2. QuickAmount(a, q) = Clamp(n, a.minRaiseTo, a.maxRaiseTo)
      BY DEF QuickAmount
    <2> HIDE DEF n
    <2> QED BY <2>1, <2>2 DEF Clamp, Larger, Smaller
  <1> QED BY <1>1, <1>3 DEF Amounts

\* While a vote is up to date, its target is one of two funded players or more.
LEMMA VoteAmongTwo ==
  ASSUME VInv, vote # NoVote, failedSaves = 0
  PROVE  /\ ~HandActive(table) /\ vote.target \in Funded
         /\ Cardinality(Funded) >= 2
  <1>1. VoteOpen(vote) /\ VoteFits(vote, table)
    BY DEF VInv
  <1>2. ~HandActive(table) /\ vote.target \in Funded /\ vote.voters = Funded \ {vote.target}
    BY <1>1 DEF VoteFits, Funded, UserIn
  <1>3. IsFiniteSet(Funded)
    BY FundedFinite DEF Funded, UserIn
  <1>4. PICK x, y \in vote.voters : x # y
    BY <1>1, TwoVoters
  <1>5. x \in Funded /\ y \in Funded
    BY <1>2, <1>4, FS_Singleton, FS_AddElement
  <1>6. Cardinality({x, y}) = 2
    <2>1. IsFiniteSet({x}) /\ Cardinality({x}) = 1
      BY FS_Singleton
    <2>2. Cardinality({x} \cup {y}) = 2 /\ {x, y} = {x} \cup {y}
      BY <1>4, <2>1, FS_AddElement, SMTT(30)
    <2> QED BY <2>2
  <1>7. Cardinality({x, y}) <= Cardinality(Funded)
    BY <1>3, <1>5, FS_Subset
  <1>8. Cardinality(Funded) \in Nat
    BY <1>3, FS_CardinalityType
  <1> QED BY <1>2, <1>6, <1>7, <1>8

\* Nothing that a control posts is refused.
LEMMA ControlsAccepted ==
  ASSUME SceneInv, failedSaves = 0, NEW u, NEW r \in Controls(u)
  PROVE  r.path = "join" \/ Accepts(u, r)
  <1>1. IInv /\ VInv /\ Fresh(table) /\ table \in TableState
    BY DEF SceneInv, VInv, IInv, TypeOK
  <1>2. CASE r \in JoinControls(u)
    BY <1>2 DEF JoinControls, If, PostAmounts, Post
  <1>3. CASE r \in KickControls(u)
    <2>1. PICK o \in Funded \ {u} : /\ CanStart(u) /\ vote = NoVote /\ ~IsReady(o)
                                    /\ r = [Post("start") EXCEPT !.target = o]
      BY <1>3 DEF KickControls, If
    <2>2. r.path = "start" /\ r.target = o
      BY <2>1 DEF Post
    <2>3. /\ vote = NoVote /\ ~HandActive(table)
          /\ {u, r.target} \subseteq Funded /\ ~IsReady(r.target)
      BY <2>1, <2>2 DEF CanStart
    <2>4. Accepts(u, r) <=> /\ vote = NoVote /\ ~HandActive(table)
                            /\ {u, r.target} \subseteq Funded /\ ~IsReady(r.target)
      BY <2>2, AcceptsWhat
    <2> QED BY <2>3, <2>4
  <1>4. CASE r \in DockControls(u)
    <2>1. CASE r = Post("leave") /\ CanLeave(u)
      BY <2>1, AcceptsWhat DEF Post, CanLeave
    <2>2. CASE r = Post("ready") /\ (IsTarget(u) \/ CanStart(u))
      BY <1>1, <2>2, AcceptsWhat, VoteAmongTwo DEF Post, IsTarget, CanStart
    <2>3. CASE r \in {Post("approve"), Post("reject")} /\ CanVote(u)
      BY <2>3, AcceptsWhat DEF Post
    <2>4. \/ r = Post("leave") /\ CanLeave(u)
          \/ r = Post("ready") /\ (IsTarget(u) \/ CanStart(u))
          \/ r \in {Post("approve"), Post("reject")} /\ CanVote(u)
      BY <1>4 DEF DockControls, LeaveAndReady, If
    <2> QED BY <2>1, <2>2, <2>3, <2>4
  <1>5. CASE r \in ActionControls(u)
    <2> DEFINE s == ViewerSeat(u)
               a == AllowedActions(table, s)
               N == a.minRaiseTo..a.maxRaiseTo
    <2>1. CanAct(u) /\ HandActive(table) /\ s = table.acting
      BY <1>5 DEF ActionControls, CanAct
    <2>2. \/ r = Post("fold")
          \/ r = Post("check") /\ a.canCheck
          \/ r = Post("call") /\ a.canCall
          \/ r = Post("all_in") /\ a.canAllIn
          \/ r \in PostAmounts("bet", Amounts(a)) /\ a.canBet
          \/ r \in PostAmounts("raise", Amounts(a)) /\ a.canRaise
      BY <1>5 DEF ActionControls, If, Allowed
    <2> HIDE DEF s
    <2>3. /\ a.canCheck <=> ToCall(table, s) = 0
          /\ a.canCall <=> ToCall(table, s) # 0
          /\ a.canAllIn <=> AllInAccepted(table, s)
          /\ a.canBet => table.currentBet = 0
          /\ a.canRaise => table.currentBet # 0
          /\ a.canBet \/ a.canRaise =>
               /\ a.minRaiseTo \in Nat \ {0} /\ a.maxRaiseTo \in Nat
               /\ a.minRaiseTo <= a.maxRaiseTo
               /\ \A n \in N : RaiseAccepted(table, s, n)
      BY <1>1, <2>1, OffersExact
    <2> HIDE DEF a
    <2>4. a.canBet \/ a.canRaise => \A n \in Amounts(a) : RaiseAccepted(table, s, n)
      BY <1>1, <2>3, AmountsAllowed
    <2>5. CASE r \in {Post("fold"), Post("check"), Post("call"), Post("all_in")}
      BY <2>1, <2>2, <2>3, <2>5, AcceptsWhat DEF Post, PostAmounts, s
    <2>6. ASSUME NEW path \in {"bet", "raise"}, NEW n \in Amounts(a),
                 r = [Post(path) EXCEPT !.amount = n],
                 path = "bet" => a.canBet, path = "raise" => a.canRaise
          PROVE  Accepts(u, r)
      <3>1. r.path = path /\ r.amount = n
        BY <2>6 DEF Post
      <3>2. RaiseAccepted(table, s, n)
        BY <2>4, <2>6
      <3> QED BY <2>1, <2>3, <2>6, <3>1, <3>2, AcceptsWhat DEF s
    <2>7. r \in PostAmounts("bet", Amounts(a)) /\ a.canBet => Accepts(u, r)
      BY <2>6 DEF PostAmounts
    <2>8. r \in PostAmounts("raise", Amounts(a)) /\ a.canRaise => Accepts(u, r)
      BY <2>6 DEF PostAmounts
    <2> QED BY <2>2, <2>5, <2>7, <2>8
  <1> QED BY <1>2, <1>3, <1>4, <1>5 DEF Controls

\* Whatever the player to act may do, a control posts.
LEMMA ActionsOffered ==
  ASSUME SceneInv, NEW u, CanAct(u)
  PROVE  /\ \A path \in {"fold", "check", "call", "all_in"} :
              Accepts(u, Post(path)) => Post(path) \in Controls(u)
         /\ \A path \in {"bet", "raise"} :
              (\E r \in PostAmounts(path, 1..MaxChips) : Accepts(u, r))
                => \E r \in Controls(u) : r.path = path
  <1> DEFINE s == ViewerSeat(u)
             a == AllowedActions(table, s)
  <1>1. /\ IInv /\ Fresh(table) /\ table \in TableState
        /\ HandActive(table) /\ s = table.acting /\ Seated(u)
    BY DEF SceneInv, VInv, IInv, TypeOK, CanAct
  <1>2. /\ Post("fold") \in ActionControls(u)
        /\ a.canCheck => Post("check") \in ActionControls(u)
        /\ a.canCall => Post("call") \in ActionControls(u)
        /\ a.canAllIn => Post("all_in") \in ActionControls(u)
        /\ a.canBet => PostAmounts("bet", Amounts(a)) \subseteq ActionControls(u)
        /\ ~a.canBet /\ a.canRaise => PostAmounts("raise", Amounts(a)) \subseteq ActionControls(u)
    BY <1>1 DEF ActionControls, If, Allowed
  <1> HIDE DEF s
  <1>3. /\ a.canCheck <=> ToCall(table, s) = 0
        /\ a.canCall <=> ToCall(table, s) # 0
        /\ a.canAllIn <=> AllInAccepted(table, s)
        /\ a.canBet => table.currentBet = 0
        /\ a.canRaise => table.currentBet # 0
        /\ a.canBet \/ a.canRaise =>
             /\ a.minRaiseTo \in Nat \ {0} /\ a.maxRaiseTo \in Nat
             /\ a.minRaiseTo <= a.maxRaiseTo
        /\ \A n \in Nat : RaiseAccepted(table, s, n) =>
             IF table.currentBet = 0 THEN a.canBet ELSE a.canRaise
    BY <1>1, OffersExact
  <1> HIDE DEF a
  <1>4. ActionControls(u) \subseteq Controls(u)
    BY DEF Controls
  <1>5. /\ Accepts(u, Post("check")) => a.canCheck
        /\ Accepts(u, Post("call")) => a.canCall
        /\ Accepts(u, Post("all_in")) => a.canAllIn
    <2>1. /\ Post("check").path = "check" /\ Post("call").path = "call"
          /\ Post("all_in").path = "all_in"
      BY DEF Post
    <2> QED BY <1>3, <2>1, AcceptsWhat DEF s
  <1>6. ASSUME NEW path \in {"bet", "raise"},
               NEW r \in PostAmounts(path, 1..MaxChips), Accepts(u, r)
        PROVE  \E q \in Controls(u) : q.path = path
    <2>1. PICK n \in 1..MaxChips : r = [Post(path) EXCEPT !.amount = n]
      BY <1>6 DEF PostAmounts
    <2>2. r.path = path /\ r.amount = n /\ n \in Nat
      BY <2>1 DEF Post
    <2>3. /\ path = "bet" => table.currentBet = 0
          /\ path = "raise" => table.currentBet # 0
          /\ RaiseAccepted(table, s, n)
      BY <1>6, <2>2, AcceptsWhat DEF s
    <2>4. IF path = "bet" THEN a.canBet ELSE ~a.canBet /\ a.canRaise
      BY <1>3, <2>2, <2>3
    <2>5. PostAmounts(path, Amounts(a)) \subseteq Controls(u)
      BY <1>2, <1>4, <2>4
    <2>6. PICK m \in Amounts(a) : TRUE
      BY <1>1, <1>3, <2>4, AmountsAllowed
    <2>7. [Post(path) EXCEPT !.amount = m] \in Controls(u)
      BY <2>5 DEF PostAmounts
    <2>8. [Post(path) EXCEPT !.amount = m].path = path
      BY DEF Post
    <2> QED BY <2>7, <2>8
  <1> QED BY <1>2, <1>4, <1>5, <1>6

\* Between hands a player can leave, and get ready, unless the vote is about another.
LEMMA LeaveAndReadyOffered ==
  ASSUME NEW u, ~HandActive(table)
  PROVE  /\ Seated(u) /\ vote = NoVote => Post("leave") \in Controls(u)
         /\ u \in Funded /\ Cardinality(Funded) >= 2 /\ ~IsReady(u)
              => Post("ready") \in Controls(u) \/ (vote # NoVote /\ ~IsTarget(u))
  <1>1. ~CanAct(u) /\ (Seated(u) <=> CanLeave(u))
    BY DEF CanAct, CanLeave
  <1>2. u \in Funded => Seated(u)
    BY DEF Funded, Seated, SeatOf, UserIn, Playable
  <1>3. CanStart(u) <=> u \in Funded /\ Cardinality(Funded) >= 2
    BY DEF CanStart
  <1>4. DockControls(u) \subseteq Controls(u)
    BY DEF Controls
  <1>5. Seated(u) /\ vote = NoVote => Post("leave") \in DockControls(u)
    BY <1>1 DEF DockControls, LeaveAndReady, If, IsTarget
  <1>6. CanStart(u) /\ Seated(u) /\ ~IsReady(u) /\ (vote = NoVote \/ IsTarget(u))
          => Post("ready") \in DockControls(u)
    BY <1>1 DEF DockControls, LeaveAndReady, If
  <1> QED BY <1>2, <1>3, <1>4, <1>5, <1>6

\* The dock of PokerRoom.tsx lets a viewer do exactly what table and handlers
\* accept: after any bets, short all-ins, votes and marks, nothing it posts is
\* refused, and nobody who may do something is without the button for it.
THEOREM ControlsAreExact == VoteSpec => []ControlsExact
  <1>1. SceneInv => ControlsExact
    BY ControlsAccepted, ActionsOffered, LeaveAndReadyOffered DEF ControlsExact
  <1> QED BY <1>1, SceneInvariant, PTL

-----------------------------------------------------------------------------
(* The service: the table through its steps *)

\* Nobody has two seats.
SeatedAlone(t) ==
  \A s, o \in Seats : t.user[s] = t.user[o] /\ t.user[s] # NoUser => s = o

\* Hands are numbered from 1 to the bound; a running hand has a numbered turn and
\* no result yet, a finished one has a result.
Kept(t) ==
  /\ t.handID <= MaxHands
  /\ HandActive(t) => t.turnID > 0 /\ t.handID > 0 /\ t.lastResult = NoResult
  /\ ~HandActive(t) => (t.handID > 0 <=> t.lastResult # NoResult)
  /\ SeatedAlone(t)

\* What a step does to hand number and result: nothing, or it ends the hand, or
\* deals the next one, which takes a user who was ready before.
Follows(t, u) ==
  \/ u.handID = t.handID /\ u.lastResult = t.lastResult
  \/ HandActive(t) /\ u.handID = t.handID /\ u.ready = Nobody
  \/ /\ ~HandActive(t) /\ u.handID = t.handID + 1
     /\ \E s \in Playable(t) : t.ready[s]
     /\ u.lastResult = NoResult \/ u.ready = Nobody

\* What comes of a hand has its number, and a result if it is over.
LEMMA OutcomeKept ==
  ASSUME NEW t \in TableState, NEW u, Outcome(t, u), SeatedAlone(t),
         t.handID > 0, t.handID <= MaxHands, t.lastResult = NoResult,
         \E s \in Seats : t.inHand[s]
  PROVE  /\ Kept(u) /\ u.handID = t.handID
         /\ u.lastResult = NoResult \/ u.ready = Nobody
<1>1. t.turnID \in Nat /\ t.handID \in Nat
  BY DEF TableState
<1>2. CASE HandGoesOn(t, u)
  <2>1. /\ u.user = t.user /\ u.handID = t.handID /\ u.lastResult = t.lastResult
        /\ HandActive(u) /\ u.turnID > t.turnID /\ u.turnID \in Nat
    BY <1>2 DEF HandGoesOn, SameHand, TableState
  <2>. QED
    BY <1>1, <2>1 DEF Kept, SeatedAlone
<1>3. CASE EndsHand(t, u)
  <2>1. /\ u.user = t.user /\ u.handID = t.handID /\ u.street = "complete"
        /\ u.ready = Nobody /\ u.lastResult.players = {s \in Seats : t.inHand[s]}
    BY <1>3 DEF EndsHand, Settled
  <2>2. u.lastResult # NoResult
    BY <2>1 DEF NoResult
  <2>3. ~HandActive(u)
    BY <2>1 DEF HandActive, BettingStreets
  <2>. QED
    BY <2>1, <2>2, <2>3 DEF Kept, SeatedAlone
<1>. QED
  BY <1>2, <1>3 DEF Outcome

\* When the last user gets ready and the hand is dealt, another one was ready.
LEMMA ReadyBefore ==
  ASSUME table \in TableState, Kept(table), NEW u \in Users, CanReady(u),
         AllReady(Marked(u)), NEW a \in Playable(table), NEW b \in Playable(table), a # b
  PROVE  \E s \in Playable(table) : table.ready[s]
<1>. DEFINE ready == [s \in Seats |-> table.ready[s] \/ s \in SeatOf(table, u)]
            t == [table EXCEPT !.ready = ready]
<1>1. Marked(u) = t
  BY DEF Marked
<1>2. t.ready = ready /\ t.stack = table.stack
  BY DEF TableState
<1>. HIDE DEF t
<1>3. \A s \in Playable(table) : s \in Seats /\ (table.ready[s] \/ s \in SeatOf(table, u))
  BY <1>1, <1>2 DEF AllReady, Playable
<1>4. ~ (a \in SeatOf(table, u) /\ b \in SeatOf(table, u))
  BY HoldemAssumption DEF SeatOf, Kept, SeatedAlone
<1>. QED
  BY <1>3, <1>4

\* Every step of the table keeps its numbering.
LEMMA KeptAndFollows ==
  ASSUME IInv, Kept(table), [Next]_vars
  PROVE  Kept(table') /\ Follows(table, table')
<1>1. /\ table \in TableState /\ Sound(table) /\ table.handID \in Nat /\ table.turnID \in Nat
      /\ table.user \in [Seats -> Users \cup {NoUser}]
  BY DEF IInv, TypeOK, TableState
<1>2. ASSUME SamePlay(table, table'),
             SeatedAlone(table')
      PROVE  Kept(table') /\ Follows(table, table')
  BY <1>2 DEF SamePlay, Kept, Follows, HandActive
<1>3. CASE \E s \in Seats, u \in Users, b \in BuyIns : Sits(s, u, b)
  <2>1. PICK s \in Seats, u \in Users, b \in BuyIns : Sits(s, u, b)
    BY <1>3
  <2>2. /\ table'.user = [table.user EXCEPT ![s] = u] /\ \A o \in Seats : table.user[o] # u
        /\ SamePlay(table, table')
    BY <2>1 DEF Sits
  <2>. QED
    BY <1>1, <1>2, <2>2 DEF Kept, SeatedAlone
<1>4. CASE \E s \in Seats : Rises(s)
  <2>1. PICK s \in Seats : Rises(s)
    BY <1>4
  <2>2. table'.user = [table.user EXCEPT ![s] = NoUser] /\ SamePlay(table, table')
    BY <2>1 DEF Rises
  <2>. QED
    BY <1>1, <1>2, <2>2 DEF Kept, SeatedAlone
<1>5. CASE Marks
  BY <1>2, <1>5 DEF Marks, Kept, SeatedAlone
<1>6. CASE \E p \in TableState : Deals(p)
  <2>1. PICK p \in TableState : Deals(p)
    BY <1>6
  <2>2. PICK u \in Users : CanReady(u) /\ AllReady(Marked(u))
    BY <2>1 DEF Deals
  <2>3. PICK a \in Playable(table), b \in Playable(table) : a # b
    BY <2>1 DEF Deals
  <2>4. \E s \in Playable(table) : table.ready[s]
    BY <1>1, <2>2, <2>3, ReadyBefore
  <2>5. ~HandActive(table) /\ table.handID < MaxHands /\ MaxHands \in Nat
    BY <2>1, <2>2, HoldemAssumption DEF Deals, CanReady, MoreToCome
  <2>6. /\ p.user = table.user /\ p.handID = table.handID + 1 /\ p.turnID = table.turnID
        /\ p.lastResult = NoResult /\ p.street = "preflop"
        /\ Outcome(p, table') /\ p.inHand[a] /\ a \in Seats
    BY <2>1, <2>3 DEF Deals, Dealt, Playable
  <2>7. p.handID > 0 /\ p.handID <= MaxHands /\ SeatedAlone(p)
    BY <1>1, <2>5, <2>6 DEF Kept, SeatedAlone
  <2>8. /\ Kept(table') /\ table'.handID = p.handID
        /\ table'.lastResult = NoResult \/ table'.ready = Nobody
    BY <2>6, <2>7, OutcomeKept
  <2>. QED
    BY <2>4, <2>5, <2>6, <2>8 DEF Follows
<1>7. CASE \E s \in Seats, m \in TableState : Plays(s, m)
  <2>1. PICK s \in Seats, m \in TableState : Plays(s, m)
    BY <1>7
  <2>2. /\ HandActive(table) /\ s = table.acting /\ SameTable(table, m)
        /\ Outcome(m, table')
    BY <2>1 DEF Plays, Acts
  <2>3. table.inHand[s]
    BY <1>1, <2>2 DEF Sound, TurnPlayable, NeedsAction, Actionable, Contesting
  <2>4. /\ SeatedAlone(m) /\ m.handID > 0 /\ m.handID <= MaxHands
        /\ m.lastResult = NoResult /\ m.inHand[s] /\ m.handID = table.handID
    BY <2>2, <2>3 DEF SameTable, Kept, SeatedAlone
  <2>5. /\ Kept(table') /\ table'.handID = m.handID
        /\ table'.lastResult = NoResult \/ table'.ready = Nobody
    BY <2>2, <2>4, OutcomeKept
  <2>6. table.lastResult = NoResult
    BY <2>2 DEF Kept
  <2>. QED
    BY <2>2, <2>4, <2>5, <2>6 DEF Follows
<1>8. CASE UNCHANGED vars
  BY <1>8 DEF vars, Kept, SeatedAlone, Follows, HandActive
<1>. QED
  BY <1>3, <1>4, <1>5, <1>6, <1>7, <1>8, StepKinds

\* What is true of the table in memory and of the one in the database.
Stands(t) == Sound(t) /\ Books(t) /\ Level(t) /\ Kept(t)

\* Every step of the table leaves it so.
LEMMA StepStands ==
  ASSUME IInv, Stands(table), ChipsNeverCreated, [Next]_vars
  PROVE  IInv' /\ Stands(table') /\ ChipsNeverCreated'
<1>1. IInv' /\ Kept(table')
  BY NextIInv, KeptAndFollows DEF Stands
<1>2. Sound(table')
  BY <1>1 DEF IInv, Sound, BetsBounded, TurnPlayable
<1>3. Books(table') /\ Level(table') /\ Chips(table') <= supply'
  BY BooksKept DEF Stands, ChipsNeverCreated
<1>4. ChipsNeverCreated'
  BY <1>3 DEF ChipsNeverCreated, Chips
<1>. QED
  BY <1>1, <1>2, <1>3, <1>4 DEF Stands

\* Who is ready and whether the deadline passed makes no difference to that.
LEMMA MarksStand ==
  ASSUME NEW t, Stands(t), NEW u, SamePlay(t, u), u.user = t.user, u.stack = t.stack,
         u.hole = t.hole, u.folded = t.folded
  PROVE  Stands(u) /\ Chips(u) = Chips(t)
<1>1. Sound(u)
  BY SameTurnSound DEF Stands, SamePlay
<1>2. Books(u)
  BY DEF Stands, SamePlay, Books, HandActive
<1>3. Level(u)
  BY DEF Stands, SamePlay, Level, HandActive, Actionable, Contesting
<1>4. Kept(u)
  BY DEF Stands, SamePlay, Kept, SeatedAlone, HandActive
<1>. QED
  BY <1>1, <1>2, <1>3, <1>4 DEF Stands, SamePlay, Chips

\* Nor does a user who sits down between hands on a free seat.
LEMMA SeatedStands ==
  ASSUME NEW t, Stands(t), NEW u, SamePlay(t, u), NEW s \in Seats, t.user[s] = NoUser,
         NEW person \in Users, \A o \in Seats : t.user[o] # person,
         NEW b \in BuyIns, u.user = [t.user EXCEPT ![s] = person],
         u.stack = [t.stack EXCEPT ![s] = b], u.hole = t.hole, u.folded = t.folded
  PROVE  Stands(u)
<1>1. /\ t \in TableState /\ u \in TableState /\ b \in Nat /\ person # NoUser
      /\ t.stack \in [Seats -> Nat] /\ t.user \in [Seats -> Users \cup {NoUser}]
  BY HoldemAssumption DEF Stands, Sound, SamePlay, TableState
<1>2. Sound(u)
  BY SameTurnSound DEF Stands, SamePlay
<1>3. Level(u)
  BY DEF Stands, SamePlay, Level, HandActive, Actionable, Contesting
<1>4. /\ u.user[s] = person /\ u.stack[s] = b /\ ~t.inHand[s]
      /\ \A o \in Seats \ {s} : u.user[o] = t.user[o] /\ u.stack[o] = t.stack[o]
  BY <1>1 DEF Stands, Books
<1>5. Books(u)
  BY <1>1, <1>4 DEF Stands, SamePlay, Books, HandActive
<1>6. Kept(u)
  BY <1>1, <1>4 DEF Stands, SamePlay, Kept, SeatedAlone, HandActive
<1>. QED
  BY <1>2, <1>3, <1>5, <1>6 DEF Stands

\* A row, and what a restart makes of it.
LEMMA RowStands ==
  ASSUME NEW t, Stands(t), NEW e \in BOOLEAN
  PROVE  LET u == [t EXCEPT !.expired = e]
         IN  /\ SamePlay(t, u) /\ Stands(u) /\ Chips(u) = Chips(t)
             /\ u.ready = t.ready /\ u.expired = e
<1>. DEFINE u == [t EXCEPT !.expired = e]
<1>1. t \in TableState
  BY DEF Stands, Sound
<1>2. u \in TableState
  BY <1>1, Zenon DEF TableState
<1>3. /\ SamePlay(t, u) /\ u.user = t.user /\ u.stack = t.stack /\ u.hole = t.hole
      /\ u.folded = t.folded /\ u.ready = t.ready /\ u.expired = e
  BY <1>1, <1>2 DEF SamePlay, TableState
<1>. HIDE DEF u
<1>4. Stands(u) /\ Chips(u) = Chips(t)
  BY <1>3, MarksStand
<1>. QED
  BY <1>3, <1>4 DEF u

\* A new table stands.
LEMMA NewTableStands == Stands(NewTable)
<1>1. NewTable.handID = 0 /\ ~HandActive(NewTable) /\ NewTable.lastResult = NoResult
  BY DEF NewTable, HandActive, BettingStreets
<1>2. SeatedAlone(NewTable)
  BY DEF NewTable, SeatedAlone
<1>3. Kept(NewTable)
  BY <1>1, <1>2, HoldemAssumption DEF Kept
<1>. QED
  BY <1>3, NewTableSound, NewTableBooks DEF Stands

-----------------------------------------------------------------------------
(* The steps of the service *)

\* The table moved on and was saved, or its save failed.
Saves(done) ==
  /\ Next /\ Persist(table', done)
  /\ ~deleted /\ (loaded \/ waiting \/ fired # {})
  /\ UNCHANGED <<loaded, deleted, gone>>

\* Marks were set that are not saved: somebody is not ready after all, or the
\* deadline passed.
Unsaved ==
  /\ Next /\ table'.handID = table.handID /\ table'.lastResult = table.lastResult
  /\ table'.stack = table.stack
  /\ \A s \in Seats : table'.ready[s] => table.ready[s]
  /\ [Row(table') EXCEPT !.ready = Nobody] = [Row(table) EXCEPT !.ready = Nobody]
  /\ waiting' => waiting
  /\ UNCHANGED <<database, loaded, deleted, clock, fired, unsaved, untimed, gone, mishaps>>

\* A timeout is one of the turn's.
LEMMA TimeoutNext ==
  ASSUME NEW id, Timeout(id)  PROVE Next
<1>1. id = table.turnID
  BY DEF Timeout
<1>. QED
  BY <1>1 DEF Next

\* A request, and a callback that plays, ends in a save.
LEMMA RequestSaves ==
  ASSUME \/ \E u \in Users, b \in BuyIns : JoinRequest(u, b)
         \/ \E u \in Users : LeaveRequest(u) \/ ReadyRequest(u)
         \/ \E s \in Seats : ActionRequest(s)
         \/ \E id \in fired : CallbackPlays(id)
  PROVE  \E done \in BOOLEAN : Saves(done)
<1>1. CASE \E u \in Users, b \in BuyIns : JoinRequest(u, b)
  BY <1>1, Zenon DEF JoinRequest, Reached, SaveOnly, Saves, Next
<1>2. CASE \E u \in Users : LeaveRequest(u)
  BY <1>2, Zenon DEF LeaveRequest, Reached, SaveOnly, Saves, Next
<1>3. CASE \E u \in Users : ReadyRequest(u)
  BY <1>3, Zenon DEF ReadyRequest, Reached, SaveAndSync, Saves, Next
<1>4. CASE \E s \in Seats : ActionRequest(s)
  BY <1>4, Zenon DEF ActionRequest, Reached, SaveAndSync, Saves, Next
<1>5. CASE \E id \in fired : CallbackPlays(id)
  BY <1>5, TimeoutNext, Zenon DEF CallbackPlays, Saves
<1>. QED
  BY <1>1, <1>2, <1>3, <1>4, <1>5

\* A deal that fails and a deadline that passes are not saved.
LEMMA MarksUnsaved ==
  ASSUME table \in TableState, (\E u \in Users : ReadyRefused(u)) \/ ClockPasses
  PROVE  Unsaved
<1>1. CASE \E u \in Users : ReadyRefused(u)
  <2>1. PICK u \in Users : ReadyRefused(u)
    BY <1>1
  <2>. DEFINE ready == [s \in Seats |-> table.ready[s] /\ s \notin SeatOf(table, u)]
  <2>2. table' = [table EXCEPT !.ready = ready]
    BY <2>1 DEF ReadyRefused, ReadyWithoutShuffle
  <2>3. \A s \in Seats : ready[s] => table.ready[s]
    OBVIOUS
  <2>. HIDE DEF ready
  <2>4. /\ table'.handID = table.handID /\ table'.lastResult = table.lastResult
        /\ table'.stack = table.stack /\ table'.ready = ready
        /\ [Row(table') EXCEPT !.ready = Nobody] = [Row(table) EXCEPT !.ready = Nobody]
    BY <2>2 DEF TableState, Row
  <2>5. Next
    BY <2>1, Zenon DEF ReadyRefused, Next
  <2>. QED
    BY <2>1, <2>3, <2>4, <2>5 DEF ReadyRefused, Reached, Unsaved
<1>2. CASE ClockPasses
  <2>1. table' = [table EXCEPT !.expired = TRUE]
    BY <1>2 DEF ClockPasses, DeadlinePasses
  <2>2. /\ table'.handID = table.handID /\ table'.lastResult = table.lastResult
        /\ table'.stack = table.stack /\ table'.ready = table.ready
        /\ [Row(table') EXCEPT !.ready = Nobody] = [Row(table) EXCEPT !.ready = Nobody]
    BY <2>1 DEF TableState, Row
  <2>3. Next
    BY <1>2, Zenon DEF ClockPasses, Next
  <2>. QED
    BY <1>2, <2>2, <2>3 DEF ClockPasses, Unsaved, service, database, clock
<1>. QED
  BY <1>1, <1>2

\* The other steps leave the table and the histories alone, and save nothing.
Idle ==
  /\ UNCHANGED <<vars, histories, unsaved>>
  /\ saved' = saved \/ (saved' = NoRow /\ ~deleted /\ (loaded \/ waiting))
  /\ mishaps' = mishaps \/ Mishap
  /\ saved # NoRow \/ loaded \/ waiting \/ fired # {} \/ timer # 0

\* Every step of the service is one of these.
LEMMA ServiceKinds ==
  ASSUME table \in TableState, [ServiceNext]_allVars
  PROVE  \/ \E done \in BOOLEAN : Saves(done)
         \/ Unsaved
         \/ \E u \in Users, b \in BuyIns : JoinUndone(u, b)
         \/ Restart
         \/ Idle
         \/ UNCHANGED allVars
<1>1. CASE Lookup \/ LookupRefused
  BY <1>1 DEF Lookup, LookupRefused, database, Idle
<1>2. CASE DeleteRequest
  BY <1>2 DEF DeleteRequest, Reached, Idle
<1>3. CASE TimerFires \/ Load
  BY <1>3 DEF TimerFires, Load, database, Idle
<1>4. CASE \E id \in fired : CallbackLate(id) \/ CallbackRearms(id)
  BY <1>4 DEF CallbackLate, CallbackRearms, database, Idle
<1>. QED
  BY <1>1, <1>2, <1>3, <1>4, RequestSaves, MarksUnsaved DEF ServiceNext, Callback

-----------------------------------------------------------------------------
(* The table in memory and in the database *)

\* Both stand.
BothStand ==
  /\ IInv /\ Stands(table) /\ ChipsNeverCreated
  /\ saved # NoRow => Stands(saved)
  /\ mishaps \in Nat

\* A save leaves a row that stands, whatever comes of it.
LEMMA PersistStands ==
  ASSUME NEW t, Stands(t), NEW done \in BOOLEAN, Persist(t, done),
         saved # NoRow => Stands(saved), mishaps \in Nat
  PROVE  /\ saved' # NoRow => Stands(saved')
         /\ mishaps' \in Nat /\ mishaps' >= mishaps
         /\ ~done => mishaps' = mishaps + 1
<1>1. Stands(Row(t))
  BY RowStands DEF Row
<1>. QED
  BY <1>1 DEF Persist, Mishap, database

\* A join that is undone leaves the table with nobody ready, and may leave a row
\* in which the user sits.
LEMMA JoinUndoneRow ==
  ASSUME BothStand, NEW u \in Users, NEW b \in BuyIns, JoinUndone(u, b)
  PROVE  /\ IInv' /\ Stands(table') /\ ChipsNeverCreated'
         /\ SamePlay(table, table') /\ table'.ready = Nobody
         /\ \E v : /\ Stands(v) /\ Persist(v, FALSE)
                   /\ v.handID = table.handID /\ v.lastResult = table.lastResult
<1>. DEFINE seat == NextIn(Seats \ Occupied(table), NoSeat)
            user == [table.user EXCEPT ![seat] = u]
            stack == [table.stack EXCEPT ![seat] = b]
            v == [table EXCEPT !.user = user, !.stack = stack, !.ready = Nobody]
<1>1. table \in TableState /\ b \in Nat
  BY HoldemAssumption DEF BothStand, IInv, TypeOK
<1>2. seat \in Seats /\ table.user[seat] = NoUser
  <2>1. Seats \ Occupied(table) \in SUBSET Seats /\ Seats \ Occupied(table) # {}
    BY DEF JoinUndone, Occupied
  <2>2. seat \in Seats \ Occupied(table)
    BY <2>1, NextInType
  <2>. QED
    BY <2>2 DEF Occupied
<1>3. Persist(v, FALSE)
  BY DEF JoinUndone
<1>4. table' = [table EXCEPT !.ready = Nobody]
  BY DEF JoinUndone
<1>5. \A o \in Seats : table.user[o] # u
  BY DEF JoinUndone, SeatOf
<1>. HIDE DEF seat
<1>6. user \in [Seats -> Users \cup {NoUser}] /\ stack \in [Seats -> Nat]
  BY <1>1, <1>2 DEF TableState
<1>. HIDE DEF user, stack
<1>7. v \in TableState
  BY <1>1, <1>6, ZerosType, Zenon DEF TableState
<1>8. /\ SamePlay(table, v) /\ v.user = user /\ v.stack = stack
      /\ v.hole = table.hole /\ v.folded = table.folded
      /\ v.handID = table.handID /\ v.lastResult = table.lastResult
  BY <1>1, <1>7 DEF SamePlay, TableState
<1>. HIDE DEF v
<1>9. Stands(v)
  BY <1>2, <1>5, <1>8, SeatedStands DEF BothStand, user, stack
<1>10. table' \in TableState
  BY <1>1, <1>4, ZerosType, Zenon DEF TableState
<1>11. /\ SamePlay(table, table') /\ table'.user = table.user /\ table'.stack = table.stack
       /\ table'.hole = table.hole /\ table'.folded = table.folded
       /\ table'.ready = Nobody
  BY <1>1, <1>4, <1>10 DEF SamePlay, TableState
<1>12. Stands(table') /\ Chips(table') = Chips(table)
  BY <1>11, MarksStand DEF BothStand
<1>13. IInv' /\ ChipsNeverCreated'
  BY <1>10, <1>12 DEF BothStand, IInv, TypeOK, Stands, JoinUndone, ChipsNeverCreated, Chips,
                      Sound, BetsBounded, TurnPlayable
<1>. QED
  BY <1>3, <1>8, <1>9, <1>11, <1>12, <1>13

\* A restart brings back the row, or a new table.
LEMMA RestartStands ==
  ASSUME BothStand, Restart
  PROVE  /\ IInv' /\ Stands(table') /\ ChipsNeverCreated'
         /\ saved = NoRow => table' = NewTable
         /\ saved # NoRow => /\ SamePlay(saved, table')
                             /\ \E e \in BOOLEAN : table' = [saved EXCEPT !.expired = e]
<1>1. saved = NoRow => table' = NewTable
  BY DEF Restart
<1>2. saved # NoRow => \E e \in BOOLEAN : table' = [saved EXCEPT !.expired = e]
  BY DEF Restart
<1>3. /\ Stands(table') /\ supply' = Chips(table') /\ table' \in TableState
      /\ saved # NoRow => SamePlay(saved, table')
  <2>1. Stands(table')
    BY <1>1, <1>2, RowStands, NewTableStands DEF BothStand
  <2>2. saved # NoRow => SamePlay(saved, table')
    BY <1>2, RowStands DEF BothStand
  <2>. QED
    BY <2>1, <2>2 DEF Restart, Stands, Sound
<1>4. supply' \in Int
  <2>1. [s \in Seats |-> table'.stack[s] + table'.committed[s]] \in [Seats -> Int]
    BY <1>3 DEF TableState
  <2>. QED
    BY <1>3, <2>1, SeatSumInt DEF Chips
<1>5. IInv' /\ ChipsNeverCreated'
  BY <1>3, <1>4 DEF BothStand, IInv, TypeOK, Stands, Restart, ChipsNeverCreated, Chips,
                    Sound, BetsBounded, TurnPlayable
<1>. QED
  BY <1>1, <1>2, <1>3, <1>5

\* Every step of the service leaves both as they should be.
LEMMA BothStandKept == BothStand /\ [ServiceNext]_allVars => BothStand'
<1>. SUFFICES ASSUME BothStand, [ServiceNext]_allVars PROVE BothStand'
  OBVIOUS
<1>1. IInv /\ Stands(table) /\ ChipsNeverCreated /\ table \in TableState /\ mishaps \in Nat
  BY DEF BothStand, IInv, TypeOK
<1>2. ASSUME UNCHANGED <<vars>>  PROVE IInv' /\ Stands(table') /\ ChipsNeverCreated'
  <2>1. [Next]_vars
    BY <1>2
  <2>. QED
    BY <1>1, <2>1, StepStands
<1>3. ASSUME NEW done \in BOOLEAN, Saves(done)  PROVE BothStand'
  <2>1. IInv' /\ Stands(table') /\ ChipsNeverCreated'
    BY <1>1, <1>3, StepStands DEF Saves
  <2>2. Persist(table', done)
    BY <1>3 DEF Saves
  <2>3. (saved' # NoRow => Stands(saved')) /\ mishaps' \in Nat
    BY <2>1, <2>2, PersistStands DEF BothStand
  <2>. QED
    BY <2>1, <2>3 DEF BothStand
<1>4. CASE Unsaved
  <2>1. IInv' /\ Stands(table') /\ ChipsNeverCreated'
    BY <1>1, <1>4, StepStands DEF Unsaved
  <2>. QED
    BY <1>4, <2>1 DEF BothStand, Unsaved, database
<1>5. ASSUME NEW u \in Users, NEW b \in BuyIns, JoinUndone(u, b)  PROVE BothStand'
  <2>1. PICK v : Stands(v) /\ Persist(v, FALSE)
    BY <1>5, JoinUndoneRow
  <2>2. (saved' # NoRow => Stands(saved')) /\ mishaps' \in Nat
    BY <1>1, <2>1, PersistStands DEF BothStand
  <2>3. IInv' /\ Stands(table') /\ ChipsNeverCreated'
    BY <1>5, JoinUndoneRow
  <2>. QED
    BY <2>2, <2>3 DEF BothStand
<1>6. CASE Restart
  <2>1. IInv' /\ Stands(table') /\ ChipsNeverCreated'
    BY <1>6, RestartStands
  <2>2. saved' = saved /\ mishaps' = mishaps + 1
    BY <1>6 DEF Restart, Mishap, database
  <2>. QED
    BY <1>1, <2>1, <2>2 DEF BothStand
<1>7. CASE Idle
  BY <1>1, <1>2, <1>7 DEF BothStand, Idle, Mishap
<1>8. CASE UNCHANGED allVars
  BY <1>1, <1>2, <1>8 DEF BothStand, allVars, service, database
<1>. QED
  BY <1>1, <1>3, <1>4, <1>5, <1>6, <1>7, <1>8, ServiceKinds

-----------------------------------------------------------------------------
(* Timers, deletion and restarts *)

\* A running hand has a turn to time.
LEMMA TurnToTime ==
  ASSUME NEW t, Stands(t), HandActive(t)
  PROVE  TimedTurn(t) # 0
<1>1. t.acting \in Seats /\ t.turnID > 0 /\ t.turnID \in Nat
  BY DEF Stands, Kept, Sound, TurnPlayable, NeedsAction, Actionable, Contesting, TableState
<1>2. t.acting # NoSeat
  BY <1>1 DEF Seats, NoSeat
<1>. QED
  BY <1>1, <1>2 DEF TimedTurn

\* A deleted table stays so: either the runtime bears the mark, or nobody has
\* hold of it any more.
DeletedForGood ==
  /\ deleted => gone
  /\ gone => /\ saved = NoRow /\ ~loaded
             /\ deleted \/ (~waiting /\ fired = {} /\ timer = 0)

\* Every running hand of a runtime has its timer.
LEMMA TimedKept ==
  ASSUME BothStand, BothStand', TurnIsTimed, DeletedForGood, [ServiceNext]_allVars
  PROVE  TurnIsTimed'
<1>1. HandActive(table) => TimedTurn(table) # 0
  BY TurnToTime DEF BothStand
<1>2. HandActive(table') => TimedTurn(table') # 0
  BY TurnToTime DEF BothStand
<1>3. loaded => ~deleted
  BY DEF DeletedForGood
<1>4. ASSUME table'.street = table.street, UNCHANGED <<clock, fired, untimed>>, loaded' => loaded
      PROVE  TurnIsTimed'
  BY <1>4 DEF TurnIsTimed, clock, HandActive
<1>5. ASSUME SyncTimer(table')  PROVE TurnIsTimed'
  BY <1>2, <1>5 DEF TurnIsTimed, SyncTimer
<1>6. CASE Lookup \/ LookupRefused
  BY <1>4, <1>6 DEF Lookup, LookupRefused, vars
<1>7. ASSUME NEW u \in Users, NEW b \in BuyIns, JoinRequest(u, b)  PROVE TurnIsTimed'
  <2>1. table'.street = table.street
    BY <1>7 DEF JoinRequest, Join, BothStand, IInv, TypeOK, TableState
  <2>. QED
    BY <1>4, <1>7, <2>1 DEF JoinRequest, SaveOnly
<1>8. ASSUME NEW u \in Users, NEW b \in BuyIns, JoinUndone(u, b)  PROVE TurnIsTimed'
  <2>1. table'.street = table.street
    BY <1>8, JoinUndoneRow DEF SamePlay
  <2>. QED
    BY <1>4, <1>8, <2>1 DEF JoinUndone
<1>9. ASSUME NEW u \in Users, LeaveRequest(u)  PROVE TurnIsTimed'
  <2>1. table'.street = table.street
    BY <1>9 DEF LeaveRequest, Leave, BothStand, IInv, TypeOK, TableState
  <2>. QED
    BY <1>4, <1>9, <2>1 DEF LeaveRequest, SaveOnly
<1>10. ASSUME NEW done \in BOOLEAN, SaveAndSync(done)  PROVE TurnIsTimed'
  BY <1>5, <1>10 DEF SaveAndSync, TurnIsTimed, clock
<1>11. CASE \/ \E u \in Users : ReadyRequest(u)
            \/ \E s \in Seats : ActionRequest(s)
  BY <1>10, <1>11 DEF ReadyRequest, ActionRequest
<1>12. CASE (\E u \in Users : ReadyRefused(u)) \/ ClockPasses
  <2>1. table'.street = table.street
    BY <1>12 DEF ReadyRefused, ReadyWithoutShuffle, ClockPasses, DeadlinePasses,
                 BothStand, IInv, TypeOK, TableState
  <2>. QED
    BY <1>4, <1>12, <2>1 DEF ReadyRefused, ClockPasses, service
<1>13. CASE DeleteRequest
  BY <1>4, <1>13 DEF DeleteRequest, vars, TurnIsTimed
<1>14. CASE TimerFires
  BY <1>14 DEF TimerFires, TurnIsTimed, vars, HandActive
<1>15. ASSUME NEW id \in fired, Callback(id)  PROVE TurnIsTimed'
  <2>1. CASE CallbackLate(id)
    BY <1>3, <2>1 DEF CallbackLate, TurnIsTimed, vars, clock, HandActive
  <2>2. CASE CallbackPlays(id)
    BY <1>5, <2>2 DEF CallbackPlays
  <2>3. CASE CallbackRearms(id)
    <3>1. table' = table
      BY <2>3 DEF CallbackRearms, vars
    <3>. QED
      BY <1>5, <2>3, <3>1 DEF CallbackRearms
  <2>. QED
    BY <1>15, <2>1, <2>2, <2>3 DEF Callback
<1>16. CASE Restart
  BY <1>16 DEF Restart, TurnIsTimed
<1>17. CASE Load
  <2>1. table' = table
    BY <1>17 DEF Load, vars
  <2>. QED
    BY <1>5, <1>17, <2>1 DEF Load
<1>18. CASE UNCHANGED allVars
  BY <1>4, <1>18 DEF allVars, service, vars
<1>. QED
  BY <1>6, <1>7, <1>8, <1>9, <1>11, <1>12, <1>13, <1>14, <1>15, <1>16, <1>17, <1>18
     DEF ServiceNext

\* Once deleted, always deleted.
LEMMA DeletedKept ==
  ASSUME table \in TableState, DeletedForGood, [ServiceNext]_allVars
  PROVE  DeletedForGood'
<1>1. CASE Lookup \/ LookupRefused
  BY <1>1 DEF Lookup, LookupRefused, DeletedForGood, database, clock
<1>2. ASSUME NEW done \in BOOLEAN, Saves(done)  PROVE DeletedForGood'
  BY <1>2 DEF Saves, DeletedForGood
<1>3. ASSUME NEW u \in Users, NEW b \in BuyIns, JoinUndone(u, b)  PROVE DeletedForGood'
  BY <1>3 DEF JoinUndone, Reached, DeletedForGood
<1>4. CASE (\E u \in Users : ReadyRefused(u)) \/ ClockPasses
  BY <1>4 DEF ReadyRefused, Reached, ClockPasses, service, DeletedForGood, database, clock
<1>5. CASE DeleteRequest
  BY <1>5 DEF DeleteRequest, Reached, DeletedForGood, clock
<1>6. CASE TimerFires \/ Load
  BY <1>6 DEF TimerFires, Load, DeletedForGood, database
<1>7. CASE \E id \in fired : CallbackLate(id) \/ CallbackRearms(id)
  BY <1>7 DEF CallbackLate, CallbackRearms, DeletedForGood, database, clock
<1>8. CASE Restart
  BY <1>8 DEF Restart, DeletedForGood, database
<1>9. CASE UNCHANGED allVars
  BY <1>9 DEF allVars, service, DeletedForGood, database, clock
<1>. QED
  BY <1>1, <1>2, <1>3, <1>4, <1>5, <1>6, <1>7, <1>8, <1>9, RequestSaves
     DEF ServiceNext, Callback

\* The row has no deadline that has passed, and is the table as it is unless the
\* last save failed; who is ready may differ.
SavedAsIs ==
  saved # NoRow =>
    /\ ~saved.expired
    /\ ~unsaved => [Row(table) EXCEPT !.ready = Nobody] = [saved EXCEPT !.ready = Nobody]

\* Every step keeps row and table the same, unless the save failed.
LEMMA SavedKept ==
  ASSUME BothStand, SavedAsIs, [ServiceNext]_allVars
  PROVE  SavedAsIs'
<1>1. \A t \in TableState : Row(t).expired = FALSE
  BY DEF Row, TableState
<1>2. /\ table \in TableState /\ (saved # NoRow => saved \in TableState)
  BY DEF BothStand, Stands, Sound
<1>3. ASSUME NEW done \in BOOLEAN, Saves(done)  PROVE SavedAsIs'
  <2>1. table' \in TableState
    BY <1>3, BothStandKept, StepStands DEF BothStand, Saves, Stands, Sound
  <2>. QED
    BY <1>1, <1>3, <2>1 DEF Saves, Persist, SavedAsIs, database
<1>4. CASE Unsaved
  BY <1>4 DEF Unsaved, SavedAsIs, database
<1>5. ASSUME NEW u \in Users, NEW b \in BuyIns, JoinUndone(u, b)  PROVE SavedAsIs'
  <2>1. PICK v : Stands(v) /\ Persist(v, FALSE)
    BY <1>5, JoinUndoneRow
  <2>. QED
    BY <1>1, <2>1 DEF Persist, SavedAsIs, Stands, Sound, database
<1>6. CASE Restart
  <2>1. CASE saved = NoRow
    BY <1>6, <2>1 DEF Restart, SavedAsIs, database
  <2>2. CASE saved # NoRow
    <3>1. PICK e \in BOOLEAN : table' = [saved EXCEPT !.expired = e]
      BY <1>6, <2>2, RestartStands
    <3>2. Row(table') = [saved EXCEPT !.expired = FALSE]
      BY <1>2, <2>2, <3>1 DEF Row, TableState
    <3>3. [saved EXCEPT !.expired = FALSE] = saved
      BY <1>2, <2>2 DEF SavedAsIs, TableState
    <3>. QED
      BY <1>6, <2>2, <3>2, <3>3 DEF Restart, SavedAsIs, database
  <2>. QED
    BY <2>1, <2>2
<1>7. CASE Idle
  BY <1>7 DEF Idle, SavedAsIs, vars, Row
<1>8. CASE UNCHANGED allVars
  BY <1>8 DEF allVars, service, vars, SavedAsIs, Row, database
<1>. QED
  BY <1>2, <1>3, <1>4, <1>5, <1>6, <1>7, <1>8, ServiceKinds

-----------------------------------------------------------------------------
(* The histories *)

\* No hand after t is on record, and its own only as t shows it.
NotAhead(t, record) ==
  \A h \in 1..MaxHands :
    h >= t.handID /\ record[h] # NoResult => h = t.handID /\ record[h] = t.lastResult

\* Hands before t are missing only when two database calls failed.
MissingTwice(t, record, failures) ==
  \A h \in 1..MaxHands : h < t.handID /\ record[h] = NoResult => failures >= 2

\* A result that is not on record yet takes a failed call, and two when somebody
\* is ready for the next hand.
Pending ==
  table.lastResult # NoResult /\ histories[table.handID] = NoResult =>
    /\ mishaps >= 1
    /\ (\E s \in Playable(table) : table.ready[s]) => mishaps >= 2

\* The table was deleted, or its row lost, and nobody has hold of it any more.
Unreachable == saved = NoRow /\ ~loaded /\ ~waiting /\ fired = {} /\ timer = 0

\* What the histories say of the row.
RowOnRecord ==
  saved # NoRow =>
    /\ NotAhead(saved, histories) /\ MissingTwice(saved, histories, mishaps)
    /\ saved.lastResult # NoResult => histories[saved.handID] = saved.lastResult

OnRecord ==
  /\ Unreachable \/ NotAhead(table, histories)
  /\ MissingTwice(table, histories, mishaps)
  /\ Pending /\ RowOnRecord

\* A save records the result that the table shows, or fails.
LEMMA PersistRecords ==
  ASSUME NEW t, Stands(t), NEW done \in BOOLEAN, Persist(t, done), mishaps \in Nat,
         NotAhead(t, histories), MissingTwice(t, histories, mishaps'), RowOnRecord
  PROVE  /\ NotAhead(t, histories') /\ MissingTwice(t, histories', mishaps') /\ RowOnRecord'
         /\ t.lastResult # NoResult /\ histories'[t.handID] = NoResult =>
              histories' = histories /\ mishaps' = mishaps + 1
<1>1. /\ t.handID \in Nat /\ MaxHands \in Nat /\ t \in TableState
      /\ t.lastResult # NoResult => t.handID \in 1..MaxHands
  BY HoldemAssumption DEF Stands, Sound, TableState, Kept
<1>2. mishaps' \in Nat /\ mishaps' >= mishaps /\ (~done => mishaps' = mishaps + 1)
  BY DEF Persist, Mishap
<1>3. CASE saved' = Row(t) /\ histories' = Recorded(t)
  <2>1. \A h \in 1..MaxHands :
          histories'[h] = IF h = t.handID /\ t.lastResult # NoResult
                             /\ histories[h] = NoResult
                            THEN t.lastResult ELSE histories[h]
    BY <1>3 DEF Recorded
  <2>2. NotAhead(t, histories') /\ MissingTwice(t, histories', mishaps')
    BY <1>1, <2>1 DEF NotAhead, MissingTwice
  <2>3. t.lastResult # NoResult => histories'[t.handID] = t.lastResult
    BY <1>1, <2>1 DEF NotAhead
  <2>4. saved'.handID = t.handID /\ saved'.lastResult = t.lastResult
    BY <1>1, <1>3 DEF Row, TableState
  <2>5. RowOnRecord'
    BY <2>2, <2>3, <2>4 DEF RowOnRecord, NotAhead, MissingTwice
  <2>. QED
    BY <2>2, <2>3, <2>5
<1>4. CASE ~done /\ UNCHANGED database
  <2>1. RowOnRecord'
    BY <1>2, <1>4 DEF RowOnRecord, NotAhead, MissingTwice, database
  <2>. QED
    BY <1>2, <1>4, <2>1 DEF database
<1>. QED
  BY <1>3, <1>4 DEF Persist

\* A step of the table that can be reached leaves the histories where they were.
LEMMA FollowsRecord ==
  ASSUME BothStand, OnRecord, ~Unreachable, Follows(table, table'),
         mishaps' \in Nat, mishaps' >= mishaps
  PROVE  /\ NotAhead(table', histories) /\ MissingTwice(table', histories, mishaps')
<1>1. /\ table.handID \in Nat /\ mishaps \in Nat /\ Kept(table)
      /\ NotAhead(table, histories) /\ MissingTwice(table, histories, mishaps) /\ Pending
  BY DEF BothStand, Stands, IInv, TypeOK, TableState, OnRecord
<1>2. CASE table'.handID = table.handID /\ table'.lastResult = table.lastResult
  BY <1>1, <1>2 DEF NotAhead, MissingTwice
<1>3. CASE HandActive(table) /\ table'.handID = table.handID
  BY <1>1, <1>3 DEF NotAhead, MissingTwice, Kept
<1>4. CASE /\ ~HandActive(table) /\ table'.handID = table.handID + 1
           /\ \E s \in Playable(table) : table.ready[s]
  <2>1. NotAhead(table', histories)
    BY <1>1, <1>4 DEF NotAhead
  <2>2. ASSUME NEW h \in 1..MaxHands, h < table'.handID, histories[h] = NoResult
        PROVE  mishaps' >= 2
    <3>1. CASE h < table.handID
      BY <1>1, <2>2, <3>1 DEF MissingTwice
    <3>2. CASE h = table.handID
      BY <1>1, <1>4, <2>2, <3>2 DEF Kept, Pending
    <3>. QED
      BY <1>1, <1>4, <2>2, <3>1, <3>2
  <2>. QED
    BY <2>1, <2>2 DEF MissingTwice
<1>. QED
  BY <1>2, <1>3, <1>4 DEF Follows

\* Every step keeps account of the record.
LEMMA RecordKept ==
  ASSUME BothStand, BothStand', OnRecord, [ServiceNext]_allVars
  PROVE  OnRecord'
<1>1. /\ table \in TableState /\ mishaps \in Nat /\ Kept(table) /\ Stands(table')
      /\ mishaps' \in Nat /\ IInv
  BY DEF BothStand, Stands, IInv, TypeOK
<1>2. ASSUME NEW done \in BOOLEAN, Saves(done)  PROVE OnRecord'
  <2>1. /\ ~Unreachable /\ Follows(table, table') /\ Persist(table', done)
    BY <1>1, <1>2, KeptAndFollows DEF Saves, Unreachable
  <2>2. mishaps' >= mishaps
    BY <1>1, <2>1 DEF Persist, Mishap
  <2>3. NotAhead(table', histories) /\ MissingTwice(table', histories, mishaps')
    BY <1>1, <2>1, <2>2, FollowsRecord
  <2>4. /\ NotAhead(table', histories') /\ MissingTwice(table', histories', mishaps')
        /\ RowOnRecord'
        /\ table'.lastResult # NoResult /\ histories'[table'.handID] = NoResult =>
             histories' = histories /\ mishaps' = mishaps + 1
    BY <1>1, <2>1, <2>3, PersistRecords DEF OnRecord
  <2>5. Pending'
    <3>. SUFFICES ASSUME table'.lastResult # NoResult, histories'[table'.handID] = NoResult
                  PROVE  /\ mishaps' >= 1
                         /\ (\E s \in Playable(table') : table'.ready[s]) => mishaps' >= 2
      BY DEF Pending
    <3>1. histories' = histories /\ mishaps' = mishaps + 1
      BY <2>4
    <3>2. CASE table'.handID = table.handID /\ table'.lastResult = table.lastResult
      BY <1>1, <3>1, <3>2 DEF OnRecord, Pending
    <3>3. CASE table'.ready = Nobody
      BY <1>1, <3>1, <3>3 DEF Nobody, Playable
    <3>. QED
      BY <2>1, <3>2, <3>3 DEF Follows
  <2>. QED
    BY <2>4, <2>5 DEF OnRecord
<1>3. CASE Unsaved
  <2>1. /\ table'.handID = table.handID /\ table'.lastResult = table.lastResult
        /\ Playable(table') = Playable(table)
        /\ \A s \in Seats : table'.ready[s] => table.ready[s]
        /\ UNCHANGED <<saved, histories, loaded, fired, timer, mishaps>>
    BY <1>3 DEF Unsaved, Playable, database, clock
  <2>2. waiting' => waiting
    BY <1>3 DEF Unsaved
  <2>. QED
    BY <2>1, <2>2 DEF OnRecord, Unreachable, NotAhead, MissingTwice, Pending, RowOnRecord, Playable
<1>4. ASSUME NEW u \in Users, NEW b \in BuyIns, JoinUndone(u, b)  PROVE OnRecord'
  <2>1. /\ ~Unreachable /\ SamePlay(table, table') /\ table'.ready = Nobody
    BY <1>4, JoinUndoneRow DEF JoinUndone, Reached, Unreachable
  <2>2. PICK v : /\ Stands(v) /\ Persist(v, FALSE)
                 /\ v.handID = table.handID /\ v.lastResult = table.lastResult
    BY <1>4, JoinUndoneRow
  <2>3. mishaps' = mishaps + 1
    BY <2>2 DEF Persist, Mishap
  <2>4. NotAhead(v, histories) /\ MissingTwice(v, histories, mishaps')
    BY <1>1, <2>1, <2>2, <2>3 DEF OnRecord, NotAhead, MissingTwice
  <2>5. /\ NotAhead(v, histories') /\ MissingTwice(v, histories', mishaps') /\ RowOnRecord'
    BY <1>1, <2>2, <2>4, PersistRecords DEF OnRecord
  <2>6. table'.handID = v.handID /\ table'.lastResult = v.lastResult
    BY <2>1, <2>2 DEF SamePlay
  <2>7. NotAhead(table', histories') /\ MissingTwice(table', histories', mishaps')
    BY <2>5, <2>6 DEF NotAhead, MissingTwice
  <2>8. Pending'
    BY <1>1, <2>1, <2>3 DEF Pending, Nobody, Playable
  <2>. QED
    BY <2>5, <2>7, <2>8 DEF OnRecord
<1>5. CASE Restart
  <2>1. /\ UNCHANGED <<saved, histories>> /\ mishaps' = mishaps + 1
        /\ ~loaded' /\ ~waiting' /\ fired' = {} /\ timer' = 0
    BY <1>5 DEF Restart, Mishap, database
  <2>2. RowOnRecord'
    BY <1>1, <2>1 DEF OnRecord, RowOnRecord, NotAhead, MissingTwice
  <2>3. CASE saved = NoRow
    <3>1. table' = NewTable /\ Unreachable'
      BY <1>5, <2>1, <2>3, RestartStands DEF Unreachable
    <3>2. table'.handID = 0 /\ table'.lastResult = NoResult
      BY <3>1 DEF NewTable
    <3>. QED
      BY <2>2, <3>1, <3>2 DEF OnRecord, MissingTwice, Pending
  <2>4. CASE saved # NoRow
    <3>1. table'.handID = saved.handID /\ table'.lastResult = saved.lastResult
      BY <1>5, <2>4, RestartStands DEF SamePlay
    <3>2. NotAhead(table', histories') /\ MissingTwice(table', histories', mishaps')
      BY <2>1, <2>2, <2>4, <3>1 DEF RowOnRecord, NotAhead, MissingTwice
    <3>3. Pending'
      BY <2>1, <2>4, <3>1 DEF OnRecord, RowOnRecord, Pending
    <3>. QED
      BY <2>2, <3>2, <3>3 DEF OnRecord
  <2>. QED
    BY <2>3, <2>4
<1>6. CASE Idle
  <2>1. /\ ~Unreachable /\ UNCHANGED <<table, histories>> /\ mishaps' >= mishaps
        /\ saved' = saved \/ saved' = NoRow
    BY <1>1, <1>6 DEF Idle, Unreachable, vars, Mishap
  <2>. QED
    BY <1>1, <2>1 DEF OnRecord, NotAhead, MissingTwice, Pending, RowOnRecord
<1>7. CASE UNCHANGED allVars
  BY <1>7 DEF allVars, service, vars, database, clock, OnRecord, Unreachable, NotAhead,
              MissingTwice, Pending, RowOnRecord
<1>. QED
  BY <1>1, <1>2, <1>3, <1>4, <1>5, <1>6, <1>7, ServiceKinds

-----------------------------------------------------------------------------
(* The invariant of the service *)

\* The row and the table stand, turns are timed, the deleted table is out of reach,
\* what is saved is what is played, and the histories follow.
ServiceInv ==
  BothStand /\ TurnIsTimed /\ DeletedForGood /\ SavedAsIs /\ OnRecord

\* A new table on a server that has just started satisfies it.
LEMMA InitServiceInv == ServiceInit => ServiceInv
<1>. SUFFICES ASSUME ServiceInit PROVE ServiceInv
  OBVIOUS
<1>1. IInv /\ table = NewTable /\ saved = NewTable /\ supply = 0
  BY InitIInv DEF ServiceInit, Init
<1>2. BothStand
  BY <1>1, NewTableStands, NewTableBooks DEF BothStand, ServiceInit, ChipsNeverCreated
<1>3. /\ NewTable.handID = 0 /\ NewTable.lastResult = NoResult /\ ~HandActive(NewTable)
      /\ NewTable.expired = FALSE
  BY DEF NewTable, HandActive, BettingStreets
<1>. HIDE DEF NewTable
<1>7. NewTable = [NewTable EXCEPT !.expired = FALSE]
  <2>1. NewTable \in TableState
    BY NewTableSound DEF Sound
  <2>. QED
    BY <1>3, <2>1 DEF TableState
<1>4. TurnIsTimed /\ DeletedForGood
  BY <1>1, <1>3 DEF TurnIsTimed, DeletedForGood, ServiceInit
<1>5. SavedAsIs
  BY <1>1, <1>3, <1>7 DEF SavedAsIs, Row
<1>6. OnRecord
  <2>1. \A h \in 1..MaxHands : histories[h] = NoResult
    BY DEF ServiceInit
  <2>. QED
    BY <1>1, <1>3, <2>1 DEF OnRecord, NotAhead, MissingTwice, Pending, RowOnRecord
<1>. QED
  BY <1>2, <1>4, <1>5, <1>6 DEF ServiceInv

\* Every step of the service keeps it.
LEMMA NextServiceInv == ServiceInv /\ [ServiceNext]_allVars => ServiceInv'
<1>. SUFFICES ASSUME ServiceInv, [ServiceNext]_allVars PROVE ServiceInv'
  OBVIOUS
<1>1. BothStand /\ TurnIsTimed /\ DeletedForGood /\ SavedAsIs /\ OnRecord
  BY DEF ServiceInv
<1>2. BothStand' /\ table \in TableState
  BY <1>1, BothStandKept DEF BothStand, Stands, Sound
<1>. QED
  BY <1>1, <1>2, TimedKept, DeletedKept, SavedKept, RecordKept DEF ServiceInv

\* So it holds whatever fails.
LEMMA ServiceInvariant == ServiceSpec => []ServiceInv
BY InitServiceInv, NextServiceInv, PTL DEF ServiceSpec

-----------------------------------------------------------------------------
(* Theorems *)

\* Whatever fails, a running hand that is in memory has a timer or a callback on
\* its way, unless the save of its very deal failed.
THEOREM TurnsAreTimed == ServiceSpec => []TurnIsTimed
<1>1. ServiceInv => TurnIsTimed
  BY DEF ServiceInv
<1>. QED
  BY <1>1, ServiceInvariant, PTL

\* Unless the last save failed, a restart brings back the table as it was.
THEOREM RestartsResume == ServiceSpec => []RestartResumes
<1>1. ServiceInv => RestartResumes
  BY DEF ServiceInv, SavedAsIs, RestartResumes
<1>. QED
  BY <1>1, ServiceInvariant, PTL

\* A table whose deletion was answered with success is never saved or loaded
\* again, by requests that waited for its lock or by timers.
THEOREM DeletedTablesStayDeleted == ServiceSpec => []DeletedStaysDeleted
<1>1. ServiceInv => DeletedStaysDeleted
  BY DEF ServiceInv, DeletedForGood, DeletedStaysDeleted
<1>. QED
  BY <1>1, ServiceInvariant, PTL

\* The histories agree with the saved table and miss a hand only after two failed
\* database calls or restarts.
THEOREM HandsAreOnRecord == ServiceSpec => []HandsOnRecord
<1>1. ServiceInv => HandsOnRecord
  BY DEF ServiceInv, OnRecord, RowOnRecord, MissingTwice, HandsOnRecord
<1>. QED
  BY <1>1, ServiceInvariant, PTL

\* Failed saves, restarts and joins that are undone do not disturb the game: the
\* turn is with a seat that has a decision to make, streets close matched and no
\* chips are made, counted from the last restart.
THEOREM GameSurvivesRestarts ==
  ServiceSpec => [](TypeOK /\ TurnIsPlayable /\ StreetsClosedMatched /\ ChipsNeverCreated)
<1>1. ServiceInv => TypeOK /\ TurnIsPlayable /\ StreetsClosedMatched /\ ChipsNeverCreated
  BY DEF ServiceInv, BothStand, Stands, IInv, Sound, TurnPlayable, TurnIsPlayable,
         Level, StreetsClosedMatched
<1>. QED
  BY <1>1, ServiceInvariant, PTL
=============================================================================
