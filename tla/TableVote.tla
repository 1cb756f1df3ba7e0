------------------------------ MODULE TableVote ------------------------------
(***************************************************************************)
(* The vote to remove a player (handleTableKickVote) at a hold'em table.    *)
(* The vote lives beside the table, in the runtime's memory: every handler  *)
(* that moves the table must also decide what becomes of a running vote,    *)
(* and a handler whose save fails returns before it does.                   *)
(***************************************************************************)
EXTENDS HoldemTable

CONSTANTS NoVote,      \* runtime.kickVote = nil
          MaxUnsaved   \* bound: saves that fail after the table has changed

ASSUME VoteAssumption == MaxUnsaved \in Nat

VARIABLES
  vote,          \* runtime.kickVote: its target, its voters, who said yes and who no
  barred,        \* users whose kickedUntil has not passed
  failedSaves    \* history: failed saves so far

voteVars   == <<vote, barred, failedSaves>>
votingVars == <<vars, voteVars>>

UserIn(s)   == table.user[s]
Funded      == {UserIn(s) : s \in Playable(table)}
Seated(u)   == SeatOf(table, u) # {}
IsReady(u)  == \E s \in SeatOf(table, u) : table.ready[s]

-----------------------------------------------------------------------------
(* The table's own operations and what they do to a vote. *)

\* The save after a change fails: the handler returns at once.
SaveFails == failedSaves < MaxUnsaved /\ failedSaves' = failedSaves + 1 /\ UNCHANGED vote

JoinTable(u, buyIn) ==
  /\ vote = NoVote /\ u \notin barred
  /\ Join(u, buyIn)
  /\ UNCHANGED voteVars

\* Mutant: a player who leaves does not end the vote.
LeaveTableVoting(u) ==
  /\ Leave(u)
  /\ UNCHANGED voteVars

\* Whoever leaves ends the vote.
LeaveTable(u) ==
  /\ Leave(u)
  /\ \/ vote' = NoVote /\ UNCHANGED failedSaves
     \/ SaveFails
  /\ UNCHANGED barred

\* A hand has begun, or the target is ready or gone (a leave whose save failed has
\* left the vote behind).
NoMoreToVote(t, target) ==
  HandActive(t) \/ SeatOf(t, target) = {} \/ \E s \in SeatOf(t, target) : t.ready[s]

\* Getting ready ends a vote that is about nothing any more.
ReadyAtTable(u) ==
  /\ Ready(u) \/ ReadyAndDeal(u)
  /\ \/ /\ vote' = IF vote # NoVote /\ NoMoreToVote(table', vote.target) THEN NoVote ELSE vote
        /\ UNCHANGED failedSaves
     \/ SaveFails
  /\ UNCHANGED barred

Play ==
  /\ \/ \E u \in Users : ReadyWithoutShuffle(u)
     \/ \E s \in Seats : Fold(s) \/ Check(s) \/ Call(s) \/ AllIn(s)
     \/ \E s \in Seats, n \in 1..MaxChips : Bet(s, n) \/ Raise(s, n)
     \/ DeadlinePasses \/ Timeout(table.turnID)
  /\ UNCHANGED voteVars

-----------------------------------------------------------------------------
(* The vote. *)

\* Mutant: half of the voters are enough.
RequiredHalf(v) == Larger(1, Cardinality(v.voters) \div 2)

Required(v)  == Cardinality(v.voters) \div 2 + 1
Carried(v)   == Cardinality(v.yes) >= Required(v)
Hopeless(v)  == Cardinality(v.voters \ v.no) < Required(v)

\* cashOutPlayerLocked: the target is settled and leaves, unless he has left or
\* a hand has begun, the wallet could not be credited, or the save failed.
CashOutTarget(u) ==
  \/ /\ Leave(u)
     /\ \/ barred' = barred \cup {u} /\ UNCHANGED failedSaves
        \/ failedSaves < MaxUnsaved /\ failedSaves' = failedSaves + 1 /\ UNCHANGED barred
  \/ UNCHANGED <<vars, barred, failedSaves>>

\* The tail of handleTableKickVote.
Count(v) ==
  IF Carried(v) THEN vote' = NoVote /\ CashOutTarget(v.target)
  ELSE /\ vote' = IF Hopeless(v) THEN NoVote ELSE v
       /\ UNCHANGED <<vars, barred, failedSaves>>

\* newKickVote: a funded player proposes another funded player who is not ready.
StartVote(u, target) ==
  /\ vote = NoVote /\ ~HandActive(table)
  /\ u # target /\ {u, target} \subseteq Funded /\ ~IsReady(target)
  /\ Count([target |-> target, voters |-> Funded \ {target}, yes |-> {u}, no |-> {}])

CastVote(u, approve) ==
  /\ vote # NoVote
  /\ u \in vote.voters \ (vote.yes \cup vote.no)
  /\ Count(IF approve THEN [vote EXCEPT !.yes = @ \cup {u}]
           ELSE [vote EXCEPT !.no = @ \cup {u}])

\* A minute has passed: the next handler finds the vote expired and drops it.
VoteExpires == vote # NoVote /\ vote' = NoVote /\ UNCHANGED <<vars, barred, failedSaves>>
BarEnds(u)  == u \in barred /\ barred' = barred \ {u} /\ UNCHANGED <<vars, vote, failedSaves>>

VoteInit == Init /\ vote = NoVote /\ barred = {} /\ failedSaves = 0

VoteNext ==
  \/ \E u \in Users, b \in BuyIns : JoinTable(u, b)
  \/ \E u \in Users : LeaveTable(u) \/ ReadyAtTable(u) \/ BarEnds(u)
  \/ \E u, target \in Users : StartVote(u, target)
  \/ \E u \in Users, approve \in BOOLEAN : CastVote(u, approve)
  \/ VoteExpires \/ Play

VoteSpec == VoteInit /\ [][VoteNext]_votingVars

-----------------------------------------------------------------------------
(* Properties. *)

\* While a vote runs its voters are exactly the funded players at the table but
\* its target, who still sits there with chips and is not ready, and no hand is
\* played, and each of them has one voice -- though the handlers that join, leave, ready and deal are others
\* than those that vote.  A failed save may break it (table_handlers.go:520, 558).
VoteIsAboutTheTable ==
  (vote # NoVote /\ failedSaves = 0) =>
    /\ ~HandActive(table)
    /\ vote.voters = Funded \ {vote.target}
    /\ vote.target \in Funded /\ ~IsReady(vote.target)
    /\ vote.yes \cap vote.no = {} /\ vote.yes \cup vote.no \subseteq vote.voters

\* A removed player was not ready, and more than half of the others with chips
\* who sit there when he goes are for it; he is removed between two hands even
\* when a save failed meanwhile.
RemovedByMajority ==
  [][\A u \in barred' \ barred :
       /\ ~HandActive(table)
       /\ failedSaves = 0 =>
            /\ ~IsReady(u)
            /\ LET others == Funded \ {u}
                   yes    == IF vote = NoVote THEN 1 ELSE Cardinality(vote.yes) + 1
               IN  2 * yes > Cardinality(others)]_votingVars
=============================================================================
