----------------------------- MODULE TableScene -----------------------------
(***************************************************************************)
(* The hold'em screen (PokerRoom.tsx) over the table and its vote: which    *)
(* requests it lets a viewer post (run).  Wording, drawing, sizes and       *)
(* timing are left out; a step of the bet slider (50 cents) is one chip.    *)
(***************************************************************************)
EXTENDS TableVote

\* What run() posts: the path, or the action, and what goes with it.
Post(path)           == [path |-> path, amount |-> 0, target |-> NoUser]
PostAmounts(path, N) == {[Post(path) EXCEPT !.amount = n] : n \in N}
If(ok, R)            == IF ok THEN R ELSE {}

\* viewer_seat, allowed_actions, can_start and can_leave of the snapshot.
ViewerSeat(u) == IF Seated(u) THEN CHOOSE s \in SeatOf(table, u) : TRUE ELSE NoSeat
CanAct(u)     == Seated(u) /\ HandActive(table) /\ ViewerSeat(u) = table.acting
Allowed(u)    == AllowedActions(table, ViewerSeat(u))
CanStart(u)   == ~HandActive(table) /\ u \in Funded /\ Cardinality(Funded) >= 2
CanLeave(u)   == Seated(u) /\ ~HandActive(table)

\* kickVoteForViewer: the viewer's part in a vote.
IsTarget(u) == vote # NoVote /\ u = vote.target
CanVote(u)  == vote # NoVote /\ u \in vote.voters \ (vote.yes \cup vote.no)

-----------------------------------------------------------------------------
(* The controls. *)

\* The join card of a viewer who is not seated.
JoinControls(u) == If(~Seated(u), PostAmounts("join", BuyIns))

\* The dock of a seated viewer who is not to act: a running vote hides the ready
\* button from everybody but its target.
LeaveAndReady(u) == If(CanLeave(u), {Post("leave")}) \cup If(~IsReady(u), {Post("ready")})
DockControls(u) ==
  IF ~Seated(u) \/ CanAct(u) THEN {}
  ELSE If(~CanStart(u) /\ CanLeave(u), {Post("leave")})
         \cup (IF IsTarget(u) THEN LeaveAndReady(u)
               ELSE IF vote # NoVote THEN If(CanVote(u), {Post("approve"), Post("reject")})
               ELSE If(CanStart(u), LeaveAndReady(u)))

\* The button on each seat that proposes its player for removal.
KickControls(u) ==
  If(CanStart(u) /\ vote = NoVote,
     {[Post("start") EXCEPT !.target = o] :
        o \in {o \in Funded \ {u} : ~IsReady(o)}})

\* quickAmount: a fraction of the pot on top of the current bet, within the slider.
Pot == SeatSum(table.committed)
Clamp(n, least, most) == Larger(least, Smaller(most, n))
QuickBets == {<<1, 3>>, <<1, 2>>, <<3, 4>>, <<1, 1>>}

\* Mutant: a quick bet is not clamped to what the snapshot allows.
QuickAmountUnclamped(a, q) == table.currentBet + (2 * Pot * q[1] + q[2]) \div (2 * q[2])

QuickAmount(a, q) ==
  Clamp(table.currentBet + (2 * Pot * q[1] + q[2]) \div (2 * q[2]), a.minRaiseTo, a.maxRaiseTo)

\* Every amount the bet button can hold: the one proposed, the slider, a quick bet.
FirstAmount(a) == IF a.minRaiseTo # 0 THEN a.minRaiseTo ELSE Larger(BigBlind, Pot)
Amounts(a) ==
  {FirstAmount(a)} \cup a.minRaiseTo..a.maxRaiseTo \cup {QuickAmount(a, q) : q \in QuickBets}

\* The buttons of the player to act.
ActionControls(u) ==
  IF ~Seated(u) \/ ~CanAct(u) THEN {}
  ELSE LET a == Allowed(u)
       IN  {Post("fold")}
             \cup If(a.canCheck, {Post("check")})
             \cup If(a.canCall, {Post("call")})
             \cup If(a.canAllIn, {Post("all_in")})
             \cup If(a.canBet, PostAmounts("bet", Amounts(a)))
             \cup If(~a.canBet /\ a.canRaise, PostAmounts("raise", Amounts(a)))

Controls(u) == JoinControls(u) \cup DockControls(u) \cup KickControls(u) \cup ActionControls(u)

\* Whether the handler of a request lets it through, cash desk and clock aside.
Accepts(u, r) ==
  LET s == ViewerSeat(u)
      Does == [join    |-> vote = NoVote /\ u \notin barred /\ Occupied(table) # Seats,
               leave   |-> ~HandActive(table),
               ready   |-> ~HandActive(table) /\ u \in Funded /\ Cardinality(Funded) >= 2,
               start   |-> /\ vote = NoVote /\ ~HandActive(table)
                           /\ {u, r.target} \subseteq Funded /\ ~IsReady(r.target),
               approve |-> CanVote(u),
               reject  |-> CanVote(u)]
      Plays == [fold   |-> TRUE,
                check  |-> ToCall(table, s) = 0,
                call   |-> ToCall(table, s) # 0,
                all_in |-> AllInAccepted(table, s),
                bet    |-> table.currentBet = 0 /\ RaiseAccepted(table, s, r.amount),
                raise  |-> table.currentBet # 0 /\ RaiseAccepted(table, s, r.amount)]
  IN  IF r.path \in DOMAIN Does THEN Does[r.path]
      ELSE HandActive(table) /\ s = table.acting /\ Plays[r.path]

-----------------------------------------------------------------------------
(* Properties. *)

\* The controls of an up-to-date picture are exactly what its table lets the
\* viewer do.  Nothing they post is refused, whatever slider, quick bet and first
\* proposal leave in the bet button (but joining a table that is full, that votes
\* or that bars the viewer: an outsider's picture tells none of it, nor is it
\* promised while a failed save has left a vote out of step with its table).  And
\* whatever seat and hand allow is there to be clicked, so that nobody is stuck,
\* but for ready while a vote about somebody else is open.
ControlsExact ==
  \A u \in Users :
    /\ failedSaves = 0 => \A r \in Controls(u) : r.path = "join" \/ Accepts(u, r)
    /\ CanAct(u) =>
         /\ \A path \in {"fold", "check", "call", "all_in"} :
              Accepts(u, Post(path)) => Post(path) \in Controls(u)
         /\ \A path \in {"bet", "raise"} :
              (\E r \in PostAmounts(path, 1..MaxChips) : Accepts(u, r))
                => \E r \in Controls(u) : r.path = path
    /\ Seated(u) /\ ~HandActive(table) /\ vote = NoVote => Post("leave") \in Controls(u)
    /\ u \in Funded /\ Cardinality(Funded) >= 2 /\ ~HandActive(table) /\ ~IsReady(u)
         => Post("ready") \in Controls(u) \/ (vote # NoVote /\ ~IsTarget(u))
=============================================================================
