------------------------------- MODULE Cashier -------------------------------
(***************************************************************************)
(* Buying in and cashing out (internal/app/table_handlers.go, with the      *)
(* wallet operations and seat rows of internal/store/store.go, and the      *)
(* manual adjustments of balance_handlers.go).                              *)
(*                                                                         *)
(* A player's money is quota at New API, an external service, or chips at  *)
(* a table. A request moves it from one to the other in several steps, each *)
(* of which may fail, and each of which may be the last before a restart;   *)
(* what it meant to do is written down as a wallet operation first.         *)
(*                                                                         *)
(* Of a table this module sees who sits there with how many chips and      *)
(* whether a hand is played (see CardGame): in memory, guarded by the       *)
(* runtime's lock, and as last saved in the database. A handler's steps     *)
(* between two points where another request, or a restart, can tell the     *)
(* difference are one action.                                              *)
(***************************************************************************)
EXTENDS Sums, Sequences, FiniteSets

CONSTANTS
  Users, Tables,
  Workers,          \* handlers that may run at the same time
  Nobody,           \* holder of a free lock; nobody's seat row
  SeatsPerTable,
  Quota,            \* what each user has at New API at first
  BuyIns,           \* amounts to buy in
  StartChips,       \* of each user seated at first
  Scenes,           \* by name: what is played, by whom, and what may go wrong
  MaxOps            \* bound: wallet operations

\* refused: New API refuses or is not reached;  unanswered: its answer is lost
\* save:    a save fails;      unsure: a save fails although it is committed
\* row:     a change of a seat row fails;  note: a change of an operation fails
\* restart: the process stops at any moment and is started again
AllFaults == {"refused", "unanswered", "save", "unsure", "row", "note", "restart"}

\* A scene: whether a player may sit down during a hand (poker) or not
\* (landlord), the users who ask to join, who sits where at first, the manual
\* adjustments (positive to add, negative to subtract), and the faults.
ASSUME CashierAssumption ==
  /\ Nobody \notin Users \cup Tables \cup Workers
  /\ IsFiniteSet(Users) /\ IsFiniteSet(Tables)
  /\ SeatsPerTable \in Nat \ {0}
  /\ Quota \in Nat /\ StartChips \in Nat /\ MaxOps \in Nat
  /\ BuyIns \subseteq Nat \ {0}
  /\ \A name \in DOMAIN Scenes :
       LET sc == Scenes[name]
       IN  /\ sc.joinMidHand \in BOOLEAN
           /\ sc.players \subseteq Users
           /\ sc.seated \in [Tables -> SUBSET sc.players]
           /\ \A t, o \in Tables : t # o => sc.seated[t] \cap sc.seated[o] = {}
           /\ sc.adjustments \subseteq Int \ {0}
           /\ sc.faults \subseteq AllFaults

VARIABLES
  scene,      \* the scene's name
  quota,      \* New API: quota of each user
  memory,     \* tables as the process knows them
  disk,       \* tables as last saved
  lock,       \* who holds each table's lock
  row,        \* active_table_seats: each user's row
  inFlight,   \* tableJoinInFlight: users with a join under way
  ops,        \* wallet_operations, in the order they were created
  adjusting,  \* who holds balanceMu
  work        \* what each handler is doing

vars == <<scene, quota, memory, disk, lock, row, inFlight, ops, adjusting, work>>

-----------------------------------------------------------------------------
(* Data *)

JoinMidHand   == Scenes[scene].joinMidHand
Faults        == Scenes[scene].faults
SeatedAtFirst == Scenes[scene].seated
Players       == Scenes[scene].players

Table == [seated : SUBSET Users, hand : SUBSET Users, chips : [Users -> Nat]]

NoRow == [table |-> Nobody, status |-> "none", stale |-> FALSE]
Row == {NoRow} \cup [table : Tables, status : {"pending", "active"}, stale : BOOLEAN]

Statuses == {"pending", "completed", "compensated", "manual_review"}

\* A wallet operation: "cents" is what it moves to the user's quota. History:
\* "doubtful" if an answer of New API or of a save was lost on its way.
Operation ==
  [user : Users, kind : {"buy_in", "cash_out", "manual"}, cents : Int,
   status : Statuses, doubtful : BOOLEAN, unsure : BOOLEAN]

Stages ==
  {"idle", "scan", "reserve", "enter", "debit", "sit", "refund", "finish", "release",
   "pay", "vacate", "credit", "leave", "close", "adjust"}

\* What a handler is doing, with the operation it booked (0 for none) and, when
\* players are settled, those that are left.
Work ==
  [at : Stages, user : Users \cup {Nobody}, table : Tables \cup {Nobody},
   op : Nat, rest : SUBSET Users]

Idle == [at |-> "idle", user |-> Nobody, table |-> Nobody, op |-> 0, rest |-> {}]

Playing(t) == t.hand # {}

Sit(t, u, n) ==
  [t EXCEPT !.seated = @ \cup {u}, !.chips[u] = n]

StandUp(t, u) ==
  [t EXCEPT !.seated = @ \ {u}, !.chips[u] = 0]

\* Join of the game: refused when the table is full, and by landlord in a hand.
MaySit(t, u) ==
  /\ u \notin t.seated
  /\ Cardinality(t.seated) < SeatsPerTable
  /\ JoinMidHand \/ ~Playing(t)

-----------------------------------------------------------------------------
(* Calls that may fail, as sets of outcomes *)

\* AdjustQuota: was the quota changed, and does the caller know?
Adjusting ==
  {[applied |-> TRUE, ok |-> TRUE]}
    \cup (IF "refused" \in Faults THEN {[applied |-> FALSE, ok |-> FALSE]} ELSE {})
    \cup (IF "unanswered" \in Faults THEN {[applied |-> TRUE, ok |-> FALSE]} ELSE {})

\* persistRuntime: was the table saved, and does the caller know?
Saving ==
  {[saved |-> TRUE, ok |-> TRUE]}
    \cup (IF "save" \in Faults THEN {[saved |-> FALSE, ok |-> FALSE]} ELSE {})
    \cup (IF "unsure" \in Faults THEN {[saved |-> TRUE, ok |-> FALSE]} ELSE {})

\* What a statement on a row or an operation leaves: its effect, or nothing.
OrNot(fault, before, after) == {after} \cup (IF fault \in Faults THEN {before} ELSE {})

\* Operation i takes a status, or keeps the one it has because the update fails.
Note(book, i, status) ==
  OrNot("note", book, [book EXCEPT ![i].status = status])

Marked(book, i, adjust) ==
  [book EXCEPT ![i].doubtful = @ \/ (adjust.applied /\ ~adjust.ok)]

Released(u, t) == IF row[u].table = t THEN [row EXCEPT ![u] = NoRow] ELSE row

-----------------------------------------------------------------------------
(* Buying in (handleTableJoin, reserveTableJoin) *)

\* Mutant: a user may have several joins under way.
RequestJoinAgain(w, u, t) ==
  /\ work[w] = Idle
  /\ inFlight' = inFlight \cup {u}
  /\ work' = [work EXCEPT ![w] = [Idle EXCEPT !.at = "scan", !.user = u, !.table = t]]
  /\ UNCHANGED <<scene, quota, memory, disk, lock, row, ops, adjusting>>

\* A user asks to join a table; a second request of his is turned away.
RequestJoin(w, u, t) ==
  /\ work[w] = Idle
  /\ u \notin inFlight
  /\ inFlight' = inFlight \cup {u}
  /\ work' = [work EXCEPT ![w] = [Idle EXCEPT !.at = "scan", !.user = u, !.table = t]]
  /\ UNCHANGED <<scene, quota, memory, disk, lock, row, ops, adjusting>>

\* userSeatedTableGlobally: the saved tables are searched for the user.
Scan(w) ==
  LET u == work[w].user
  IN  /\ work[w].at = "scan"
      /\ \/ /\ \E t \in Tables : u \in disk[t].seated
            /\ work' = [work EXCEPT ![w] = Idle]
            /\ inFlight' = inFlight \ {u}
         \/ /\ \A t \in Tables : u \notin disk[t].seated
            /\ work' = [work EXCEPT ![w].at = "reserve"]
            /\ UNCHANGED inFlight
      /\ UNCHANGED <<scene, quota, memory, disk, lock, row, ops, adjusting>>

\* A reservation older than five minutes is taken over, any other row stands.
Reservable(u) == row[u] = NoRow \/ (row[u].status = "pending" /\ row[u].stale)

Reserve(w) ==
  LET u == work[w].user
  IN  /\ work[w].at = "reserve"
      /\ \/ /\ Reservable(u)
            /\ row' = [row EXCEPT ![u] =
                 [table |-> work[w].table, status |-> "pending", stale |-> FALSE]]
            /\ work' = [work EXCEPT ![w].at = "enter"]
            /\ UNCHANGED inFlight
         \/ /\ ~Reservable(u) \/ "row" \in Faults
            /\ work' = [work EXCEPT ![w] = Idle]
            /\ inFlight' = inFlight \ {u}
            /\ UNCHANGED row
      /\ UNCHANGED <<scene, quota, memory, disk, lock, ops, adjusting>>

\* Any of the checks before the operation is booked fails: a bad amount, a
\* vote, a ban, a seat already taken, New API not reached, too little quota.
Refuse(w) ==
  /\ work[w].at = "enter"
  /\ work' = [work EXCEPT ![w].at = "release"]
  /\ UNCHANGED <<scene, quota, memory, disk, lock, row, inFlight, ops, adjusting>>

\* The table is locked, the user's quota read, and the operation booked.
BookBuyIn(w, n) ==
  LET u == work[w].user  t == work[w].table
  IN  /\ work[w].at = "enter" /\ Len(ops) < MaxOps
      /\ lock[t] = Nobody
      /\ u \notin memory[t].seated
      /\ quota[u] >= n
      /\ lock' = [lock EXCEPT ![t] = w]
      /\ ops' = Append(ops, [user |-> u, kind |-> "buy_in", cents |-> -n,
                  status |-> "pending", doubtful |-> FALSE, unsure |-> FALSE])
      /\ work' = [work EXCEPT ![w].at = "debit", ![w].op = Len(ops')]
      /\ UNCHANGED <<scene, quota, memory, disk, row, inFlight, adjusting>>

Debit(w) ==
  LET u == work[w].user  i == work[w].op
  IN  /\ work[w].at = "debit"
      /\ \E adjust \in Adjusting :
           /\ quota' = IF adjust.applied THEN [quota EXCEPT ![u] = @ + ops[i].cents] ELSE quota
           /\ \/ adjust.ok /\ work' = [work EXCEPT ![w].at = "sit"] /\ UNCHANGED <<ops, lock>>
              \/ /\ ~adjust.ok
                 /\ ops' \in Note(Marked(ops, i, adjust), i, "manual_review")
                 /\ lock' = [lock EXCEPT ![work[w].table] = Nobody]
                 /\ work' = [work EXCEPT ![w].at = "release"]
      /\ UNCHANGED <<scene, memory, disk, row, inFlight, adjusting>>

\* The player sits down and the table is saved. When the save fails he is made
\* to leave again, which the game refuses during a hand.
SitDown(w) ==
  LET u == work[w].user  t == work[w].table  i == work[w].op
      sat == Sit(memory[t], u, -ops[i].cents)
  IN  /\ work[w].at = "sit"
      /\ \/ /\ ~MaySit(memory[t], u)
            /\ work' = [work EXCEPT ![w].at = "refund"]
            /\ UNCHANGED <<memory, disk, ops>>
         \/ /\ MaySit(memory[t], u)
            /\ \E save \in Saving :
                 /\ disk' = IF save.saved THEN [disk EXCEPT ![t] = sat] ELSE disk
                 /\ memory' = [memory EXCEPT ![t] =
                      IF save.ok \/ Playing(sat) THEN sat ELSE StandUp(sat, u)]
                 /\ ops' = [ops EXCEPT ![i].unsure = save.saved /\ ~save.ok]
                 /\ work' = [work EXCEPT ![w].at = IF save.ok THEN "finish" ELSE "refund"]
      /\ UNCHANGED <<scene, quota, lock, row, inFlight, adjusting>>

\* Mutant: a refund counts as made, confirmed or not.
RefundAssumedMade(w) ==
  LET u == work[w].user  i == work[w].op
  IN  /\ work[w].at = "refund"
      /\ \E adjust \in Adjusting :
           /\ quota' = IF adjust.applied THEN [quota EXCEPT ![u] = @ - ops[i].cents] ELSE quota
           /\ ops' \in Note(Marked(ops, i, adjust), i, "compensated")
      /\ lock' = [lock EXCEPT ![work[w].table] = Nobody]
      /\ work' = [work EXCEPT ![w].at = "release"]
      /\ UNCHANGED <<scene, memory, disk, row, inFlight, adjusting>>

Refund(w) ==
  LET u == work[w].user  i == work[w].op
  IN  /\ work[w].at = "refund"
      /\ \E adjust \in Adjusting :
           /\ quota' = IF adjust.applied THEN [quota EXCEPT ![u] = @ - ops[i].cents] ELSE quota
           /\ ops' \in Note(Marked(ops, i, adjust), i,
                            IF adjust.ok THEN "compensated" ELSE "manual_review")
      /\ lock' = [lock EXCEPT ![work[w].table] = Nobody]
      /\ work' = [work EXCEPT ![w].at = "release"]
      /\ UNCHANGED <<scene, memory, disk, row, inFlight, adjusting>>

\* The seat row becomes active, if there is one, and the operation complete.
FinishBuyIn(w) ==
  LET u == work[w].user  t == work[w].table
      activated == IF row[u].table = t THEN [row EXCEPT ![u].status = "active"] ELSE row
  IN  /\ work[w].at = "finish"
      /\ row' \in OrNot("row", row, activated)
      /\ ops' \in Note(ops, work[w].op, "completed")
      /\ lock' = [lock EXCEPT ![t] = Nobody]
      /\ inFlight' = inFlight \ {u}
      /\ work' = [work EXCEPT ![w] = Idle]
      /\ UNCHANGED <<scene, quota, memory, disk, adjusting>>

\* A join that came to nothing gives its reservation back.
Release(w) ==
  /\ work[w].at = "release"
  /\ row' \in OrNot("row", row, Released(work[w].user, work[w].table))
  /\ inFlight' = inFlight \ {work[w].user}
  /\ work' = [work EXCEPT ![w] = Idle]
  /\ UNCHANGED <<scene, quota, memory, disk, lock, ops, adjusting>>

-----------------------------------------------------------------------------
(* Cashing out (handleTableLeave, cashOutPlayerLocked, settleAllPlayersLocked) *)

\* Mutant: the stack is read and settled without keeping the lock.
BeginCashOutUnlocked(w, t, leaving) ==
  /\ work[w] = Idle
  /\ lock[t] = Nobody /\ ~Playing(memory[t])
  /\ leaving # {} /\ leaving \subseteq memory[t].seated
  /\ Cardinality(leaving) = 1 \/ leaving = memory[t].seated
  /\ work' = [work EXCEPT ![w] =
       [Idle EXCEPT !.at = "pay", !.table = t, !.rest = leaving]]
  /\ UNCHANGED <<scene, quota, memory, disk, lock, row, inFlight, ops, adjusting>>

\* One player leaves (or is voted off), or everybody is settled; not in a hand.
BeginCashOut(w, t, leaving) ==
  /\ work[w] = Idle
  /\ lock[t] = Nobody /\ ~Playing(memory[t])
  /\ leaving # {} /\ leaving \subseteq memory[t].seated
  /\ Cardinality(leaving) = 1 \/ leaving = memory[t].seated
  /\ lock' = [lock EXCEPT ![t] = w]
  /\ work' = [work EXCEPT ![w] =
       [Idle EXCEPT !.at = "pay", !.table = t, !.rest = leaving]]
  /\ UNCHANGED <<scene, quota, memory, disk, row, inFlight, ops, adjusting>>

\* What a handler does after player u is settled: the next one, or nothing more.
Onward(w, u) ==
  LET rest == work[w].rest \ {u}
  IN  /\ work' = [work EXCEPT ![w] =
           IF rest = {} THEN Idle
           ELSE [@ EXCEPT !.at = "pay", !.user = Nobody, !.op = 0, !.rest = rest]]
      /\ lock' = IF rest = {} THEN [lock EXCEPT ![work[w].table] = Nobody] ELSE lock

GiveUp(w) ==
  /\ work' = [work EXCEPT ![w] = Idle]
  /\ lock' = [lock EXCEPT ![work[w].table] = Nobody]

\* The player leaves the table, which is saved: the outcomes of the save.
LeaveAndSave(w, u, save) ==
  LET t == work[w].table
      left == StandUp(memory[t], u)
  IN  /\ memory' = [memory EXCEPT ![t] = left]
      /\ disk' = IF save.saved THEN [disk EXCEPT ![t] = left] ELSE disk

\* The database or the settings of the space fail before anything is booked.
StopPaying(w) ==
  /\ work[w].at = "pay"
  /\ GiveUp(w)
  /\ UNCHANGED <<scene, quota, memory, disk, row, inFlight, ops, adjusting>>

\* A player without chips just leaves, and then his seat row is released.
LeaveBroke(w, u) ==
  /\ work[w].at = "pay" /\ u \in work[w].rest
  /\ memory[work[w].table].chips[u] = 0
  /\ \E save \in Saving :
       /\ LeaveAndSave(w, u, save)
       /\ \/ /\ save.ok
             /\ work' = [work EXCEPT ![w].at = "vacate", ![w].user = u]
             /\ UNCHANGED lock
          \/ ~save.ok /\ GiveUp(w)
  /\ UNCHANGED <<scene, quota, row, inFlight, ops, adjusting>>

Vacate(w) ==
  LET u == work[w].user
  IN  /\ work[w].at = "vacate"
      /\ row' \in OrNot("row", row, Released(u, work[w].table))
      /\ Onward(w, u)
      /\ UNCHANGED <<scene, quota, memory, disk, inFlight, ops, adjusting>>

BookCashOut(w, u) ==
  LET n == memory[work[w].table].chips[u]
  IN  /\ work[w].at = "pay" /\ u \in work[w].rest /\ n > 0 /\ Len(ops) < MaxOps
      /\ ops' = Append(ops, [user |-> u, kind |-> "cash_out", cents |-> n,
                  status |-> "pending", doubtful |-> FALSE, unsure |-> FALSE])
      /\ work' = [work EXCEPT ![w].at = "credit", ![w].op = Len(ops')]
      /\ UNCHANGED <<scene, quota, memory, disk, lock, row, inFlight, adjusting>>

Credit(w) ==
  LET i == work[w].op
  IN  /\ work[w].at = "credit"
      /\ \E adjust \in Adjusting :
           /\ quota' = IF adjust.applied
                         THEN [quota EXCEPT ![ops[i].user] = @ + ops[i].cents] ELSE quota
           /\ \/ adjust.ok /\ work' = [work EXCEPT ![w].at = "leave"] /\ UNCHANGED <<ops, lock>>
              \/ /\ ~adjust.ok
                 /\ ops' \in Note(Marked(ops, i, adjust), i, "manual_review")
                 /\ GiveUp(w)
      /\ UNCHANGED <<scene, memory, disk, row, inFlight, adjusting>>

\* Mutant: a table that could not be saved does not matter.
DepartUnsaved(w) ==
  LET i == work[w].op
  IN  /\ work[w].at = "leave"
      /\ \E save \in Saving : LeaveAndSave(w, ops[i].user, save)
      /\ work' = [work EXCEPT ![w].at = "close"]
      /\ UNCHANGED <<scene, quota, lock, row, inFlight, ops, adjusting>>

Depart(w) ==
  LET i == work[w].op
  IN  /\ work[w].at = "leave"
      /\ \E save \in Saving :
           /\ LeaveAndSave(w, ops[i].user, save)
           /\ \/ save.ok /\ work' = [work EXCEPT ![w].at = "close"] /\ UNCHANGED <<ops, lock>>
              \/ ~save.ok /\ ops' \in Note(ops, i, "manual_review") /\ GiveUp(w)
      /\ UNCHANGED <<scene, quota, row, inFlight, adjusting>>

\* CompleteWalletOperationAndReleaseTableSeat: both or none.
Close(w) ==
  LET i == work[w].op  u == ops[i].user
  IN  /\ work[w].at = "close"
      /\ \/ /\ ops' = [ops EXCEPT ![i].status = "completed"]
            /\ row' = Released(u, work[w].table)
         \/ "row" \in Faults /\ UNCHANGED <<ops, row>>
      /\ Onward(w, u)
      /\ UNCHANGED <<scene, quota, memory, disk, inFlight, adjusting>>

-----------------------------------------------------------------------------
(* Manual adjustments (handleAdjustManagedBalance) *)

\* With balanceMu held, the quota is read and the operation booked.
BookAdjustment(w, u, n) ==
  /\ work[w] = Idle /\ adjusting = Nobody /\ Len(ops) < MaxOps
  /\ quota[u] + n >= 0
  /\ adjusting' = w
  /\ ops' = Append(ops, [user |-> u, kind |-> "manual", cents |-> n,
              status |-> "pending", doubtful |-> FALSE, unsure |-> FALSE])
  /\ work' = [work EXCEPT ![w] = [Idle EXCEPT !.at = "adjust", !.op = Len(ops')]]
  /\ UNCHANGED <<scene, quota, memory, disk, lock, row, inFlight>>

Adjust(w) ==
  LET i == work[w].op
  IN  /\ work[w].at = "adjust"
      /\ \E adjust \in Adjusting :
           /\ quota' = IF adjust.applied
                         THEN [quota EXCEPT ![ops[i].user] = @ + ops[i].cents] ELSE quota
           /\ ops' \in Note(Marked(ops, i, adjust), i,
                            IF adjust.ok THEN "completed" ELSE "manual_review")
      /\ adjusting' = Nobody
      /\ work' = [work EXCEPT ![w] = Idle]
      /\ UNCHANGED <<scene, memory, disk, lock, row, inFlight>>

-----------------------------------------------------------------------------
(* The games, time, and restarts *)

\* A step of the game that is saved whether or not its handler succeeds.
Played(t, after) ==
  /\ lock[t] = Nobody
  /\ memory' = [memory EXCEPT ![t] = after]
  /\ \E save \in Saving : disk' = IF save.saved THEN [disk EXCEPT ![t] = after] ELSE disk
  /\ UNCHANGED <<scene, quota, lock, row, inFlight, ops, adjusting, work>>

Deal(t) ==
  LET funded == {u \in memory[t].seated : memory[t].chips[u] > 0}
  IN  /\ ~Playing(memory[t]) /\ Cardinality(funded) >= 2
      /\ Played(t, [memory[t] EXCEPT !.hand = funded])

\* The hand ends; chips have moved from one of its players to another.
EndHand(t) ==
  \E winner, loser \in memory[t].hand : \E n \in {0, memory[t].chips[loser]} :
    /\ winner # loser
    /\ Played(t, [memory[t] EXCEPT !.hand = {},
                    !.chips[winner] = @ + n, !.chips[loser] = @ - n])

\* Five minutes pass.
ReservationAges(u) ==
  /\ row[u].status = "pending" /\ ~row[u].stale
  /\ row' = [row EXCEPT ![u].stale = TRUE]
  /\ UNCHANGED <<scene, quota, memory, disk, lock, inFlight, ops, adjusting, work>>

\* What is only in memory is gone; the tables are loaded as they were saved.
Restart ==
  /\ "restart" \in Faults
  /\ memory' = disk
  /\ lock' = [t \in Tables |-> Nobody]
  /\ inFlight' = {}
  /\ adjusting' = Nobody
  /\ work' = [w \in Workers |-> Idle]
  /\ UNCHANGED <<scene, quota, disk, row, ops>>

-----------------------------------------------------------------------------
Init ==
  /\ scene \in DOMAIN Scenes
  /\ quota = [u \in Users |-> Quota]
  /\ disk = [t \in Tables |-> [seated |-> SeatedAtFirst[t], hand |-> {},
       chips |-> [u \in Users |-> IF u \in SeatedAtFirst[t] THEN StartChips ELSE 0]]]
  /\ memory = disk
  /\ lock = [t \in Tables |-> Nobody]
  /\ row = [u \in Users |->
       IF \E t \in Tables : u \in SeatedAtFirst[t]
         THEN [table |-> CHOOSE t \in Tables : u \in SeatedAtFirst[t],
               status |-> "active", stale |-> FALSE]
         ELSE NoRow]
  /\ inFlight = {}
  /\ ops = <<>>
  /\ adjusting = Nobody
  /\ work = [w \in Workers |-> Idle]

WorkStep(w) ==
  \/ \E u \in Players, t \in Tables : RequestJoin(w, u, t)
  \/ Scan(w)
  \/ Reserve(w)
  \/ Refuse(w)
  \/ \E n \in BuyIns : BookBuyIn(w, n)
  \/ Debit(w)
  \/ SitDown(w)
  \/ Refund(w)
  \/ FinishBuyIn(w)
  \/ Release(w)
  \/ \E t \in Tables, leaving \in SUBSET Users : BeginCashOut(w, t, leaving)
  \/ StopPaying(w)
  \/ \E u \in Users : LeaveBroke(w, u)
  \/ Vacate(w)
  \/ \E u \in Users : BookCashOut(w, u)
  \/ Credit(w)
  \/ Depart(w)
  \/ Close(w)
  \/ \E u \in Players, n \in Scenes[scene].adjustments : BookAdjustment(w, u, n)
  \/ Adjust(w)

Next ==
  \/ \E w \in Workers : WorkStep(w)
  \/ \E t \in Tables : Deal(t)
  \/ \E t \in Tables : EndHand(t)
  \/ \E u \in Users : ReservationAges(u)
  \/ Restart

Spec == Init /\ [][Next]_vars

-----------------------------------------------------------------------------
(* Invariants *)

TypeOK ==
  /\ scene \in DOMAIN Scenes
  /\ quota \in [Users -> Int]
  /\ memory \in [Tables -> Table] /\ disk \in [Tables -> Table]
  /\ lock \in [Tables -> Workers \cup {Nobody}]
  /\ row \in [Users -> Row]
  /\ inFlight \subseteq Users
  /\ ops \in Seq(Operation)
  /\ adjusting \in Workers \cup {Nobody}
  /\ work \in [Workers -> Work]

Money == SumOf(quota, Users) + SumOf([t \in Tables |-> SumOf(memory[t].chips, Users)], Tables)

MoneyAtFirst ==
  Cardinality(Users) * Quota
    + StartChips * SumOf([t \in Tables |-> Cardinality(SeatedAtFirst[t])], Tables)

CentsOf(S) == SumOf([i \in DOMAIN ops |-> ops[i].cents], S)
Size(n) == IF n < 0 THEN -n ELSE n
SizeOf(S) == SumOf([i \in DOMAIN ops |-> Size(ops[i].cents)], S)

\* An operation somebody has to look at, or whose save had no clear answer.
Open == {i \in DOMAIN ops : ops[i].status \in {"pending", "manual_review"} \/ ops[i].unsure}

\* Whatever fails, and whenever the server stops: money that is missing or that
\* is there twice is explained by operations left pending or for review.
MoneyAccounted ==
  LET adjusted == {i \in DOMAIN ops : ops[i].kind = "manual" /\ ops[i].status = "completed"}
  IN  Size(Money - MoneyAtFirst - CentsOf(adjusted)) <= SizeOf(Open)

\* A player sits at one table only, also as the saved tables tell it.
SeatedOnce ==
  \A u \in Users : \A a, b \in Tables :
    u \in memory[a].seated \cup disk[a].seated /\ u \in memory[b].seated \cup disk[b].seated
      => a = b

\* An adjustment whose answer was lost is never taken as done or undone.
DoubtfulStaysOpen ==
  \A i \in DOMAIN ops : ops[i].doubtful => ops[i].status \in {"pending", "manual_review"}

\* What New API is told to credit is what the player leaves the table with: no
\* hand starts and no chip moves between reading the stack and leaving.
CreditIsStack ==
  \A w \in Workers :
    work[w].at \in {"credit", "leave"} =>
      LET op == ops[work[w].op]  t == memory[work[w].table]
      IN  op.user \in t.seated /\ op.cents = t.chips[op.user] /\ ~Playing(t)

\* Nobody's quota is taken below zero.
QuotaNotOverdrawn == \A u \in Users : quota[u] >= 0

=============================================================================
