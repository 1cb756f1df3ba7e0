---------------------------- MODULE TableService ----------------------------
(***************************************************************************)
(* A hold'em table as the server keeps it (internal/app/table_handlers.go): *)
(* the runtime in memory with its lock and turn timer, the row in the       *)
(* database, the histories of finished hands, and restarts.                 *)
(*                                                                         *)
(* A handler holds the runtime's lock from its first look at the table to   *)
(* its answer, so it is one action; only the lookup of the runtime comes    *)
(* earlier. "table" is the runtime's table; while no runtime is loaded it   *)
(* is what the next load will read. A removal of all players by a manager   *)
(* is the players' departures, as far as the table is concerned.            *)
(***************************************************************************)
EXTENDS HoldemTable

CONSTANTS
  NoRow,         \* the database has no row of this table
  MaxMishaps     \* bound: failed database calls and restarts

ASSUME ServiceAssumption == MaxMishaps \in Nat /\ NoRow \notin TableState

VARIABLES
  saved,        \* the saved table, or NoRow
  histories,    \* the recorded result of each hand, NoResult if there is none
  loaded,       \* the registry of runtimes has the table
  deleted,      \* the runtime's mark that its table was deleted
  waiting,      \* a request has looked the runtime up and waits for its lock
  timer,        \* turn of the armed timer, 0 if none is armed
  timerTurn,    \* turn the runtime expects a timer for, 0 for none
  fired,        \* turns whose timer ran out and whose callback waits for the lock
  unsaved,      \* history: the last save of the table reported an error
  untimed,      \* history: the hand was dealt and its save reported an error
  gone,         \* history: a deletion was answered with success
  mishaps       \* history: failed database calls and restarts

database == <<saved, histories>>
clock    == <<timer, timerTurn>>
service  == <<database, loaded, deleted, waiting, clock, fired, unsaved,
              untimed, gone, mishaps>>
allVars  == <<vars, service>>

-----------------------------------------------------------------------------
(* Database, timer and lock *)

\* The deadline is saved as a time; that it has passed is not.
Row(t) == [t EXCEPT !.expired = FALSE]

\* The histories with the result that t shows, unless its hand has one already.
Recorded(t) ==
  [h \in 1..MaxHands |->
     IF h = t.handID /\ t.lastResult # NoResult /\ histories[h] = NoResult
       THEN t.lastResult ELSE histories[h]]

Mishap == mishaps < MaxMishaps /\ mishaps' = mishaps + 1

\* Mutant: the histories are written on their own, before the table.
PersistInTwo(t, done) ==
  /\ IF done THEN UNCHANGED mishaps ELSE Mishap
  /\ unsaved' = ~done
  /\ histories' = Recorded(t)
  /\ \/ saved' = Row(t)
     \/ ~done /\ UNCHANGED saved

\* Saves t and the result it shows in one transaction. "done" is what the
\* handler is told; after an error the transaction may have been committed.
Persist(t, done) ==
  /\ IF done THEN UNCHANGED mishaps ELSE Mishap
  /\ unsaved' = ~done
  /\ \/ saved' = Row(t) /\ histories' = Recorded(t)
     \/ ~done /\ UNCHANGED database

TimedTurn(t) == IF HandActive(t) /\ t.acting # NoSeat THEN t.turnID ELSE 0

\* syncTableTimerLocked: any timer is stopped and one armed for the turn of t.
SyncTimer(t) == timer' = TimedTurn(t) /\ timerTurn' = TimedTurn(t)

\* Mutant: a request that waited for the lock does not look at the mark.
ReachedUnchecked ==
  \/ loaded /\ UNCHANGED waiting
  \/ waiting /\ waiting' = FALSE

\* A request has the runtime, which is not marked deleted, and its lock.
Reached ==
  /\ ~deleted
  /\ \/ loaded /\ UNCHANGED waiting
     \/ waiting /\ waiting' = FALSE

\* Ready and actions synchronise the timer once the table is saved; when the
\* save fails the handler returns with the timer as it was.
SaveAndSync(done) ==
  /\ Persist(table', done)
  /\ IF done THEN SyncTimer(table') ELSE UNCHANGED clock
  /\ untimed' = /\ ~done /\ HandActive(table')
                /\ untimed \/ ~HandActive(table)
  /\ UNCHANGED <<loaded, deleted, fired, gone>>

\* Joining and leaving do not touch the timer.
SaveOnly(done) ==
  /\ Persist(table', done)
  /\ UNCHANGED <<loaded, deleted, clock, fired, untimed, gone>>

-----------------------------------------------------------------------------
(* Requests *)

Lookup ==
  /\ loaded /\ ~waiting
  /\ waiting' = TRUE
  /\ UNCHANGED <<vars, database, loaded, deleted, clock, fired, unsaved,
                 untimed, gone, mishaps>>

\* The table was deleted while the request waited: not found.
LookupRefused ==
  /\ waiting /\ deleted
  /\ waiting' = FALSE
  /\ UNCHANGED <<vars, database, loaded, deleted, clock, fired, unsaved,
                 untimed, gone, mishaps>>

JoinRequest(u, buyIn) ==
  /\ Reached
  /\ Join(u, buyIn)
  /\ \E done \in BOOLEAN : (done \/ HandActive(table)) /\ SaveOnly(done)

\* A save that fails between hands makes the player leave again, unsaved.
JoinUndone(u, buyIn) ==
  /\ Reached
  /\ MoreToCome /\ supply + buyIn <= MaxChips
  /\ ~HandActive(table)
  /\ SeatOf(table, u) = {} /\ Occupied(table) # Seats
  /\ LET seat == NextIn(Seats \ Occupied(table), NoSeat)
     IN  Persist([table EXCEPT !.user[seat] = u, !.stack[seat] = buyIn,
                               !.ready = Nobody], FALSE)
  /\ table' = [table EXCEPT !.ready = Nobody]
  /\ UNCHANGED <<supply, dealt, spoke, shown, loaded, deleted, clock, fired,
                 untimed, gone>>

LeaveRequest(u) ==
  /\ Reached
  /\ Leave(u)
  /\ \E done \in BOOLEAN : SaveOnly(done)

ReadyRequest(u) ==
  /\ Reached
  /\ Ready(u) \/ ReadyAndDeal(u)
  /\ \E done \in BOOLEAN : SaveAndSync(done)

\* Without a random source the handler returns before it saves.
ReadyRefused(u) ==
  /\ Reached
  /\ ReadyWithoutShuffle(u)
  /\ UNCHANGED <<database, loaded, deleted, clock, fired, unsaved, untimed,
                 gone, mishaps>>

ActionRequest(s) ==
  /\ Reached
  /\ \/ Fold(s) \/ Check(s) \/ Call(s) \/ AllIn(s)
     \/ \E n \in 1..MaxChips : Bet(s, n) \/ Raise(s, n)
  /\ \E done \in BOOLEAN : SaveAndSync(done)

\* An empty table is deleted. When the row cannot be deleted, or its deletion
\* is not known, the runtime lives on.
DeleteRequest ==
  /\ Reached
  /\ Occupied(table) = {}
  /\ UNCHANGED <<vars, histories, fired, unsaved, untimed>>
  /\ \/ /\ saved # NoRow /\ saved' = NoRow
        /\ deleted' = TRUE /\ loaded' = FALSE /\ gone' = TRUE
        /\ timer' = 0 /\ timerTurn' = 0
        /\ UNCHANGED mishaps
     \/ /\ saved' \in {saved, NoRow}
        /\ Mishap
        /\ UNCHANGED <<deleted, loaded, gone, clock>>

-----------------------------------------------------------------------------
(* Timers and the process *)

ClockPasses == DeadlinePasses /\ UNCHANGED service

\* The armed timer runs out, possibly early: the deadline is read off a clock
\* that may be set back.
TimerFires ==
  /\ timer # 0
  /\ timer' = 0 /\ fired' = fired \cup {timer}
  /\ UNCHANGED <<vars, database, loaded, deleted, waiting, timerTurn, unsaved,
                 untimed, gone, mishaps>>

\* A callback whose turn is no longer the expected one returns at once.
CallbackLate(id) ==
  /\ id \in fired /\ fired' = fired \ {id}
  /\ deleted \/ timerTurn # id
  /\ UNCHANGED <<vars, database, loaded, deleted, waiting, clock, unsaved,
                 untimed, gone, mishaps>>

\* Mutant: a timeout is not saved.
CallbackPlaysUnsaved(id) ==
  /\ id \in fired /\ fired' = fired \ {id}
  /\ ~deleted /\ timerTurn = id
  /\ Timeout(id)
  /\ SyncTimer(table')
  /\ untimed' = FALSE
  /\ UNCHANGED <<database, unsaved, mishaps, loaded, deleted, waiting, gone>>

\* The callback plays for the player; the timer is synchronised whether or not
\* the save succeeds.
CallbackPlays(id) ==
  /\ id \in fired /\ fired' = fired \ {id}
  /\ ~deleted /\ timerTurn = id
  /\ Timeout(id)
  /\ \E done \in BOOLEAN : Persist(table', done)
  /\ SyncTimer(table')
  /\ untimed' = FALSE
  /\ UNCHANGED <<loaded, deleted, waiting, gone>>

TimeoutApplies(id) ==
  HandActive(table) /\ table.acting # NoSeat /\ id = table.turnID /\ table.expired

\* Mutant: a timer that finds nothing to do is not followed by another.
CallbackGivesUp(id) ==
  /\ id \in fired /\ fired' = fired \ {id}
  /\ ~deleted /\ timerTurn = id
  /\ ~TimeoutApplies(id)
  /\ timer' = 0 /\ timerTurn' = 0
  /\ untimed' = FALSE
  /\ UNCHANGED <<vars, database, unsaved, mishaps, loaded, deleted, waiting, gone>>

\* The timer was early, or is one that a failed save left behind: a timer for
\* the turn there is now takes its place.
CallbackRearms(id) ==
  /\ id \in fired /\ fired' = fired \ {id}
  /\ ~deleted /\ timerTurn = id
  /\ ~TimeoutApplies(id)
  /\ SyncTimer(table)
  /\ untimed' = FALSE
  /\ UNCHANGED <<vars, database, unsaved, mishaps, loaded, deleted, waiting, gone>>

Callback(id) == CallbackLate(id) \/ CallbackPlays(id) \/ CallbackRearms(id)

\* The process stops and starts again: what is left is the row. A deadline that
\* has passed stays passed.
Restart ==
  /\ Mishap
  /\ loaded' = FALSE /\ deleted' = FALSE /\ waiting' = FALSE
  /\ timer' = 0 /\ timerTurn' = 0 /\ fired' = {}
  /\ unsaved' = FALSE /\ untimed' = FALSE
  /\ IF saved = NoRow THEN table' = NewTable
     ELSE \E e \in BOOLEAN :
       /\ e => HandActive(saved)
       /\ saved.turnID = table.turnID => e = table.expired
       /\ table' = [saved EXCEPT !.expired = e]
  /\ supply' = Chips(table')
  /\ UNCHANGED <<dealt, spoke, shown, database, gone>>

\* runtimeForTable: the first request for a table loads it and arms its timer.
\* The list of tables, which every open channel page asks for again and again,
\* loads every table.
Load ==
  /\ ~loaded /\ saved # NoRow
  /\ loaded' = TRUE
  /\ SyncTimer(table)
  /\ UNCHANGED <<vars, database, deleted, waiting, fired, unsaved, untimed,
                 gone, mishaps>>

-----------------------------------------------------------------------------
ServiceInit ==
  /\ Init
  /\ saved = NewTable /\ histories = [h \in 1..MaxHands |-> NoResult]
  /\ loaded = TRUE /\ deleted = FALSE /\ waiting = FALSE
  /\ timer = 0 /\ timerTurn = 0 /\ fired = {}
  /\ unsaved = FALSE /\ untimed = FALSE /\ gone = FALSE
  /\ mishaps = 0

ServiceNext ==
  \/ Lookup
  \/ LookupRefused
  \/ \E u \in Users, b \in BuyIns : JoinRequest(u, b)
  \/ \E u \in Users, b \in BuyIns : JoinUndone(u, b)
  \/ \E u \in Users : LeaveRequest(u)
  \/ \E u \in Users : ReadyRequest(u)
  \/ \E u \in Users : ReadyRefused(u)
  \/ \E s \in Seats : ActionRequest(s)
  \/ DeleteRequest
  \/ ClockPasses
  \/ TimerFires
  \/ \E id \in fired : Callback(id)
  \/ Restart
  \/ Load

\* Time passes, timers run out and their callbacks get the lock, and somebody
\* has a page of the channel open. Nobody needs to play.
ServiceSpec ==
  /\ ServiceInit /\ [][ServiceNext]_allVars
  /\ WF_allVars(ClockPasses)
  /\ WF_allVars(TimerFires)
  /\ WF_allVars(\E id \in fired : Callback(id))
  /\ WF_allVars(Load)

-----------------------------------------------------------------------------
(* Properties *)

\* As long as a hand runs, a timer is armed for some turn, or its callback is on
\* its way, and the runtime expects it: failed saves, late callbacks and early
\* timers included. The one exception is a hand whose very deal was not saved.
TurnIsTimed ==
  loaded /\ HandActive(table) =>
    \/ untimed
    \/ timerTurn # 0 /\ (timer = timerTurn \/ timerTurn \in fired)

\* Unless a save has failed, a restart brings the table back as it is in memory;
\* only the word of a player whose deal failed for want of a shuffle may differ.
RestartResumes ==
  loaded /\ ~unsaved /\ saved # NoRow =>
    [Row(table) EXCEPT !.ready = Nobody] = [saved EXCEPT !.ready = Nobody]

\* A table whose deletion was answered with success never comes back, although
\* saving is an upsert and requests may have looked it up before.
DeletedStaysDeleted == gone => saved = NoRow /\ ~loaded

\* The histories agree with the saved table, whatever was replayed after a
\* restart, and a hand is missing in them only when two database calls failed.
HandsOnRecord ==
  /\ saved # NoRow /\ saved.lastResult # NoResult =>
       histories[saved.handID] = saved.lastResult
  /\ \A h \in 1..MaxHands :
       h < table.handID /\ histories[h] = NoResult => mishaps >= 2

\* Every hand ends although nobody acts any more and although saves fail and the
\* process restarts, unless its deal was not saved: such a hand has no timer.
HandEnds == HandActive(table) ~> ~HandActive(table) \/ untimed

=============================================================================
