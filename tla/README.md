# A formal model of PokerNode

TLA+ modules for the rules and the services of PokerNode, model-checked with TLC
and, but for liveness, proved with TLAPS. Every definition is translated
from the Go (or TypeScript) source; `PROJECT.json` maps it to the lines it stands
for. This file says what the system consists of, what is modelled, what was
checked and proved, and what is left.

## The system

PokerNode is one Go server process with a PostgreSQL database, a React client and
an external service, New API, that holds the players' money ("quota"). Players sit
down at tables of a *space* (channel) with chips bought from their quota, play
Texas hold'em or landlord (dou dizhu), and cash their chips out again.

| Component | State | Operations | Interacts with |
|---|---|---|---|
| Hold'em table `internal/poker/table.go` | seats (stack, bet, committed, marks), street, button, turn and its number, deadline, last result | Join, Leave, Ready, Act, Timeout, Snapshot | called by the runtime under its lock |
| Hand evaluation `internal/poker/evaluate.go`, `card.go` | none | Evaluate, shuffle | called at a showdown |
| Landlord table `internal/landlord/table.go` | three seats, phase, bids, last play, multiplier, turn | Join, Leave, Ready, Bid, Play, Pass, Timeout | called by the runtime |
| Combinations `internal/landlord/combination.go` | none | Classify, Beats, suggestions | landlord table |
| Table runtime `internal/app/game_runtime.go`, `table_handlers.go` | lock, table, timer and the turn it is armed for, vote, bans, deleted mark | action, ready, timeout, save, load after a restart | tables, database, hub |
| Buy-in and cash-out `table_handlers.go`, `store.go` | wallet operations and their status, `active_table_seats` rows, joins in flight | join, leave, settle all | New API, runtime, database |
| Table registry `table_handlers.go`, `space_handlers.go` | map of runtimes | create, load on demand, delete, clear | runtime, database |
| Kick vote `table_handlers.go` | target, voters, ballots, bans | start, vote, expire | cash-out |
| Realtime hub `internal/realtime/hub.go`, the rooms' connection and `web/src/lib/snapshot-gate.ts` | connections; the browser's generation counter | serve, broadcast; read, push, mutate | runtime, browser |
| Agent control and MCP keys `mcp_handlers.go`, `store.go` | control mark, key hash | switch on and off, create and delete key, the check before a game request | every game request |
| Accounts, roles, spaces `auth_handlers.go`, `admin_handlers.go`, `store/roles.go` | users, roles, memberships, registration mark | register, edit, demote, delete, forced deletion | database, New API |
| Manual balance `balance_handlers.go` | `balanceMu` | add, subtract | New API |
| Rankings and hand histories `store.go` | queries over operations and results | list, adjust | |
| MCP server `internal/mcpserver` | none of its own | translates tool calls into requests; waits for a turn by polling | HTTP interface |
| Web client `web/src` | signed-in user, address, selected channel, lists and books of the page, requests and reads in flight | visit, choose, save, poll, sign in and out | HTTP interface |
| Rooms' controls `PokerRoom.tsx`, `LandlordRoom.tsx` | the last picture, the bet amount, the selected cards | the buttons of the dock | a table's snapshot |
| New API client, sessions, ciphers, WeChat | none that matters here | | |

### What is hard in it, and what makes each part correct

* **Betting** is a protocol of many steps: who must act next depends on bets,
  marks and short all-ins left by a long sequence of legal calls. A street may
  close only when everybody still able to act was asked and has matched; a short
  all-in must not reopen the betting; a turn must go to somebody who can decide.
* **Settling** relates the whole hand to its end: refunds, layers, ties and odd
  chips must hand out exactly what was put in, to whom it belongs.
* **Timers race answers**: a turn number has to name one decision for ever.
* **State is kept over hands**: hole cards, folded marks and the last result of an
  old hand stay in the record while the next is played and must not leak into it.
* **Money is in two places** (New API and the table) and moved by calls that fail,
  fail without telling, or are cut by a restart: what was moved must be found in
  an operation that is completed, compensated or left for review.
* **One table per player**, decided by an in-flight set, a database row and a scan
  of saved tables, none of which is taken under one lock.
* **Locks and registries**: a runtime may be created, loaded and deleted at once.
* **Reads and writes in separate database transactions**: last administrator, first
  registration, role in use, agent key.
* **Pushes, polls and answers overtake one another** on their way to a browser.
* **Books are edited in place**: the console never loads its lists again, so every answer has to
  change users, sums and roles exactly as the server did.
* **The same rule is written several times**: what the snapshot offers, what the screen makes of
  it and what the table accepts; what a menu shows and what a handler permits.
* **Hidden cards and exact counts**: landlord's card counter is kept beside the cards.

The full list, each at its line, is `hazards` in `PROJECT.json`.

## Modules

| Module | Models | Uses |
|---|---|---|
| `SeatRing` | the ring of seats, "next seat that ...", sums over seats | |
| `SidePots` | refund of the uncalled bet, layers of the pot, awards | `SeatRing` |
| `CardGame` | what the services rely on in *any* game: the abstract specification | `SeatRing` |
| `HoldemTable` | `internal/poker/table.go` | `SidePots`; refines `CardGame` |
| `TableVote` | `handleTableKickVote` and what the other handlers do to a vote | `HoldemTable` |
| `TableScene` | the controls of `PokerRoom.tsx` | `TableVote` |
| `TableService` | runtime, turn timer, saves, restarts, deletion, hand histories: `table_handlers.go`, `game_runtime.go`, `store.go` | `HoldemTable` |
| `Sums` | sums over finite sets | |
| `LandlordCards` | `internal/landlord/combination.go` | `Sums` |
| `LandlordTable` | `internal/landlord/table.go` | `LandlordCards`, `SeatRing`; refines `CardGame` |
| `LandlordScene` | the dock of `LandlordRoom.tsx` | `LandlordTable` |
| `Cashier` | buy-in, cash-out, settlement and manual adjustments: `table_handlers.go`, `balance_handlers.go`, the wallet operations and seat rows of `store.go` | `Sums` |
| `TableRoom` | a room following its table: `hub.go`, `lib/snapshot-gate.ts`, the effects of `PokerRoom.tsx` and `LandlordRoom.tsx` | |
| `WebRights` | what the handlers of accounts, roles, channels, keys and settings permit, change and tell | |
| `WebPages` | addresses, pages, offers and edits of the web client, as functions | `WebRights` |
| `WebApp` | the browser: pages, lists and reads in flight, sessions | `WebPages` |
| `WebClient` | the requests of the pages and their answers | `WebApp` |
| `MCHoldemTable`, `MCTableScene`, `MCTableService`, `MCLandlord`, `MCCashier`, `MCTableRoom`, `MCWeb` | small instances for TLC | the module in the name |
| `Sums_proofs`, `TableRoom_proofs` | theorems | the module in the name |
| `WebPages_proofs`, `WebBooks_proofs` | theorems of the web client | `WebClient`, `Sums_proofs`; the second uses the first |
| `HoldemTable_proofs`, `Cashier_proofs`, `LandlordTable_proofs` | theorems (of the landlord table and its dock in the last) | the module in the name or `LandlordScene`, `Sums_proofs` |
| `HoldemRoom_proofs` | theorems of the vote, the screen and the service | `TableScene`, `TableService`, `HoldemTable_proofs` |

### HoldemTable

`table` is the Go struct `TableState` as one record, with `Player`'s fields as
functions of the seat; a nil `*Player` is a seat whose user is `NoUser` and whose
other fields are zero. All operations hold the table's mutex, so each is one
action; the helpers they call (`commitLocked`, `raiseToLocked`,
`advanceStreetLocked`, `finishHandLocked`, ...) are operators from a table to a
table, or to the set of tables they may produce, and keep the source's order:

| Code | Model |
|---|---|
| `Join`, `Leave` | `Join(u, buyIn)`, `Leave(u)` |
| `Ready` | `Ready`, `ReadyAndDeal`, `ReadyWithoutShuffle` (no random source) |
| `startHandLocked` | `StartHand` |
| `actLocked` | `Fold`, `Check`, `Call`, `Bet`, `Raise`, `AllIn`, then `EndAction` |
| `raiseToLocked`, `maxRaiseToLocked`, `raiseReopenedLocked` | `RaiseAccepted` (the refusals), `RaiseTo` (the effect) |
| `nextNeedingActionLocked`, `bettingRoundCompleteLocked` | `NeedsAction`, `NextIn`, `PassTurn` |
| `refundUncalledBetLocked`, `awardSidePotsLocked` | `SidePots!Refund`, `SidePots!Payout` |
| `handResultLocked`, `finishHandLocked` | `FinishHand` |
| `Timeout` and the clock | `Timeout(id)`, `DeadlinePasses` |
| `allowedActionsLocked`, `Snapshot` | `AllowedActions`, `Exposed` |

*Cards are abstracted.* Which hand wins is decided by the shuffle, so a showdown
takes any ranking of the hands that compete, ties included (`Ranks`); of a hole hand the
model knows whether the seat has one. *The clock is abstracted* to one fact: the deadline of the
current turn has passed. Histories that the code does not keep (`supply`, `dealt`,
`spoke`, `shown`) let the properties talk about earlier states.

Left out: `StartHand` (called by tests only; `Ready` starts hands),
`SetActionTimeoutSeconds` (called while a table is created), `RestoreTable` (it keeps the state as it
was, see `TableService`), and fields that are only displayed
(`LastAction*`, `BetLevel`, names, blind seats, messages, the board).

### CardGame

The abstract specification: a seat's chips are what it keeps plus what it has at
stake; they change only by sitting down, standing up, and at the end of a hand,
where they move among those dealt in and never grow in sum; nobody stands up
during a hand; a decision always gets a later turn number. `HoldemTable` and `LandlordTable`
implement it through the mappings at their ends, the latter without joining during a hand.

### TableVote and TableScene

`TableVote` puts the runtime's `kickVote` and `kickedUntil` beside the hold'em table. Each handler that moves
the table is an action of the table together with what the handler does to a running vote
(`JoinTable`, `LeaveTable`, `ReadyAtTable`, `Play`), and a save that fails makes it return before that
(`SaveFails`). `StartVote`, `CastVote` and `Count` are `handleTableKickVote`; the minute of the vote and the bar on
coming back end at any moment.

`TableScene` adds no step: `Controls(u)` is the set of requests the screen lets viewer `u` post from an up-to-date
picture (slider, quick amounts, the first proposal), `Accepts` what the handlers accept. The chips that fly to the pot are decoration and left out: between pictures
several steps apart the component gives all new chips to the seat that had the turn (`PokerRoom.tsx:394`), and nothing promises otherwise.

### TableService

The table as the server keeps it. `table` is the runtime's table; `saved` and `histories` are the
database; `loaded` is its entry in the map of runtimes and `deleted` the mark in it; `timer`, `timerTurn` and
`fired` are the armed `AfterFunc`, the turn the runtime expects one for, and the callbacks that wait for the lock.

| Code | Model |
|---|---|
| `runtimeForTable` | `Lookup` (the request then waits), `Load` |
| `lockTableRuntime` | `Reached`, `LookupRefused` |
| `handleTableReady`, `handleTableAction` | `ReadyRequest`, `ReadyRefused`, `ActionRequest`: the table's operation, `Persist`, and only after a good save `SyncTimer` |
| `handleTableJoin`, `handleTableLeave` | `JoinRequest`, `JoinUndone` (a failed save between hands), `LeaveRequest`; they leave the timer alone |
| `handleDeleteTable` | `DeleteRequest`; with `force` the players' departures come first |
| `syncTableTimerLocked`, `handleTableTimeout` | `SyncTimer`; `CallbackLate`, `CallbackPlays`, `CallbackRearms` |
| `SaveTableStateWithHandHistories` | `Persist(t, done)`: table and results in one transaction, `done` is what the handler is told |
| process stop and start | `Restart`: what is left is the row; a passed deadline stays passed |

A handler holds the lock from its first look at the table to its answer and is one action. The money of joins and departures is in `Cashier`.
A hand whose very deal was not saved has no timer until somebody acts (`untimed`): `TurnIsTimed` and `HandEnds` except it, and it is the one
case in which an absent player stops a table, against `docs/POKER_RULES.md:36` (at the deadline the server checks or folds). After a failed save of an
*action* the timer of the turn before is still armed, finds its turn gone and arms the right one.
Not in it: a request that loads a table while it is being created (`table_handlers.go:171`), the check who has the control, landlord
tables (whose failed redeal in a timeout returns without a timer), and turn numbers used again when unsaved turns are lost in a restart.

### LandlordCards, LandlordTable and LandlordScene

A set of cards is the number of its cards of each rank; suits decide nothing. `LandlordCards` has `Classify` and `Beats` and, for comparison,
what the rules document lists (`Documented`). `LandlordTable` has an action per operation (`Join`, `Leave`, `Ready`, bids, plays, passes,
`Timeout`), redeals, bombs and springs in the multiplier, and `Gains`, the payments. The shuffle is a choice among `Deals`, small hands made so that bombs, the
rocket and springs come up. The timer bids nothing, lets a leader play his lowest card and passes for the others. Which suggestion the screen proposes first is left out.
`LandlordScene` compares the dock (`Controls`) with what the table accepts.

### TableRoom

A picture is a version of its table. The server changes tables and announces it, sockets open, write a first snapshot and broadcasts, break and
reconnect; the room polls, posts its player's requests and jumps to another table; `AcceptsRead`, `AcceptsMutation` and `Ours` are the gate and the room's
filter. An action whose save fails changes the table and is announced to nobody (`told`).

### WebRights, WebPages, WebApp, WebClient

`WebRights` is the server's side: `db` is the database as one record, `Permitted` and `PermittedRead` what a handler answers whom, `Tell` what it tells, and
the effect of each request. `WebPages` is the page's side without time: the screen an address leads to, the views it loads, `Offers`
(requests its controls can send) and `Links`, and the edits of the console's books. `WebApp` has the steps: visiting, choosing, reading, signing in and out;
answers come in any order, after their component is gone, or never. `WebClient` adds requests, their service, and what each answer
does to the page that is shown by then.

Each behaviour belongs to one *story* (`MCWeb`): who may sign in, which addresses are visited, which kinds of request are sent. Only this browser changes
the database. Names, texts and the edits inside a form are left out; a registration or a settings field has a few abstract values.
Set apart where the page is wrong until it is loaded again: two overlapping requests that edit the same list (`clean`, `Overlap`: role dialogs,
site name and icon, connection and table deletion, the WeChat settings), a poll answered before a creation or deletion, and the room taken over by a late
answer of the dialog that joins a channel (`SpaceJoined`). Two of these were found by the proof of `BooksMatchServer` and are stories of their own now
(`ReopenStory`, `LateJoinStory`). The form of the WeChat settings is disabled while it saves, but not once the section was left and opened
again, and answers to two saves may come in the other order (`wechat-login-settings.tsx:26`). A room taken over by a late join may
still get its old channel's details, for which it then makes the table that it adds to the new channel's list (`ChannelRoom.tsx:59`, `:228`; `Astray`).
`KnownRefusal` names what pages offer although the handler refuses it, `KnownReadRefusal` what they load although it is refused. Some handlers let in
whoever works with a channel (`SpaceForActor`), others only who joined it (`SpaceForUser`): a super administrator sees every channel in his lobby, but
the ranking and the history of one that he has not joined, which the lobby and the room offer him, are answered with 404 (`Outsider`; `OutsiderStory`). For the
same reason a super administrator or an assigned manager who joins a channel is told that he does not manage it (`TellMember`), and so is a member who is made an account
at New API by the very read of the channel (`AccountMade`); the buttons come back with the next read. `AccountMade` and `JoinedWithAccount` are
`autoProvisionMember`: New API may refuse, so each is a choice, bounded by `left.accounts`. A list of accounts already on the page, or on its way, does not hear of it and is not `clean` any more.

### Cashier

Money is quota at New API or chips at a table, counted in cents (`CentsToQuota` multiplies by
a constant). `quota` is New API's side, `memory` the tables of the process, `disk` the tables
as last saved, `row` is `active_table_seats`, `ops` is `wallet_operations`, and `lock`,
`inFlight` and `adjusting` are the runtimes' mutexes, `tableJoinInFlight` and `balanceMu`. A *worker* is a
request being handled; its steps are separate actions wherever another request or a
restart can tell the difference:

| Code | Model |
|---|---|
| `reserveTableJoin` | `RequestJoin`, `Scan`, `Reserve`; its returned function: `Release`, and the end of `FinishBuyIn` |
| `handleTableJoin` | `Refuse` (any check fails) or `BookBuyIn`, `Debit`, `SitDown`, then `FinishBuyIn` or `Refund` |
| `handleTableLeave`, `cashOutPlayerLocked` | `BeginCashOut`, `StopPaying` (an early error), then `LeaveBroke`, `Vacate` or `BookCashOut`, `Credit`, `Depart`, `Close` |
| `settleAllPlayersLocked` | the same with all players as `rest`; `Onward` goes to the next one, `GiveUp` stops |
| `handleAdjustManagedBalance` | `BookAdjustment`, `Adjust` |
| `AdjustQuota`, `persistRuntime` | `Adjusting`, `Saving`: what happened, and what the caller was told |
| process stop and start, `runtimeForTable` | `Restart`: memory is what was saved, handlers and marks are gone |

A *scene*, chosen at the start, says which game's rule holds for sitting down, who asks to join, who sits at first, which adjustments are made and
which faults occur; each run gives its scenes. The *faults*: New API refuses or its answer is lost, a
save fails or fails although it was committed, a change of a row or of an operation's status
fails, the process restarts.

*Games are abstracted* to who is seated with what and who is in the hand. A hand moves nothing, or all
chips of one player to another; the chips lost at a hold'em showdown (see Findings)
are left out here. `Deal` needs two players with chips, in landlord too: what matters of a hand
is that nobody leaves, and in landlord nobody sits down, during one (`JoinMidHand` of the scene).
Whether a table may be reached at all (membership, deletion, votes, bans) is part of `Refuse`;
deleting a table after it is settled is in `TableService`. `doubtful` and `unsure` of an operation are
history and not in the database.

`MoneyAccounted` is what an operator relies on: the sum of quotas and chips differs from what
it was at first by no more than the completed manual adjustments and the operations still `pending` or in
`manual_review`. One case is set apart: when a save reports an error *although it was committed*, a
refunded buy-in is `compensated` while the saved table has the player's chips. The handler cannot know; the operation
is marked `unsure` and counted as open. Money that is accounted for twice in
this one case is not refuted by the run; the note of the hazard at `table_handlers.go:388` says so.

## What is checked

Users are symmetric in the runs of hold'em and landlord without liveness (in the cashier's run the two that may sit at
table A are, and the handlers). All runs set `CHECK_DEADLOCK FALSE`, because the bounds stop the
model: after hand `MaxHands` nobody joins or gets ready (`MoreToCome`), and everybody may have left; a
handler that would book operation `MaxOps` + 1 waits for ever; changes, visits, requests and losses are used up.

| Run | Instance | Shows |
|---|---|---|
| `holdem_betting` | 3 seats, stacks 1, 3, 5, blinds 1/2, one hand, every bet size, votes, one failed save; 413 thousand states | `TypeOK`, `ChipsConserved`, `TurnIsPlayable`, `StreetsClosedMatched`, `NobodySkipped`, `RaiseOnlyWhenReopened`, `VoteIsAboutTheTable`, `RemovedByMajority`, `ControlsExact` |
| `holdem_hands` | 3 seats, stacks 1, 3 (7 chips), two hands | `HoleCardsPrivate`, `ResultStartsFromDeal`, `TurnNamesDecision`, `ImplementsCardGame` |
| `holdem_side_pots` | 4 seats, stacks 1, 3 (8 chips), blinds 1/1, one hand; 131 thousand states | `ChipsNeverCreated`, `ShowdownPaysMatchedOnly`, `ShowdownPaysAllMatched`, `ChipsLostOnlyAboveTheLive` |
| `table_service` | 2 seats, stacks 2, 3 (5 chips), two hands, two mishaps (failed saves, failed deletions, restarts), with fairness; 385 thousand states | `TurnIsTimed`, `RestartResumes`, `DeletedStaysDeleted`, `HandsOnRecord`, `HandEnds` |
| `landlord` | two small deals, two hands, stacks 3, base stake 1, one bad shuffle; every set of cards from 10 to the two with jokers; 112 thousand states | `CounterExact`, `ChipsConserved`, `BidsGoRound`, `RoundsCloseAfterTwoPasses`, `CombinationsAsDocumented`, `DockExact`, `ImplementsCardGame` |
| `cashier` | 2 handlers, two tables, quota 3, stacks and buy-in 2, 2 operations; scene `bad_saves`: landlord's rule, 2 users, two of them at A, adjustment +2, all faults; scene `mid_hand`: hold'em's rule, 3 users, two of them at A, restarts; 5.2 million states | `MoneyAccounted`, `SeatedOnce`, `DoubtfulStaysOpen`, `CreditIsStack` |
| `room_sync` | 2 tables, 2 changes, 2 visits, one mishap, with fairness; 673 thousand states | `GateReopens`, `RepliesNeverGoBack`, `PollsAndPushesKeepTheTable`, `Converges` |
| `web` | 14 stories, 4 users, 2 channels, 2 tables, at most two requests and two reads in flight, records of 2 pages, one account made by New API; 1.1 million states | `PagesAreHonest`, `BooksMatchServer`, `OfferedIsPermitted` |
| `holdem_chips_lost` | as `holdem_side_pots` | `ChipsConserved` is violated (see Findings) |
| `landlord_planes` | a deal that brings three consecutive triples and three single cards | `LeaderPlaysWhatRulesList` is violated (see Findings) |
| `cashier_two_tables` | as scene `mid_hand`, saves fail instead | `SeatedOnce` is violated (see Findings) |
| `cashier_overdrawn` | 2 users away from the tables, adjustment -2, no faults | `QuotaNotOverdrawn` is violated (see Findings) |

Why these bounds are enough to make the interesting cases happen: a stack of 1
under a big blind of 2 is all in on a blind; 3 can open to 2 and be raised short to 3
(a raise that does not reopen) and 5 can raise in full over it; three stacks of
different size make two side pots. The second hand of `holdem_hands` starts with
what the first one left: broke players keep cards and marks, seats are
given up and taken by others, and players sit down while a hand runs. Four players are the fewest
for a side pot whose owners can fold while an earlier all-in contest goes on; hands dealt to two or three of the four seats occur as well.
`MaxChips` bounds the chips ever brought, `MaxHands` the hands.

For `table_service`, heads-up with stacks 2 and 3 gives hands of one and of several turns, and showdowns with
different results when a hand is replayed. Two mishaps let a failed save meet a restart, and are what it takes to lose a record; a second hand
is what replaces the result of the first. For landlord, hands of one to four cards reach bombs, the rocket, springs and redeals;
the combinations are compared apart from them on all sets of cards of eight ranks, once per run. For `room_sync`, two tables and two visits are the fewest for answers of a table
before, and two changes for an overtaken picture. For `web`, two requests are the fewest that overlap; a page beyond the last is one that has become empty.

For the cashier, two operations are the fewest for what one leaves behind to meet another (a
cash-out whose save failed and a buy-in after a restart; two joins of one player); two handlers
the fewest for an interleaving, and a third step of the table (`Deal`, `EndHand`, a timer) comes
between them; two tables for sitting twice. A quota of 3 pays for one buy-in of 2 and not for two.
The failed saves are in the scene with landlord's rule because under hold'em's rule they violate `SeatedOnce`.
`MaxOps` is the only bound of this module.

**Fairness.** `ServiceSpec` (`table_service`) assumes weak fairness of the clock, of an armed timer running out, of a callback getting the
lock (Go's mutexes do not starve) and of `Load`: every open channel page asks for the list of tables again and again, which loads them all. Restarts and
failures are bounded by `MaxMishaps`, i.e. they end at some time. `TableRoom`'s specification assumes that requests are answered or fail, that sockets connect, are
written and read or break, that the polling timers tick and that the network comes back. Nobody is obliged to play, click, leave or change anything.
Landlord has no liveness: three passes deal again without end, as the rules ask; and the browser's pages need none.

### Findings

`landlord_planes`: `classifyPlane` guesses the wings of a plane from the number of cards alone and takes the first divisor (`combination.go:133`): three
triples with three single cards are 12 cards and tried as four triples, so the play is refused, though `docs/LANDLORD_RULES.md:19` lists it without
exception. The same holds for three triples with three pairs and four triples with four pairs.

`holdem_chips_lost`: `awardSidePotsLocked` skips a layer of the pot to which no
remaining player contributed (`table.go:794`), and `finishHandLocked` then clears
the commitments: those chips leave the game. It takes four players: two short
ones all in, two deep ones betting a side pot, and then both deep ones folding
(a fold is accepted although a check is free). `docs/POKER_RULES.md:56` claims strict
conservation; the random test it refers to never folds when it can check
(`table_test.go:539`).

`cashier_two_tables`: a save that fails while a player sits down is undone with `runtime.leave`, whose error
is ignored (`table_handlers.go:388`); hold'em lets players sit down during a hand and not leave. The player stays
in memory with chips that were refunded, has no reservation, and sits down at a second
table. `docs/MCP_AGENT.md:15` promises one table per account.

`cashier_overdrawn`: `balanceMu` is to "keep the balance check and the corresponding New API adjustment together"
(`balance_handlers.go:121`), but buy-ins debit the same wallet without it. Two checked debits that
overlap take a quota below zero, if New API subtracts without a check of its own, as the simulated one of
`internal/app/server_test.go` does.

Relatedly, when all *deeper* players fold, a single short all-in player wins the
whole pot (`finishUncontestedLocked`), also what he could not have matched; the
refund covers the largest bet only. The model computes what the code pays.

`ChipsLostOnlyAboveTheLive` (run `holdem_side_pots`, and a theorem) draws the line round the lost chips: a step loses some only at
a showdown of a hand dealt to four players or more, in which everybody who put in the most has folded.

## What is proved

With TLAPS, for all values of the constants that the assumptions of the modules allow: 2 to 8 seats (`SeatsAssumption`), any users,
blinds, stacks and bounds (`HoldemAssumption`, `VoteAssumption`, `ServiceAssumption`), any stakes and deals at landlord's three seats
(`LandlordAssumption`), any finite sets of users and tables and any handlers, amounts, scenes and faults (`CashierAssumption`), any tables (`RoomAssumption`), any stories that begin with a database of the right shape
(`StoriesAssumption`, `RowsAssumption`: every table in it was made, for one channel), finitely many channels and tables (`SetsAssumption`) and keys of lists that are told apart (`KeysAssumption`).
Every assumption is evaluated by a run. "Runs" below are steps of TLC, theorems are listed in `PROJECT.json`.

| Module | Theorems about |
|---|---|
| `Sums_proofs` | sums over finite sets: by one element, of two functions, of equal shares, over parts of a set; a set of numbers has a least |
| `HoldemTable_proofs` | `NextIn` finds the nearest member of a non-empty set, sums over the seats; what refunds and awards return for any amounts; `TypeOK`, `TurnIsPlayable`, `ChipsNeverCreated`, `ChipsLostOnlyAboveTheLive`, `StreetsClosedMatched`, `ShowdownPaysMatchedOnly`, `ShowdownPaysAllMatched`, `ResultStartsFromDeal`, `HoleCardsPrivate`, `TurnNamesDecision`, `NobodySkipped`, `RaiseOnlyWhenReopened`, `ImplementsCardGame` |
| `HoldemRoom_proofs` | `VoteIsAboutTheTable`, `RemovedByMajority`, `ControlsExact`; `TurnIsTimed`, `RestartResumes`, `DeletedStaysDeleted`, `HandsOnRecord`, and the game's invariants through failures and restarts |
| `Cashier_proofs` | `MoneyAccounted`, `SeatedOnce`, `CreditIsStack`, `DoubtfulStaysOpen`, and that no two handlers work on the same thing |
| `LandlordTable_proofs` | `ChipsConserved`, `BidsGoRound`, `CounterExact`, `RoundsCloseAfterTwoPasses`, `CombinationsAsDocumented`, `DockExact`, `ImplementsCardGame` |
| `TableRoom_proofs` | `GateReopens`, `RepliesNeverGoBack`, `PollsAndPushesKeepTheTable` |
| `WebPages_proofs` | `PagesAreHonest`, `OfferedIsPermitted` |
| `WebBooks_proofs` | `BooksMatchServer` |

None of these properties is inductive alone. What carries each proof:

**Hold'em, the table.** `IInv == TypeOK /\ Sound(table)`: among the types is that stacks, bets and commitments are natural numbers, i.e. no
operation takes chips that are not there; `Sound` adds that between hands there are no bets and nobody is in a hand, that a bet is never above the
current one and is part of what its player committed, that a player in a hand sits on a taken seat, and one who is not all in has chips left,
and the statement about the turn. A lemma for every operator of the code (`CommitSound`, `StartHandSound`, ...) shows that sound tables go to sound tables.

**Hold'em, the game.** What a handler does is a walk through several operators, some chosen by the outcome of others. It is first summed up in relations between
the table before and after: what follows a deal or an act is an `Outcome` (the hand goes on, on the same street or a new one, or ends, with or
without a showdown), and every step is of one of five kinds, `Sits`, `Rises`, `Marks`, `Deals`, `Plays` (`StepKinds`). The invariant `GInv` adds to `IInv`:
`Books` (chips are in the pot only for players of the hand, players are users with chips, and so on), `Level` (whoever can still act put as much as anybody into the streets before),
`DealtKept` (stack and commitment of a player in the hand are what he was dealt with), `SpokeKept` (who is marked as having acted has spoken on this
street; who spoke, can still act and bears no mark faces a full raise) and `ShownKept` (a hand that is or could be exposed was shown). The two properties of a showdown are sums over
layers: the layers up to a top add up to the matched part of each commitment, so that what is paid is counted layer by layer. The
refinement follows from the five kinds: only the end of a hand moves chips, among those dealt in, and `ChipsNeverCreated` bounds their sum.
`ChipsConserved` fails when four play. `ChipsAreLostOnlyAboveTheLive` proves how far it holds, for any number of seats: if one who put in the most has not folded, what he
matched, the whole pot, is paid (`HandEndsWhole`). Otherwise (`Topped`) at least two have folded above the others, since after the refund two seats share the top of the stakes,
and two more have their hands compared: four players dealt in (`ToppedByTwo`). So a hand dealt to two or three loses nothing, at a table of any size.

**Vote and screen.** `VInv` says that a vote that is not decided has two voters at least. With its target they are three funded players, so a hand
dealt to them cannot end at once (`DealtToThree`), every handler that starts one sees it and ends the vote, and no vote runs on over a table that was played on in between. Without the two voters
the property is not inductive. `SceneInv` is `GInv`, `VInv` and that a running hand has a least raise. The controls are compared with the handlers path by path
(`OffersExact`), for which the largest raise the snapshot names is shown to be one the table accepts.

**Service.** Each step saves the table, sets marks without a save, undoes a join, restarts, or leaves the table alone (`ServiceKinds`). `ServiceInv` is
`BothStand` (the table in memory *and* the row satisfy the game's invariants: so they survive a restart), `TurnIsTimed`, `DeletedForGood` (a deleted table bears the mark, or nobody
waits for its lock any more), `SavedAsIs` (but for failed saves and marks the row is the table) and `OnRecord` (the histories agree with the row and run ahead of
no table; an earlier hand is missing only after two mishaps, the last one after one). `TurnNamesDecision` is a property of the table alone and does not carry over: turn numbers lost in a restart are used again.

**Cashier.** Two invariants. `Control`: a handler at the table's money holds its lock, an operation that is worked on is pending and belongs to one handler, a
join under way is marked, whom a handler settles sits there with what he is credited. Each step is within its `Frame`, i.e. leaves alone what others hold, and so `Control` is shown one handler at a
time. `Ledger`: for each operation, whether New API moved its cents (`paid`) and whether they reached or left the table in memory (`held`) and as saved (`kept`); then
quotas are what they were plus what is paid, the tables what they began with minus what is held or kept, and an operation that is not open is in all three or in
none. No variable holds these sets: the invariant says that they exist, and each step shows how those before it are carried on. `MoneyAccounted` and
`SeatedOnce` (with `SeatsSaved`: who sits is saved as sitting) need `UndoPossible`, that saves do not fail *where players sit down during a hand*. This is no convenience: without it the run
`cashier_two_tables` refutes `SeatedOnce` (see Findings). `CreditIsStack`, `DoubtfulStaysOpen` and `HandlersInOrder` hold without it.
The sums over users and operations are folds over finite sets. Their laws (`Sums_proofs`) are proved by an induction over the subsets of a finite set, stated for a *set* of subsets
instead of a predicate and derived from the library's pigeonhole fact.

**Landlord.** `LInv` says whose the chips are (`Funds`), that a hand has three players with chips (`Filled`), who is to bid, what was bid before him and who
has not been asked (`Bidding`), which round is open and who passed in it (`Playing`), where the cards of the deal are (`Counted`) and what was paid (`Paid`). Every step is of one of
seven kinds (`Does`); refinement and the property of rounds are read off them. That a hand pays zero in sum is shown of `Gains` for any stakes and stacks.
`Held` adds that all hands are cards of the one pack and that nobody's is empty while a hand is played; it needs `Counted`, for the bottom that the landlord takes,
and that a deal is from one pack and leaves nobody without cards (`LandlordAssumption`; `shuffledDeck` deals 17 each of 54 cards). `CombinationsAsDocumented` is then a fact
about sets of cards: `Classify` accepts those that are `Recognised` (the union of its cases, whatever order it tries them in), and `Recognised` and
`Documented` agree but for shadowed planes, by counting: what a set holds of some ranks leaves so many cards for the others (`SizeApart`). `DockExact` follows path by path;
that a leader has something to lay down is that his lowest card is a single.

**Room.** `RoomInv` says of everything under way (first snapshot, frames, answers) that it is not newer than the server, of every answer whose token is current that
the screen is not newer than it, that polls of this visit ask for the open table, and that the gate is held by a request in flight. `RoomMoves` names the three steps
that show another picture.

**Web client.** `PagesInv` is about the views on the page and the reads in flight: views are those the screen can have (`Placed`); a view shows what it last asked
for, the details of a channel apart once the sheet is closed, and those of the room belong to the channel in the address; a view that waits has a
read that is current, is for what it asked, and is the only current one of its view (`Tidy`). Every page that is rendered keeps, drops or starts views
and the reads that belong to them (`RemountTidy`); what the handlers of the page do is to edit contents, to ask again, which supersedes (`AskTidy`), or to let an
answer land (`LandTidy`), and a list edited by an answer that came meanwhile only loses marks (`TidySofter`).

`OfferedIsPermitted` needs what the pages know of the database as well, `AnswersInv`: the views are exactly those of the screen (`Standing`), every channel that a
list, the board or an answer under way names is one the session may open now, and what a page offers to manage is in its books or in its address (`Right`). That
holds in every state, since a request only ever adds to what the session's own user may open (`OpenGrows`: nobody edits or deletes himself), and a change of session
takes page and reads along. What a page says of permissions, on the other hand, holds only while it is `Fresh`: then the books are the
server's (`BooksTold`), the rights in them imply the rights each handler asks for (`ManagesToldSpaces`, `RightsClosed`), and every kind of offer, read and link is
compared with them in turn.

`BooksMatchServer` speaks of moments when nothing is under way; `BooksInv` says what holds between them. It compares a list that is still trusted (`Trusted`: shown,
and spoilt by nothing known) with the database *and the answers in flight*: where a good answer is on its way, the list has yet to be edited by it, so the
database is what that answer tells (`KeysFollow`, `BindingsFollow`, `TablesFollow`, `SheetFollows`; `UsersFollow`, `RolesFollow`, `SiteFollows`, `SpacesFollow` for the parts
of the console's books), and elsewhere list and database agree. What the pages disable while they wait is what keeps these apart: two answers in
flight never edit the same row (`Blocked`, `Overlap`), an answer about a role edits the list that is still shown, and the sheet's count is the
one it was opened with. So there are four lemmas for each part: the server does what was asked (`...Served`), the request is lost or refused (`...Drop`), one
more is sent (`...Sent`), the answer arrives and edits the list (`...Shown`, and for each handler up to `SavedBooks`); and a read that nothing overtook brings what the server
would tell now (`ReadFollows`, `FreshOverview`). The sums of the books are folds over channels and users, so a row that is edited changes them by
the difference (`Sums_proofs`). Proofs about what is offered (`SubmitBooks`) connect a request with the list it is about: only what is shown can be deleted.

`SeatSum` is written out over eight seats instead of recursively so that the provers can compute with it; so the theorems end at eight seats, the limit of the source.

### Only model-checked

* Liveness (`HandEnds`, `Converges`): fairness and `ENABLED` are out of the prover's reach.
* `ChipsConserved` of hold'em, which the run `holdem_betting` checks at three seats, is false when four play (see Findings); what is proved are `ChipsNeverCreated` and `ChipsLostOnlyAboveTheLive`.

## Plan

Done: hold'em with its vote, screen and service, landlord with its combinations and dock, the cashier, the room's synchronisation, the web client
with the rights of the server. Proved: every safety property of these but the ones listed above, and that both tables implement `CardGame`.

Left, in this order:

1. An abstract account book (quota and chips as one sum, except for what open operations explain) that `Cashier` implements, now that its `Ledger` is known.
2. Creating a table while another request loads it; the control check of browser and agent before a game request.
3. Accounts with two overlapping transactions (last administrator, first registration, role in use, forced deletion).

## Not modelled

Hand evaluation is a pure function already compared with a reference library
by `evaluate_differential_test.go`, and shuffling is random. Sessions, ciphers, WeChat login and
the New API client are cryptography and single HTTP exchanges. The MCP server holds no
state of its own. Rankings are queries. Of the web client: reloading the page, creating channels, the edits inside a form, invitations at
registration, which table of a channel is highlighted, clearing an invitation code, texts and layout, and the vendored widgets of `components/ui`.
Of the server: creation of tables and channels, joining a channel with New API credentials, overlapping transactions on accounts, and the check
whether browser or agent has the control. Votes and bars are forgotten in a restart (`table_handlers.go:651`), and an active seat row whose release failed
(`table_handlers.go:530`) stays: the models have both steps, and nothing in the repository says what should happen then.
