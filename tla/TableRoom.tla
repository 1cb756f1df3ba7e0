------------------------------ MODULE TableRoom ------------------------------
(***************************************************************************)
(* A player's room (PokerRoom.tsx, LandlordRoom.tsx) following a table of   *)
(* the server: pictures arrive as pushes over the web socket (hub.go), as   *)
(* replies to polls and as replies to the player's own requests, in any     *)
(* order, and lib/snapshot-gate.ts decides which of them is shown.          *)
(*                                                                          *)
(* A picture is a version number of its table.  The gate numbers the        *)
(* pictures it accepted; all it ever asks of a token is whether it is still *)
(* the current number, so a request in flight carries "current" and a step  *)
(* that takes a new number clears it (Outdate).                             *)
(***************************************************************************)
EXTENDS Naturals, Sequences, FiniteSets, TLC

CONSTANTS Tables,          \* table ids of the channel
          GameType,        \* which of the two rooms is modelled
          None,            \* no table, no picture, no mutation
          MaxChanges,      \* bound: changes and deletions, over all tables
          MaxVisits,       \* bound: times a table is opened in the browser
          MaxMishaps       \* bound: losses of the connection and failed saves

ASSUME RoomAssumption ==
    /\ GameType \in {"texas_holdem", "landlord"}
    /\ None \notin Tables
    /\ {MaxChanges, MaxVisits, MaxMishaps} \subseteq Nat

VARIABLES
    server,         \* per table: version, whether it exists, whether its last change was told
    online,         \* the browser reaches the server
    mishaps,        \* used so far of MaxMishaps
    open,           \* initialTable.id of the mounted room, None outside a room
    visit,          \* number of the current run of the sync effect
    shown,          \* table: the picture on the screen
    live,           \* the connection badge says "live", not connecting, polling or offline
    socket,         \* "down", "connecting" or "open", as the browser sees it
    serving,        \* where hub.Serve stands for this socket
    initial,        \* the first snapshot, between being taken and being written
    wire,           \* frames written to the socket and not yet received
    polling,        \* pollTimer is set
    activeMutation, \* the gate's activeMutation, as the visit that began it
    reads,          \* refreshTable calls in flight
    mutations       \* run calls in flight

netVars    == <<online, mishaps>>
pageVars   == <<open, visit>>
socketVars == <<socket, serving, initial, wire>>
gateVars   == <<activeMutation, reads, mutations>>
vars == <<server, netVars, pageVars, socketVars, gateVars,
          shown, live, polling>>

\* A picture is [table, version].  A request in flight is [visit, table, current,
\* phase, version]: the visit and table it was made in, whether its token is
\* current, "sent", "answered" or "failed", and the version that answered it.  A
\* frame is [kind |-> "table", picture, late] or [kind |-> "table_deleted"]; it is
\* late if it was overtaken before it was written.

-----------------------------------------------------------------------------
(* The gate.                                                                *)

\* generation += 1: no token handed out before is the current number.
Outdate(requests) == {[r EXCEPT !.current = FALSE] : r \in requests}

\* beginRead hands out a token only while no mutation is active.
MayRead == activeMutation = 0

\* acceptRead: the token is still current and no mutation began meanwhile.
\* Mutant: a read is accepted whatever was shown since it began.
AcceptsReadAny(r) == MayRead

AcceptsRead(r) == MayRead /\ r.current

\* finishMutation: what activeMutation is afterwards, and whether the reply is shown.
\* Mutant: finishMutation forgets to give the gate back.
ReleasedNever(m) == activeMutation

Released(m) == IF activeMutation = m.visit THEN 0 ELSE activeMutation

\* Mutant: the reply to an own request is always shown.
AcceptsMutationAny(m) == TRUE

AcceptsMutation(m) == m.current

-----------------------------------------------------------------------------
(* The server's table.                                                      *)

Changes == LET Count[S \in SUBSET Tables] ==
                 IF S = {} THEN 0
                 ELSE LET t == CHOOSE t \in S : TRUE
                      IN  server[t].version + (IF server[t].exists THEN 0 ELSE 1)
                            + Count[S \ {t}]
           IN  Count[Tables]

PictureIn(r) == [table |-> r.table, version |-> r.version]
PictureOf(t) == [table |-> t, version |-> server[t].version]
Bumped(t)    == [server EXCEPT ![t].version = @ + 1, ![t].told = TRUE]

\* hub.Broadcast, called with the table's lock held: the frame is written to
\* the socket of a client that hub.add has registered.
\* A first snapshot taken but not yet written is overtaken by it.
Listening(t) == open = t /\ serving \in {"added", "snapped", "overtaken", "served"}
Broadcast(t, frame) ==
    /\ wire' = IF Listening(t) THEN Append(wire, frame) ELSE wire
    /\ serving' = IF Listening(t) /\ serving = "snapped" THEN "overtaken" ELSE serving

Changed(t) ==
    /\ server[t].exists
    /\ Changes < MaxChanges
    /\ server' = Bumped(t)
    /\ Broadcast(t, [kind |-> "table",
                     picture |-> [table |-> t, version |-> server[t].version + 1],
                     late |-> FALSE])

\* A change that was not told to anyone: persistRuntime failed after the game
\* had moved, and the handler returned before its broadcast.
ChangedUnsaved(t) ==
    /\ server[t].exists
    /\ Changes < MaxChanges
    /\ mishaps < MaxMishaps
    /\ server' = [Bumped(t) EXCEPT ![t].told = FALSE]
    /\ mishaps' = mishaps + 1
    /\ UNCHANGED <<wire, serving>>

-----------------------------------------------------------------------------
(* The room's sync effect.                                                  *)

\* refreshTable: one poll of this effect at a time, none during a mutation.
Refresh ==
    IF MayRead /\ ~ \E r \in reads : r.visit = visit
    THEN reads' = reads \cup {[visit |-> visit, table |-> open, current |-> TRUE,
                               phase |-> "sent", version |-> 0]}
    ELSE UNCHANGED reads

\* The effect (re)starts for table t: connect() opens the first socket.
StartSync(t) ==
    /\ visit < MaxVisits
    /\ server[t].exists
    /\ open' = t /\ visit' = visit + 1
    /\ shown' = None /\ live' = FALSE /\ polling' = FALSE
    /\ socket' = "connecting" /\ serving' = "no" /\ initial' = None /\ wire' = <<>>

\* openTable: the room is mounted with a gate of its own.
Enter(t) ==
    /\ open = None
    /\ StartSync(t)
    /\ UNCHANGED <<server, netVars, gateVars>>

\* A jump in the browser's history to another table of the same game: the same
\* component goes on with another initialTable and the same gate.
SwitchTo(t) ==
    /\ open # None /\ t # open
    /\ StartSync(t)
    /\ UNCHANGED <<server, netVars, gateVars>>

\* onBack: the room is unmounted with its gate, its socket and its timers.  What
\* is still in flight changes nothing here any more; at the server the player's
\* request is from now on a change like that of any other client.
LeftRoom ==
    /\ open' = None /\ shown' = None
    /\ socket' = "down" /\ serving' = "no" /\ initial' = None /\ wire' = <<>>
    /\ polling' = FALSE /\ live' = FALSE
    /\ activeMutation' = 0 /\ reads' = {} /\ mutations' = {}
    /\ UNCHANGED visit

Leave ==
    /\ open # None
    /\ LeftRoom
    /\ UNCHANGED <<server, netVars>>

\* The channel page polls its list every 5 s behind the room, and closes the
\* room of a table that is no longer listed.
ListEvicts ==
    /\ open # None /\ online /\ ~ server[open].exists
    /\ LeftRoom
    /\ UNCHANGED <<server, netVars>>

\* connect, from the reconnect timer.
Connect ==
    /\ open # None /\ socket = "down"
    /\ socket' = "connecting"
    /\ live' = (GameType = "landlord" /\ live)
    /\ UNCHANGED <<server, netVars, pageVars, gateVars, serving, initial, wire,
                   shown, polling>>

\* onclose: the socket is forgotten, polling starts with a read at once, and
\* the reconnect timer is set.
SocketClosed ==
    /\ socket' = "down" /\ serving' = "no" /\ initial' = None /\ wire' = <<>>
    /\ polling' = TRUE
    /\ IF polling THEN UNCHANGED reads ELSE Refresh

\* onopen: polling stops and one more read is made.
SocketOpens ==
    /\ socket = "connecting" /\ serving # "no"
    /\ socket' = "open" /\ live' = TRUE /\ polling' = FALSE
    /\ Refresh
    /\ UNCHANGED <<server, netVars, pageVars, serving, initial, wire, shown,
                   activeMutation, mutations>>

PollTick ==
    /\ polling
    /\ Refresh /\ reads' # reads
    /\ UNCHANGED <<server, netVars, pageVars, socketVars, shown, live,
                   polling, activeMutation, mutations>>

\* onmessage with a table: shown whatever the room showed before.
TakePush ==
    /\ socket = "open" /\ wire # <<>> /\ Head(wire).kind # "table_deleted"
    /\ shown' = [picture |-> Head(wire).picture, late |-> Head(wire).late]
    /\ wire' = Tail(wire)
    /\ reads' = Outdate(reads) /\ mutations' = Outdate(mutations)
    /\ UNCHANGED <<server, netVars, pageVars, socket, serving, initial, live, polling, activeMutation>>

\* onmessage with table_deleted: back to the channel.
TakeDeleted ==
    /\ socket = "open" /\ wire # <<>> /\ Head(wire).kind = "table_deleted"
    /\ LeftRoom
    /\ UNCHANGED <<server, netVars>>

\* The reply of a poll.  A disposed effect (another visit) ignores it.
\* Mutant: an effect that was disposed of does not ignore its replies.
OursAny(r) == TRUE

Ours(r) == r.visit = visit
ReadArrives(r) ==
    /\ r \in reads /\ r.phase # "sent"
    /\ IF Ours(r) /\ r.phase = "answered" /\ AcceptsRead(r)
       THEN /\ shown' = [picture |-> PictureIn(r), late |-> FALSE]
            /\ reads' = Outdate(reads \ {r}) /\ mutations' = Outdate(mutations)
            /\ live' = (socket = "open" /\ live)
       ELSE /\ reads' = reads \ {r}
            /\ live' = (live /\ ~ (Ours(r) /\ r.phase = "failed" /\ socket # "open"))
            /\ UNCHANGED <<shown, mutations>>
    /\ UNCHANGED <<server, netVars, pageVars, socketVars, polling, activeMutation>>

-----------------------------------------------------------------------------
(* The player's own requests (run of TableScene and of LandlordTable).      *)

Busy == \E m \in mutations : m.visit = visit

Click ==
    /\ open # None /\ shown # None /\ ~ Busy
    /\ activeMutation' = visit
    /\ reads' = Outdate(reads)
    /\ mutations' = Outdate(mutations)
                      \cup {[visit |-> visit, table |-> open, current |-> TRUE,
                             phase |-> "sent", version |-> 0]}
    /\ UNCHANGED <<server, netVars, pageVars, socketVars, shown, live, polling>>

Answered(m) ==
    mutations' = (mutations \ {m})
                   \cup {[m EXCEPT !.phase = "answered", !.version = server[m.table].version + 1]}
Failed(m) == mutations' = (mutations \ {m}) \cup {[m EXCEPT !.phase = "failed"]}

\* The handler applied the request and told everyone (and its reply came or was
\* lost), refused it, or failed to save it.
HandleMutation(m) ==
    /\ m \in mutations /\ m.phase = "sent" /\ online
    /\ \/ Changed(m.table) /\ (Answered(m) \/ Failed(m)) /\ UNCHANGED mishaps
       \/ ChangedUnsaved(m.table) /\ Failed(m)
       \/ Failed(m) /\ UNCHANGED <<server, mishaps, wire, serving>>
    /\ UNCHANGED <<online, pageVars, socket, initial, shown, live,
                   polling, activeMutation, reads>>

MutationArrives(m) ==
    /\ m \in mutations /\ m.phase # "sent"
    /\ activeMutation' = Released(m)
    /\ IF m.phase = "answered" /\ AcceptsMutation(m)
       THEN /\ shown' = [picture |-> PictureIn(m), late |-> FALSE]
            /\ reads' = Outdate(reads) /\ mutations' = Outdate(mutations \ {m})
       ELSE mutations' = mutations \ {m} /\ UNCHANGED <<shown, reads>>
    /\ UNCHANGED <<server, netVars, pageVars, socketVars, live, polling>>

-----------------------------------------------------------------------------
(* The server and the network.                                              *)

\* Another player acts, readies, sits down, leaves, or the turn times out.  While
\* no room follows a table its changes are of no concern to this browser.
OtherChange(t) ==
    /\ t = open
    /\ \/ Changed(t) /\ UNCHANGED mishaps
       \/ ChangedUnsaved(t)
    /\ UNCHANGED <<online, pageVars, socket, initial, gateVars, shown, live, polling>>

\* handleDeleteTable, without or with force.
DeleteTable(t) ==
    /\ t = open /\ server[t].exists
    /\ Changes < MaxChanges
    /\ server' = [server EXCEPT ![t].exists = FALSE]
    /\ Broadcast(t, [kind |-> "table_deleted"])
    /\ UNCHANGED <<netVars, pageVars, socket, initial, gateVars, shown,
                   live, polling>>

\* handleWebSocket found the table and accepted the connection.
AcceptSocket ==
    /\ socket = "connecting" /\ serving = "no" /\ online /\ server[open].exists
    /\ serving' = "accepted"
    /\ UNCHANGED <<server, netVars, pageVars, gateVars, socket, initial, wire, shown,
                   live, polling>>

\* hub.Serve: register the client, then take its first snapshot under the
\* table's lock, then write it with the lock released.
AddClient ==
    /\ serving = "accepted"
    /\ serving' = "added"
    /\ UNCHANGED <<server, netVars, pageVars, gateVars, socket, initial, wire, shown,
                   live, polling>>

TakeSnapshot ==
    /\ serving = "added"
    /\ serving' = "snapped" /\ initial' = PictureOf(open)
    /\ UNCHANGED <<server, netVars, pageVars, gateVars, socket, wire, shown, live, polling>>

WriteSnapshot ==
    /\ serving \in {"snapped", "overtaken"}
    /\ serving' = "served" /\ initial' = None
    /\ wire' = Append(wire, [kind |-> "table", picture |-> initial,
                             late |-> serving = "overtaken"])
    /\ UNCHANGED <<server, netVars, pageVars, gateVars, socket, shown, live,
                   polling>>

AnswerRead(r) ==
    /\ r \in reads /\ r.phase = "sent"
    /\ reads' = (reads \ {r}) \cup
                 {IF online /\ server[r.table].exists
                  THEN [r EXCEPT !.phase = "answered", !.version = server[r.table].version]
                  ELSE [r EXCEPT !.phase = "failed"]}
    /\ UNCHANGED <<server, netVars, pageVars, socketVars, shown, live,
                   polling, activeMutation, mutations>>

\* A request that cannot reach the server fails in the browser.
LoseMutation(m) ==
    /\ m \in mutations /\ m.phase = "sent" /\ ~ online
    /\ Failed(m)
    /\ UNCHANGED <<server, netVars, pageVars, socketVars, shown, live,
                   polling, activeMutation, reads>>

\* The socket fails: nothing reaches the server, its table is gone, a write of
\* the hub timed out, or the connection simply broke.
SocketFails ==
    /\ open # None /\ socket # "down"
    /\ \/ ~ online /\ UNCHANGED mishaps
       \/ serving = "no" /\ ~ server[open].exists /\ UNCHANGED mishaps
       \/ online /\ mishaps < MaxMishaps /\ mishaps' = mishaps + 1
    /\ SocketClosed
    /\ UNCHANGED <<server, online, pageVars, shown, live, activeMutation, mutations>>

GoOffline ==
    /\ online /\ mishaps < MaxMishaps
    /\ online' = FALSE /\ mishaps' = mishaps + 1
    /\ UNCHANGED <<server, pageVars, socketVars, gateVars, shown, live, polling>>

\* The network is back.  PokerRoom's online handler resets the attempts and
\* replaces the socket at once; LandlordRoom waits for its timer.
GoOnline ==
    /\ ~ online
    /\ online' = TRUE
    /\ \/ /\ GameType = "landlord" \/ open = None
          /\ UNCHANGED <<socketVars, reads, polling, live>>
       \/ /\ GameType # "landlord" /\ open # None /\ socket = "down"
          /\ socket' = "connecting" /\ live' = FALSE
          /\ UNCHANGED <<serving, initial, wire, reads, polling>>
       \/ /\ GameType # "landlord" /\ open # None /\ socket # "down"
          /\ SocketClosed
          /\ UNCHANGED live
    /\ UNCHANGED <<server, mishaps, pageVars, shown, activeMutation, mutations>>

-----------------------------------------------------------------------------
Init ==
    /\ server = [t \in Tables |-> [version |-> 0, exists |-> TRUE, told |-> TRUE]]
    /\ online = TRUE /\ mishaps = 0
    /\ open = None /\ visit = 0
    /\ shown = None /\ live = FALSE /\ polling = FALSE
    /\ socket = "down" /\ serving = "no" /\ initial = None /\ wire = <<>>
    /\ activeMutation = 0 /\ reads = {} /\ mutations = {}

\* What the browser, the server and the network do without being asked.
Replies == \/ \E r \in reads : AnswerRead(r) \/ ReadArrives(r)
           \/ \E m \in mutations : HandleMutation(m) \/ LoseMutation(m) \/ MutationArrives(m)
Opening == AcceptSocket \/ AddClient \/ TakeSnapshot \/ WriteSnapshot \/ SocketOpens
Pushes  == TakePush \/ TakeDeleted

Next ==
    \/ \E t \in Tables : Enter(t) \/ SwitchTo(t) \/ OtherChange(t) \/ DeleteTable(t)
    \/ Leave \/ Click
    \/ Replies \/ Opening \/ Pushes
    \/ Connect \/ PollTick \/ ListEvicts
    \/ SocketFails \/ GoOffline \/ GoOnline

\* Timers fire, requests are answered, frames are delivered and a lost network
\* comes back; nobody is obliged to click, to leave or to change a table.
Fairness ==
    /\ WF_vars(Replies) /\ WF_vars(Opening) /\ WF_vars(Pushes)
    /\ WF_vars(Connect) /\ WF_vars(PollTick) /\ WF_vars(ListEvicts)
    /\ WF_vars(SocketFails /\ mishaps' = mishaps) /\ WF_vars(GoOnline)

Spec == Init /\ [][Next]_vars /\ Fairness

-----------------------------------------------------------------------------
(* Properties.                                                              *)

Older(p, q) == p.table = q.table /\ p.version < q.version

\* A reply never takes the room back to an older picture of its table: a poll
\* or the player's own request that was overtaken by a push, by another reply
\* or by a later request is dropped by the gate.
RepliesNeverGoBack ==
    [][(shown # None /\ shown' # None /\ Older(shown'.picture, shown.picture))
         => wire' # wire]_vars

\* After a jump to another table, neither a poll nor a push begun for the table
\* before is shown; only the reply of a request made there may still appear.
PollsAndPushesKeepTheTable ==
    [][(shown' # shown /\ shown' # None /\ shown'.picture.table # open')
         => Cardinality(mutations') < Cardinality(mutations)]_vars

\* The gate never stays closed: while a mutation keeps polls out, that mutation
\* is still in flight, however requests of two visits finish, fail or overlap.
GateReopens ==
    activeMutation # 0 => \E m \in mutations : m.visit = activeMutation

Current == shown # None /\ shown.picture = PictureOf(open)
Excused == shown # None /\ (shown.late \/ ~ server[open].told)

\* After the last change and the last loss of connection the room is live and
\* shows the table as it is, unless the first snapshot of its socket was
\* overtaken by a push (hub.go:42) or the change itself was never announced
\* (table_handlers.go:830); the room of a deleted table is left.
Converges == <>[](open = None \/ (live /\ (Current \/ Excused)))
=============================================================================
