-------------------------- MODULE TableRoom_proofs --------------------------
(***************************************************************************)
(* Theorems about TableRoom, for any tables, both rooms and any bounds on   *)
(* changes, visits and mishaps.                                             *)
(*                                                                         *)
(* The invariant RoomInv says of everything that is under way - a first     *)
(* snapshot, a frame, the answer of a poll or of an own request - that it is*)
(* not newer than the server, and of every answer whose token is current    *)
(* that the screen is not newer than it.  A lemma for each action shows     *)
(* that it keeps RoomInv; RoomMoves puts them together and names the three  *)
(* steps that show another picture.                                         *)
(***************************************************************************)
EXTENDS TableRoom, FiniteSetTheorems, SequenceTheorems, TLAPS

-----------------------------------------------------------------------------
(* The invariant *)

Picture == [table : Tables, version : Nat]
Frame   == [kind : {"table"}, picture : Picture, late : BOOLEAN]
             \cup [kind : {"table_deleted"}]
Request == [visit : Nat, table : Tables, current : BOOLEAN,
            phase : {"sent", "answered", "failed"}, version : Nat]

\* A picture was taken from the server.
Taken(p, srv) == p \in Picture /\ p.version <= srv[p.table].version

ServerOK(srv) == srv \in [Tables -> [version : Nat, exists : BOOLEAN, told : BOOLEAN]]

\* A socket, its server side and the polling timer belong to an open table.
PageOK(o, v, sock, serv, poll) ==
  /\ o \in Tables \cup {None} /\ v \in Nat
  /\ (sock # "down" \/ serv # "no" \/ poll) => o \in Tables

ShownOK(sh, srv) ==
  sh # None => sh \in [picture : Picture, late : BOOLEAN] /\ Taken(sh.picture, srv)

\* The first snapshot, once it was taken.
FirstOK(serv, first, o, srv) ==
  serv \in {"snapped", "overtaken"} => Taken(first, srv) /\ first.table = o

\* What is on its way shows the open table.
FramesOK(w, o, srv) ==
  /\ w \in Seq(Frame)
  /\ \A i \in 1..Len(w) :
       w[i].kind = "table" => Taken(w[i].picture, srv) /\ w[i].picture.table = o

\* An answer is not newer than the server; and as long as its token is current,
\* the screen is not newer than the answer.
AnswerOK(r, srv, sh) ==
  r.phase = "answered" =>
    /\ r.version <= srv[r.table].version
    /\ (r.current /\ sh # None /\ sh.picture.table = r.table) => sh.picture.version <= r.version

RequestsOK(R, srv, sh) == R \subseteq Request /\ \A r \in R : AnswerOK(r, srv, sh)

\* A poll of the current visit asks for the open table.
OwnPolls(R, v, o) == \A r \in R : r.visit <= v /\ (r.visit = v => r.table = o)

GateOK(active, M) == active # 0 => \E m \in M : m.visit = active

RoomInv ==
  /\ ServerOK(server) /\ PageOK(open, visit, socket, serving, polling)
  /\ ShownOK(shown, server) /\ FirstOK(serving, initial, open, server)
  /\ FramesOK(wire, open, server)
  /\ RequestsOK(reads, server, shown) /\ RequestsOK(mutations, server, shown)
  /\ OwnPolls(reads, visit, open)
  /\ GateOK(activeMutation, mutations) /\ IsFiniteSet(mutations)

-----------------------------------------------------------------------------
(* Requests in flight *)

\* A request that is outdated is still a request, and it has the same answer.
LEMMA OutdatedRequest ==
  ASSUME NEW r \in Request
  PROVE  /\ [r EXCEPT !.current = FALSE] \in Request
         /\ [r EXCEPT !.current = FALSE].visit = r.visit
         /\ [r EXCEPT !.current = FALSE].table = r.table
         /\ [r EXCEPT !.current = FALSE].phase = r.phase
         /\ [r EXCEPT !.current = FALSE].version = r.version
         /\ [r EXCEPT !.current = FALSE].current = FALSE
  BY DEF Request

\* A set of requests that are all outdated agrees with whatever is shown.
LEMMA OutdateKeepsRequests ==
  ASSUME NEW R, NEW srv, NEW sh, NEW sh2, RequestsOK(R, srv, sh)
  PROVE  RequestsOK(Outdate(R), srv, sh2)
  <1>1. SUFFICES ASSUME NEW r \in R
                 PROVE  /\ [r EXCEPT !.current = FALSE] \in Request
                        /\ AnswerOK([r EXCEPT !.current = FALSE], srv, sh2)
    BY Zenon DEF RequestsOK, Outdate
  <1>2. r \in Request /\ AnswerOK(r, srv, sh)
    BY DEF RequestsOK
  <1> DEFINE q == [r EXCEPT !.current = FALSE]
  <1>3. /\ q \in Request /\ q.table = r.table /\ q.phase = r.phase
        /\ q.version = r.version /\ q.current = FALSE
    BY <1>2, OutdatedRequest
  <1> HIDE DEF q
  <1>4. AnswerOK(q, srv, sh2)
    BY <1>2, <1>3, Zenon DEF AnswerOK
  <1> QED BY <1>3, <1>4 DEF q

\* Versions of the server only grow; answers that were not newer stay so.
Grown(srv, srv2) ==
  ServerOK(srv2) /\ \A t \in Tables : srv[t].version <= srv2[t].version

\* Answers stay what they are when the server goes on.
LEMMA GrowthKeepsRequests ==
  ASSUME NEW R, NEW srv, NEW srv2, NEW sh, ServerOK(srv), Grown(srv, srv2),
         RequestsOK(R, srv, sh)
  PROVE  RequestsOK(R, srv2, sh)
  <1>1. SUFFICES ASSUME NEW r \in R, r.phase = "answered"
                 PROVE  r.version <= srv2[r.table].version
    BY Zenon DEF RequestsOK, AnswerOK
  <1>2. r \in Request /\ r.version <= srv[r.table].version
    BY <1>1 DEF RequestsOK, AnswerOK
  <1>3. r.table \in Tables /\ r.version \in Nat
    BY <1>2 DEF Request
  <1>4. srv[r.table].version \in Nat /\ srv2[r.table].version \in Nat
    BY <1>3 DEF ServerOK, Grown
  <1>5. srv[r.table].version <= srv2[r.table].version
    BY <1>3 DEF Grown
  <1> QED BY <1>2, <1>3, <1>4, <1>5

\* An empty screen agrees with every request, and so do fewer requests.
LEMMA FewerRequests ==
  ASSUME NEW R, NEW S \in SUBSET R, NEW srv, NEW sh, RequestsOK(R, srv, sh)
  PROVE  RequestsOK(S, srv, sh) /\ RequestsOK(S, srv, None)
  BY Zenon DEF RequestsOK, AnswerOK

\* A request that fits is added to the others.
LEMMA OneMoreRequest ==
  ASSUME NEW R, NEW q \in Request, NEW srv, NEW sh, RequestsOK(R, srv, sh),
         AnswerOK(q, srv, sh)
  PROVE  RequestsOK(R \cup {q}, srv, sh)
  BY Zenon DEF RequestsOK

\* What a room sends has no answer yet.
LEMMA SentRequest ==
  ASSUME NEW v \in Nat, NEW o \in Tables, NEW srv, NEW sh
  PROVE  LET q == [visit |-> v, table |-> o, current |-> TRUE,
                   phase |-> "sent", version |-> 0]
         IN  q \in Request /\ AnswerOK(q, srv, sh) /\ q.visit = v /\ q.table = o
  BY DEF Request, AnswerOK

\* An answer carries the version the server has at that moment; what is shown
\* is not newer, being a picture the server gave away earlier.
LEMMA AnswerFits ==
  ASSUME NEW r \in Request, NEW srv, ServerOK(srv), NEW n \in Nat,
         n = srv[r.table].version, NEW sh, ShownOK(sh, srv)
  PROVE  LET q == [r EXCEPT !.phase = "answered", !.version = n]
         IN  q \in Request /\ AnswerOK(q, srv, sh) /\ q.visit = r.visit /\ q.table = r.table
  <1> DEFINE q == [r EXCEPT !.phase = "answered", !.version = n]
  <1>1. q \in Request /\ q.visit = r.visit /\ q.table = r.table /\ q.version = n
    BY DEF Request
  <1>2. sh # None /\ sh.picture.table = r.table => sh.picture.version <= n
    BY DEF ShownOK, Taken
  <1>3. n <= srv[r.table].version
    OBVIOUS
  <1> HIDE DEF q
  <1>4. AnswerOK(q, srv, sh)
    BY <1>1, <1>2, <1>3, Zenon DEF AnswerOK
  <1> QED BY <1>1, <1>4 DEF q

\* A request that fails has nothing to agree with.
LEMMA FailureFits ==
  ASSUME NEW r \in Request, NEW srv, NEW sh
  PROVE  LET q == [r EXCEPT !.phase = "failed"]
         IN  q \in Request /\ AnswerOK(q, srv, sh) /\ q.visit = r.visit /\ q.table = r.table
  BY DEF Request, AnswerOK

-----------------------------------------------------------------------------
(* Polls of the current visit *)

\* Polls are polls of their visit, whether their token is current or not.
LEMMA OutdateKeepsPolls ==
  ASSUME NEW R \in SUBSET Request, NEW v, NEW o, OwnPolls(R, v, o)
  PROVE  OwnPolls(Outdate(R), v, o)
  <1>1. SUFFICES ASSUME NEW r \in R
                 PROVE  /\ [r EXCEPT !.current = FALSE].visit <= v
                        /\ [r EXCEPT !.current = FALSE].visit = v
                             => [r EXCEPT !.current = FALSE].table = o
    BY Zenon DEF OwnPolls, Outdate
  <1>2. r \in Request /\ r.visit <= v /\ (r.visit = v => r.table = o)
    BY DEF OwnPolls
  <1> QED BY <1>2, OutdatedRequest, Zenon

\* A poll less is no harm.
LEMMA FewerPolls ==
  ASSUME NEW R, NEW S \in SUBSET R, NEW v, NEW o, OwnPolls(R, v, o)
  PROVE  OwnPolls(S, v, o)
  BY Zenon DEF OwnPolls

\* A poll more is none either, if it asks for the open table.
LEMMA OneMorePoll ==
  ASSUME NEW R, NEW q, NEW v, NEW o, OwnPolls(R, v, o),
         q.visit <= v, q.visit = v => q.table = o
  PROVE  OwnPolls(R \cup {q}, v, o)
  BY Zenon DEF OwnPolls

\* A new visit has no poll yet.
LEMMA NextVisitHasNoPoll ==
  ASSUME NEW R \in SUBSET Request, NEW v \in Nat, NEW o, NEW t, OwnPolls(R, v, o)
  PROVE  OwnPolls(R, v + 1, t)
  BY DEF OwnPolls, Request

-----------------------------------------------------------------------------
(* Pictures and frames *)

\* A picture that was taken was taken, whatever the server does next.
LEMMA GrowthKeepsPictures ==
  ASSUME NEW p, NEW srv, NEW srv2, ServerOK(srv), Grown(srv, srv2), Taken(p, srv)
  PROVE  Taken(p, srv2)
  <1>1. p \in Picture /\ p.version <= srv[p.table].version
    BY DEF Taken
  <1>2. p.table \in Tables /\ p.version \in Nat
    BY <1>1 DEF Picture
  <1>3. srv[p.table].version \in Nat /\ srv2[p.table].version \in Nat
    BY <1>2 DEF ServerOK, Grown
  <1>4. srv[p.table].version <= srv2[p.table].version
    BY <1>2 DEF Grown
  <1> QED BY <1>1, <1>2, <1>3, <1>4 DEF Taken

\* So it is with the picture on the screen and with those on their way to it.
LEMMA GrowthKeepsWhatIsShown ==
  ASSUME NEW srv, NEW srv2, ServerOK(srv), Grown(srv, srv2),
         NEW sh, NEW serv, NEW first, NEW o, NEW w,
         ShownOK(sh, srv), FirstOK(serv, first, o, srv), FramesOK(w, o, srv)
  PROVE  ShownOK(sh, srv2) /\ FirstOK(serv, first, o, srv2) /\ FramesOK(w, o, srv2)
  <1>1. ShownOK(sh, srv2)
    BY GrowthKeepsPictures, Zenon DEF ShownOK
  <1>2. FirstOK(serv, first, o, srv2)
    BY GrowthKeepsPictures, Zenon DEF FirstOK
  <1>3. FramesOK(w, o, srv2)
    BY GrowthKeepsPictures, Zenon DEF FramesOK
  <1> QED BY <1>1, <1>2, <1>3

\* A frame of the open table is put on the wire.
LEMMA AppendFrame ==
  ASSUME NEW w, NEW o, NEW srv, FramesOK(w, o, srv), NEW f \in Frame,
         f.kind = "table" => Taken(f.picture, srv) /\ f.picture.table = o
  PROVE  FramesOK(Append(w, f), o, srv)
  <1>1. w \in Seq(Frame)
    BY DEF FramesOK
  <1>2. /\ Append(w, f) \in Seq(Frame) /\ Len(Append(w, f)) = Len(w) + 1
        /\ \A i \in 1..Len(w) : Append(w, f)[i] = w[i]
        /\ Append(w, f)[Len(w) + 1] = f
    BY <1>1
  <1>3. SUFFICES ASSUME NEW i \in 1..(Len(w) + 1), Append(w, f)[i].kind = "table"
                 PROVE  /\ Taken(Append(w, f)[i].picture, srv)
                        /\ Append(w, f)[i].picture.table = o
    BY <1>2 DEF FramesOK
  <1>4. CASE i = Len(w) + 1
    BY <1>2, <1>3, <1>4, Zenon
  <1>5. CASE i # Len(w) + 1
    <2>1. i \in 1..Len(w)
      BY <1>1, <1>5, SMTT(60)
    <2> QED BY <1>2, <1>3, <2>1, ZenonT(60) DEF FramesOK
  <1> QED BY <1>4, <1>5

\* The first frame is received; the wire is another one afterwards.
LEMMA HeadAndTail ==
  ASSUME NEW w, NEW o, NEW srv, FramesOK(w, o, srv), w # <<>>
  PROVE  /\ FramesOK(Tail(w), o, srv) /\ Tail(w) # w
         /\ Head(w) \in Frame
         /\ Head(w).kind = "table" => Taken(Head(w).picture, srv) /\ Head(w).picture.table = o
  <1>1. w \in Seq(Frame)
    BY DEF FramesOK
  <1>2. /\ Tail(w) \in Seq(Frame) /\ Len(Tail(w)) = Len(w) - 1 /\ Len(w) \in Nat \ {0}
        /\ \A i \in 1..Len(Tail(w)) : Tail(w)[i] = w[i + 1]
        /\ Head(w) = w[1] /\ Head(w) \in Frame
    BY <1>1
  <1>3. FramesOK(Tail(w), o, srv)
    <2>1. SUFFICES ASSUME NEW i \in 1..Len(Tail(w)), Tail(w)[i].kind = "table"
                   PROVE  /\ Taken(Tail(w)[i].picture, srv)
                          /\ Tail(w)[i].picture.table = o
      BY <1>2 DEF FramesOK
    <2>2. i + 1 \in 1..Len(w) /\ Tail(w)[i] = w[i + 1]
      BY <1>2
    <2> QED BY <2>1, <2>2, Zenon DEF FramesOK
  <1>4. Tail(w) # w
    <2>1. \A n \in Nat : n - 1 # n
      OBVIOUS
    <2>3. Len(w) \in Nat
      BY <1>2, Zenon
    <2>2. Len(Tail(w)) # Len(w)
      BY <1>2, <2>1, <2>3, Zenon
    <2> QED BY <2>2, Zenon
  <1>5. Head(w).kind = "table" => Taken(Head(w).picture, srv) /\ Head(w).picture.table = o
    <2>1. 1 \in 1..Len(w)
      BY <1>2
    <2> QED BY <1>2, <2>1, Zenon DEF FramesOK
  <1> QED BY <1>2, <1>3, <1>4, <1>5

\* An empty wire shows nothing.
LEMMA NoFrames ==
  ASSUME NEW o, NEW srv
  PROVE  FramesOK(<<>>, o, srv)
  BY DEF FramesOK

-----------------------------------------------------------------------------
(* The gate and the number of requests *)

\* Outdating the requests does not touch the gate.
LEMMA OutdateKeepsGate ==
  ASSUME NEW M \in SUBSET Request, NEW a, GateOK(a, M)
  PROVE  GateOK(a, Outdate(M))
  <1>1. SUFFICES ASSUME a # 0 PROVE \E m \in Outdate(M) : m.visit = a
    BY Zenon DEF GateOK
  <1>2. PICK m \in M : m.visit = a
    BY <1>1, Zenon DEF GateOK
  <1>3. [m EXCEPT !.current = FALSE].visit = a
    BY <1>2, OutdatedRequest, Zenon
  <1>4. [m EXCEPT !.current = FALSE] \in Outdate(M)
    BY Zenon DEF Outdate
  <1> QED BY <1>3, <1>4

\* A request that is answered or fails goes on holding the gate.
LEMMA ReplaceKeepsGate ==
  ASSUME NEW M, NEW m \in M, NEW q, q.visit = m.visit, NEW a, GateOK(a, M)
  PROVE  GateOK(a, (M \ {m}) \cup {q})
  BY Zenon DEF GateOK

\* A request that is over opens the gate it closed, and no other.
LEMMA ReleaseKeepsGate ==
  ASSUME NEW M, NEW m \in M, NEW a, GateOK(a, M)
  PROVE  GateOK(IF a = m.visit THEN 0 ELSE a, M \ {m})
  BY Zenon DEF GateOK

\* Outdating makes no request of its own.
LEMMA OutdateIsFinite ==
  ASSUME NEW M, IsFiniteSet(M)
  PROVE  IsFiniteSet(Outdate(M)) /\ Cardinality(Outdate(M)) <= Cardinality(M)
  <1>1. Outdate(M) = {[r EXCEPT !.current = FALSE] : r \in M}
    BY Zenon DEF Outdate
  <1> DEFINE f == [r \in M |-> [r EXCEPT !.current = FALSE]]
             T == Outdate(M)
  <1>2. f \in Surjection(M, T)
    BY <1>1 DEF Surjection
  <1> HIDE DEF f, T
  <1>3. IsFiniteSet(T) /\ Cardinality(T) <= Cardinality(M)
    BY <1>2, FS_Surjection
  <1> QED BY <1>3 DEF T

-----------------------------------------------------------------------------
(* The steps of the page *)

\* A room that starts to follow a table begins with nothing: no picture, no
\* frame, and no poll of its new visit.
LEMMA StartKeepsRoom ==
  ASSUME RoomInv, NEW t \in Tables, StartSync(t), UNCHANGED <<server, netVars, gateVars>>
  PROVE  RoomInv'
  <1> USE RoomAssumption
  <1>1. /\ open' = t /\ visit' = visit + 1 /\ shown' = None /\ polling' = FALSE
        /\ socket' = "connecting" /\ serving' = "no" /\ wire' = <<>>
        /\ server' = server /\ reads' = reads /\ mutations' = mutations
        /\ activeMutation' = activeMutation
    BY DEF StartSync, gateVars
  <1>2. PageOK(open, visit, socket, serving, polling)'
    BY <1>1 DEF PageOK, RoomInv
  <1>3. ShownOK(shown, server)' /\ FirstOK(serving, initial, open, server)'
        /\ FramesOK(wire, open, server)'
    BY <1>1, NoFrames DEF ShownOK, FirstOK
  <1>4. RequestsOK(reads, server, shown)' /\ RequestsOK(mutations, server, shown)'
    BY <1>1, FewerRequests DEF RoomInv
  <1>5. OwnPolls(reads, visit, open)'
    BY <1>1, NextVisitHasNoPoll DEF RoomInv, RequestsOK, PageOK
  <1> QED BY <1>1, <1>2, <1>3, <1>4, <1>5 DEF RoomInv

\* A room that is left leaves nothing behind.
LEMMA LeavingKeepsRoom ==
  ASSUME RoomInv, LeftRoom, UNCHANGED <<server, netVars>>
  PROVE  RoomInv'
  <1>1. /\ open' = None /\ visit' = visit /\ shown' = None /\ polling' = FALSE
        /\ socket' = "down" /\ serving' = "no" /\ wire' = <<>>
        /\ server' = server /\ reads' = {} /\ mutations' = {}
        /\ activeMutation' = 0
    BY DEF LeftRoom
  <1>2. PageOK(open, visit, socket, serving, polling)'
    BY <1>1 DEF PageOK, RoomInv
  <1>3. ShownOK(shown, server)' /\ FirstOK(serving, initial, open, server)'
        /\ FramesOK(wire, open, server)'
    BY <1>1, NoFrames DEF ShownOK, FirstOK
  <1>4. RequestsOK(reads, server, shown)' /\ RequestsOK(mutations, server, shown)'
        /\ OwnPolls(reads, visit, open)' /\ GateOK(activeMutation, mutations)'
    BY <1>1 DEF RequestsOK, OwnPolls, GateOK
  <1>5. IsFiniteSet(mutations')
    BY <1>1, FS_EmptySet
  <1> QED BY <1>1, <1>2, <1>3, <1>4, <1>5 DEF RoomInv

\* A poll of this visit asks for the table that is open.
LEMMA RefreshFits ==
  ASSUME RoomInv, open \in Tables, Refresh
  PROVE  RequestsOK(reads', server, shown) /\ OwnPolls(reads', visit, open)
  <1> DEFINE q == [visit |-> visit, table |-> open, current |-> TRUE,
                   phase |-> "sent", version |-> 0]
  <1>1. CASE reads' = reads
    BY <1>1 DEF RoomInv
  <1>2. CASE reads' = reads \cup {q}
    <2>1. visit \in Nat
      BY DEF RoomInv, PageOK
    <2>2. q \in Request /\ AnswerOK(q, server, shown) /\ q.visit = visit /\ q.table = open
      BY <2>1, SentRequest
    <2> HIDE DEF q
    <2>3. q.visit <= visit
      BY <2>1, <2>2
    <2> QED BY <1>2, <2>2, <2>3, OneMoreRequest, OneMorePoll, Zenon DEF RoomInv
  <1> QED BY <1>1, <1>2, Zenon DEF Refresh

\* The reconnect timer opens another socket.
LEMMA ConnectKeepsRoom ==
  ASSUME RoomInv, Connect
  PROVE  RoomInv'
  <1>1. PageOK(open, visit, socket, serving, polling)'
    BY DEF Connect, PageOK, RoomInv, pageVars
  <1> QED BY <1>1 DEF Connect, RoomInv, pageVars, gateVars

\* The socket opens, and one more poll is made.
LEMMA OpeningSocketKeepsRoom ==
  ASSUME RoomInv, SocketOpens
  PROVE  RoomInv'
  <1>1. open \in Tables
    BY DEF SocketOpens, PageOK, RoomInv
  <1>2. PageOK(open, visit, socket, serving, polling)'
    BY <1>1 DEF SocketOpens, PageOK, RoomInv, pageVars
  <1>3. RequestsOK(reads', server, shown) /\ OwnPolls(reads', visit, open)
    BY <1>1, RefreshFits DEF SocketOpens
  <1> QED BY <1>2, <1>3 DEF SocketOpens, RoomInv, pageVars

\* The polling timer makes a poll.
LEMMA PollKeepsRoom ==
  ASSUME RoomInv, PollTick
  PROVE  RoomInv'
  <1>1. open \in Tables
    BY DEF PollTick, PageOK, RoomInv
  <1>2. RequestsOK(reads', server, shown) /\ OwnPolls(reads', visit, open)
    BY <1>1, RefreshFits DEF PollTick
  <1> QED BY <1>2 DEF PollTick, RoomInv, pageVars, socketVars

\* A closed socket takes its frames with it; polling begins.
LEMMA ClosingSocketKeepsRoom ==
  ASSUME RoomInv, open \in Tables, SocketClosed,
         UNCHANGED <<server, pageVars, shown, activeMutation, mutations>>
  PROVE  RoomInv'
  <1>1. /\ socket' = "down" /\ serving' = "no" /\ wire' = <<>> /\ polling' = TRUE
        /\ server' = server /\ open' = open /\ visit' = visit /\ shown' = shown
        /\ activeMutation' = activeMutation /\ mutations' = mutations
    BY DEF SocketClosed, pageVars
  <1>2. reads' = reads \/ Refresh
    BY DEF SocketClosed
  <1>3. RequestsOK(reads', server, shown) /\ OwnPolls(reads', visit, open)
    BY <1>2, RefreshFits DEF RoomInv
  <1>4. PageOK(open, visit, socket, serving, polling)'
    BY <1>1 DEF PageOK, RoomInv
  <1>5. FirstOK(serving, initial, open, server)' /\ FramesOK(wire, open, server)'
    BY <1>1, NoFrames DEF FirstOK
  <1> QED BY <1>1, <1>3, <1>4, <1>5 DEF RoomInv

\* The socket fails.
LEMMA FailingSocketKeepsRoom ==
  ASSUME RoomInv, SocketFails
  PROVE  RoomInv'
  <1>1. open \in Tables
    BY DEF SocketFails, PageOK, RoomInv
  <1> QED BY <1>1, ClosingSocketKeepsRoom DEF SocketFails

\* The network is back: the socket is left alone, opened or replaced.
LEMMA GoingOnlineKeepsRoom ==
  ASSUME RoomInv, GoOnline
  PROVE  RoomInv'
  <1>1. UNCHANGED <<server, mishaps, pageVars, shown, activeMutation, mutations>>
    BY DEF GoOnline
  <1>2. CASE UNCHANGED <<socketVars, reads, polling, live>>
    BY <1>1, <1>2 DEF RoomInv, pageVars, socketVars
  <1>3. CASE /\ open # None /\ socket' = "connecting"
             /\ UNCHANGED <<serving, initial, wire, reads, polling>>
    <2>1. PageOK(open, visit, socket, serving, polling)'
      BY <1>1, <1>3 DEF PageOK, RoomInv, pageVars
    <2> QED BY <1>1, <1>3, <2>1 DEF RoomInv, pageVars
  <1>4. CASE open # None /\ SocketClosed
    <2>1. open \in Tables
      BY <1>4 DEF PageOK, RoomInv
    <2> QED BY <1>1, <1>4, <2>1, ClosingSocketKeepsRoom
  <1> QED BY <1>2, <1>3, <1>4 DEF GoOnline

-----------------------------------------------------------------------------
(* What is shown *)

\* A picture of the server is shown and every token handed out before is void.
LEMMA ShowingKeepsRoom ==
  ASSUME RoomInv, NEW p, NEW late \in BOOLEAN, Taken(p, server),
         NEW R \in SUBSET reads, NEW M \in SUBSET mutations,
         shown' = [picture |-> p, late |-> late],
         reads' = Outdate(R), mutations' = Outdate(M),
         GateOK(activeMutation', M),
         FramesOK(wire', open, server),
         UNCHANGED <<server, pageVars, socket, serving, initial, polling>>
  PROVE  RoomInv'
  <1>1. /\ server' = server /\ open' = open /\ visit' = visit /\ socket' = socket
        /\ serving' = serving /\ initial' = initial /\ polling' = polling
    BY DEF pageVars
  <1>2. ShownOK(shown, server)'
    BY <1>1 DEF ShownOK, Taken
  <1>3. RequestsOK(R, server, shown) /\ RequestsOK(M, server, shown)
    BY FewerRequests DEF RoomInv
  <1>4. RequestsOK(reads, server, shown)' /\ RequestsOK(mutations, server, shown)'
    BY <1>1, <1>3, OutdateKeepsRequests
  <1>5. R \subseteq Request /\ M \subseteq Request
    BY <1>3 DEF RequestsOK
  <1>6. OwnPolls(reads, visit, open)'
    BY <1>1, <1>5, FewerPolls, OutdateKeepsPolls DEF RoomInv
  <1>7. GateOK(activeMutation, mutations)'
    BY <1>5, OutdateKeepsGate
  <1>8. IsFiniteSet(mutations')
    BY FS_Subset, OutdateIsFinite DEF RoomInv
  <1> QED BY <1>1, <1>2, <1>4, <1>6, <1>7, <1>8 DEF RoomInv

\* A pushed picture is of the open table.
LEMMA PushKeepsRoom ==
  ASSUME RoomInv, TakePush
  PROVE  /\ RoomInv'
         /\ wire' # wire /\ shown'.picture.table = open /\ open' = open
  <1> DEFINE f == Head(wire)
  <1>1. /\ wire # <<>> /\ f.kind # "table_deleted"
        /\ shown' = [picture |-> f.picture, late |-> f.late] /\ wire' = Tail(wire)
        /\ reads' = Outdate(reads) /\ mutations' = Outdate(mutations)
        /\ UNCHANGED <<server, pageVars, socket, serving, initial, polling, activeMutation>>
    BY DEF TakePush
  <1>2. /\ FramesOK(Tail(wire), open, server) /\ Tail(wire) # wire /\ f \in Frame
        /\ f.kind = "table" => Taken(f.picture, server) /\ f.picture.table = open
    BY <1>1, HeadAndTail DEF RoomInv
  <1> HIDE DEF f
  <1>3. f.kind = "table" /\ f.late \in BOOLEAN
    BY <1>1, <1>2 DEF Frame
  <1>4. GateOK(activeMutation', mutations)
    BY <1>1 DEF RoomInv
  <1>5. RoomInv'
    BY <1>1, <1>2, <1>3, <1>4, ShowingKeepsRoom
  <1> QED BY <1>1, <1>2, <1>3, <1>5 DEF pageVars

\* An accepted poll of this visit is of the open table and no older than what
\* it replaces.
LEMMA ReadKeepsRoom ==
  ASSUME RoomInv, NEW r, ReadArrives(r)
  PROVE  /\ RoomInv'
         /\ \/ shown' = shown
            \/ /\ shown'.picture.table = open /\ open' = open
               /\ shown # None => ~ Older(shown'.picture, shown.picture)
  <1>1. /\ r \in reads /\ UNCHANGED <<server, pageVars, socket, serving, initial, wire,
                                      polling, activeMutation>>
    BY DEF ReadArrives, socketVars
  <1>2. RequestsOK(reads, server, shown) /\ r \in Request /\ AnswerOK(r, server, shown)
    BY <1>1 DEF RoomInv, RequestsOK
  <1>3. CASE /\ Ours(r) /\ r.phase = "answered" /\ AcceptsRead(r)
             /\ shown' = [picture |-> PictureIn(r), late |-> FALSE]
             /\ reads' = Outdate(reads \ {r}) /\ mutations' = Outdate(mutations)
    <2>1. /\ PictureIn(r) \in Picture /\ PictureIn(r).table = r.table
          /\ PictureIn(r).version = r.version
      BY <1>2 DEF PictureIn, Picture, Request
    <2>2. Taken(PictureIn(r), server)
      BY <1>2, <1>3, <2>1, Zenon DEF Taken, AnswerOK
    <2>3. GateOK(activeMutation', mutations) /\ FramesOK(wire', open, server)
      BY <1>1 DEF RoomInv
    <2>4. RoomInv'
      BY <1>1, <1>3, <2>2, <2>3, ShowingKeepsRoom
    <2>5. r.table = open
      BY <1>1, <1>3 DEF RoomInv, OwnPolls, Ours
    <2>6. shown # None => ~ Older(PictureIn(r), shown.picture)
      <3>1. SUFFICES ASSUME shown # None, shown.picture.table = r.table
                     PROVE  ~ r.version < shown.picture.version
        BY <2>1, Zenon DEF Older
      <3>2. shown.picture.version <= r.version
        BY <1>2, <1>3, <3>1 DEF AnswerOK, AcceptsRead
      <3>3. shown.picture.version \in Nat /\ r.version \in Nat
        BY <1>2, <3>1 DEF RoomInv, ShownOK, Taken, Picture, Request
      <3> QED BY <3>2, <3>3
    <2> QED BY <1>1, <1>3, <2>1, <2>4, <2>5, <2>6 DEF pageVars
  <1>4. CASE reads' = reads \ {r} /\ UNCHANGED <<shown, mutations>>
    <2>1. RequestsOK(reads', server, shown) /\ OwnPolls(reads', visit, open)
      BY <1>4, FewerRequests, FewerPolls DEF RoomInv
    <2> QED BY <1>1, <1>4, <2>1 DEF RoomInv, pageVars
  <1> QED BY <1>3, <1>4 DEF ReadArrives

\* The reply to an own request hands the gate back and leaves its place.
LEMMA ReplyKeepsRoom ==
  ASSUME RoomInv, NEW m, MutationArrives(m)
  PROVE  /\ RoomInv'
         /\ shown' # shown /\ shown # None => ~ Older(shown'.picture, shown.picture)
         /\ Cardinality(mutations') < Cardinality(mutations)
  <1>1. /\ m \in mutations /\ m.phase # "sent" /\ activeMutation' = Released(m)
        /\ UNCHANGED <<server, pageVars, socket, serving, initial, wire, polling>>
    BY DEF MutationArrives, socketVars
  <1> DEFINE M == mutations \ {m}
  <1>2. RequestsOK(mutations, server, shown) /\ m \in Request /\ AnswerOK(m, server, shown)
    BY <1>1 DEF RoomInv, RequestsOK
  <1>3. GateOK(activeMutation', M)
    BY <1>1, ReleaseKeepsGate DEF RoomInv, Released
  <1>4. IsFiniteSet(M) /\ Cardinality(M) = Cardinality(mutations) - 1
        /\ Cardinality(mutations) \in Nat /\ Cardinality(M) \in Nat
    BY <1>1, FS_RemoveElement, FS_CardinalityType DEF RoomInv
  <1>5. CASE /\ m.phase = "answered" /\ AcceptsMutation(m)
             /\ shown' = [picture |-> PictureIn(m), late |-> FALSE]
             /\ reads' = Outdate(reads) /\ mutations' = Outdate(M)
    <2>1. /\ PictureIn(m) \in Picture /\ PictureIn(m).table = m.table
          /\ PictureIn(m).version = m.version
      BY <1>2 DEF PictureIn, Picture, Request
    <2>2. Taken(PictureIn(m), server)
      BY <1>2, <1>5, <2>1, Zenon DEF Taken, AnswerOK
    <2>3. FramesOK(wire', open, server)
      BY <1>1 DEF RoomInv
    <2>4. RoomInv'
      BY <1>1, <1>3, <1>5, <2>2, <2>3, ShowingKeepsRoom
    <2>5. shown # None => ~ Older(PictureIn(m), shown.picture)
      <3>1. SUFFICES ASSUME shown # None, shown.picture.table = m.table
                     PROVE  ~ m.version < shown.picture.version
        BY <2>1, Zenon DEF Older
      <3>2. shown.picture.version <= m.version
        BY <1>2, <1>5, <3>1 DEF AnswerOK, AcceptsMutation
      <3>3. shown.picture.version \in Nat /\ m.version \in Nat
        BY <1>2, <3>1 DEF RoomInv, ShownOK, Taken, Picture, Request
      <3> QED BY <3>2, <3>3
    <2>6. Cardinality(mutations') <= Cardinality(M) /\ Cardinality(mutations') \in Nat
      BY <1>4, <1>5, OutdateIsFinite, FS_CardinalityType
    <2> QED BY <1>4, <1>5, <2>4, <2>5, <2>6
  <1>6. CASE mutations' = M /\ UNCHANGED <<shown, reads>>
    <2>1. RequestsOK(mutations', server, shown)
      BY <1>2, <1>6, FewerRequests
    <2>2. RoomInv'
      BY <1>1, <1>3, <1>4, <1>6, <2>1 DEF RoomInv, pageVars
    <2> QED BY <1>4, <1>6, <2>2
  <1> QED BY <1>5, <1>6 DEF MutationArrives

-----------------------------------------------------------------------------
(* Requests and the server *)

\* A click closes the gate and outdates every token.
LEMMA ClickKeepsRoom ==
  ASSUME RoomInv, Click
  PROVE  RoomInv'
  <1> DEFINE q == [visit |-> visit, table |-> open, current |-> TRUE,
                   phase |-> "sent", version |-> 0]
  <1>1. /\ open # None /\ activeMutation' = visit /\ reads' = Outdate(reads)
        /\ mutations' = Outdate(mutations) \cup {q}
        /\ UNCHANGED <<server, pageVars, socketVars, shown, polling>>
    BY DEF Click
  <1>2. visit \in Nat /\ open \in Tables
    BY <1>1 DEF RoomInv, PageOK
  <1>3. q \in Request /\ AnswerOK(q, server, shown) /\ q.visit = visit /\ q.table = open
    BY <1>2, SentRequest
  <1> HIDE DEF q
  <1>4. RequestsOK(Outdate(reads), server, shown) /\ RequestsOK(Outdate(mutations), server, shown)
    BY OutdateKeepsRequests DEF RoomInv
  <1>5. RequestsOK(mutations', server, shown)
    BY <1>1, <1>3, <1>4, OneMoreRequest
  <1>6. OwnPolls(Outdate(reads), visit, open)
    BY OutdateKeepsPolls DEF RoomInv, RequestsOK
  <1>7. GateOK(activeMutation', mutations')
    BY <1>1, <1>3, Zenon DEF GateOK
  <1>8. IsFiniteSet(mutations')
    BY <1>1, OutdateIsFinite, FS_AddElement DEF RoomInv
  <1> QED BY <1>1, <1>4, <1>5, <1>6, <1>7, <1>8 DEF RoomInv, pageVars, socketVars

\* The answer to an own request replaces it.
LEMMA ReplacedMutation ==
  ASSUME NEW M, NEW m \in M, NEW q \in Request, q.visit = m.visit, NEW a,
         NEW srv, NEW sh, RequestsOK(M, srv, sh), AnswerOK(q, srv, sh),
         GateOK(a, M), IsFiniteSet(M)
  PROVE  LET N == (M \ {m}) \cup {q}
         IN  RequestsOK(N, srv, sh) /\ GateOK(a, N) /\ IsFiniteSet(N)
  <1> DEFINE N == (M \ {m}) \cup {q}
  <1>1. RequestsOK(M \ {m}, srv, sh)
    BY FewerRequests
  <1>2. RequestsOK(N, srv, sh)
    BY <1>1, OneMoreRequest
  <1>3. GateOK(a, N)
    BY ReplaceKeepsGate
  <1>4. IsFiniteSet(M \ {m})
    BY FS_RemoveElement
  <1>5. IsFiniteSet(N)
    BY <1>4, FS_AddElement
  <1> QED BY <1>2, <1>3, <1>5

\* An own request that failed is still in flight, for its reply.
LEMMA FailedFits ==
  ASSUME NEW srv, NEW sh, NEW m \in mutations, Failed(m),
         RequestsOK(mutations, srv, sh), GateOK(activeMutation, mutations),
         IsFiniteSet(mutations)
  PROVE  /\ RequestsOK(mutations', srv, sh) /\ GateOK(activeMutation, mutations')
         /\ IsFiniteSet(mutations')
  <1> DEFINE q == [m EXCEPT !.phase = "failed"]
  <1>1. m \in Request
    BY DEF RequestsOK
  <1>2. q \in Request /\ AnswerOK(q, srv, sh) /\ q.visit = m.visit
    BY <1>1, FailureFits
  <1>3. mutations' = (mutations \ {m}) \cup {q}
    BY DEF Failed
  <1> HIDE DEF q
  <1> QED BY <1>2, <1>3, ReplacedMutation

\* The entry of a table after a change of it.
LEMMA BumpedEntry ==
  ASSUME NEW e \in [version : Nat, exists : BOOLEAN, told : BOOLEAN]
  PROVE  LET x == [e EXCEPT !.version = e.version + 1, !.told = TRUE]
         IN  /\ x \in [version : Nat, exists : BOOLEAN, told : BOOLEAN]
             /\ x.version = e.version + 1
  <1> DEFINE n == e.version + 1
             x == [e EXCEPT !.version = n, !.told = TRUE]
  <1>1. n \in Nat
    OBVIOUS
  <1> HIDE DEF n
  <1>2. x \in [version : Nat, exists : BOOLEAN, told : BOOLEAN] /\ x.version = n
    BY <1>1
  <1> QED BY <1>2 DEF n

\* A new version of a table is a grown server, and everything taken so far is
\* still a picture of it.
LEMMA BumpGrows ==
  ASSUME ServerOK(server), NEW t \in Tables, NEW b \in BOOLEAN,
         NEW s, s \in {Bumped(t), [Bumped(t) EXCEPT ![t].told = FALSE]}
  PROVE  Grown(server, s) /\ s[t].version = server[t].version + 1
  <1>1. server \in [Tables -> [version : Nat, exists : BOOLEAN, told : BOOLEAN]]
    BY DEF ServerOK
  <1>2. server[t] \in [version : Nat, exists : BOOLEAN, told : BOOLEAN]
    BY <1>1
  <1>3. \A u \in Tables : server[u].version \in Nat
    BY <1>1
  <1> DEFINE x == [server[t] EXCEPT !.version = server[t].version + 1, !.told = TRUE]
             y == [x EXCEPT !.told = FALSE]
  <1>4. /\ x \in [version : Nat, exists : BOOLEAN, told : BOOLEAN]
        /\ x.version = server[t].version + 1
    BY <1>2, BumpedEntry
  <1>5. Bumped(t) = [server EXCEPT ![t] = x]
    BY <1>1, <1>2 DEF Bumped
  <1> HIDE DEF x
  <1>6. /\ y \in [version : Nat, exists : BOOLEAN, told : BOOLEAN]
        /\ y.version = server[t].version + 1
    BY <1>4
  <1>7. Bumped(t)[t] = x /\ [Bumped(t) EXCEPT ![t].told = FALSE] = [server EXCEPT ![t] = y]
    BY <1>1, <1>5
  <1> HIDE DEF y
  <1>8. PICK z \in {x, y} : s = [server EXCEPT ![t] = z]
    BY <1>5, <1>7
  <1>9. /\ z \in [version : Nat, exists : BOOLEAN, told : BOOLEAN]
        /\ z.version = server[t].version + 1
    BY <1>4, <1>6
  <1>10. s \in [Tables -> [version : Nat, exists : BOOLEAN, told : BOOLEAN]]
    BY <1>1, <1>8, <1>9
  <1>11. \A u \in Tables : s[u] = IF u = t THEN z ELSE server[u]
    BY <1>1, <1>8
  <1>12. \A u \in Tables : server[u].version <= s[u].version
    BY <1>3, <1>9, <1>11
  <1> QED BY <1>9, <1>10, <1>11, <1>12 DEF Grown, ServerOK

\* A deletion leaves the version alone.
LEMMA DeleteGrows ==
  ASSUME ServerOK(server), NEW t \in Tables
  PROVE  Grown(server, [server EXCEPT ![t].exists = FALSE])
  <1> DEFINE x == [server[t] EXCEPT !.exists = FALSE]
             s == [server EXCEPT ![t] = x]
  <1>1. server \in [Tables -> [version : Nat, exists : BOOLEAN, told : BOOLEAN]]
    BY DEF ServerOK
  <1>2. \A u \in Tables : server[u].version \in Nat
    BY <1>1
  <1>3. /\ x \in [version : Nat, exists : BOOLEAN, told : BOOLEAN]
        /\ x.version = server[t].version
    BY <1>1
  <1> HIDE DEF x
  <1>4. s \in [Tables -> [version : Nat, exists : BOOLEAN, told : BOOLEAN]]
    BY <1>1, <1>3
  <1>5. \A u \in Tables : s[u] = IF u = t THEN x ELSE server[u]
    BY <1>1
  <1> HIDE DEF s
  <1>6. Grown(server, s)
    BY <1>2, <1>3, <1>4, <1>5 DEF Grown, ServerOK
  <1> QED BY <1>6 DEF s, x

\* What the server and the socket may do to a room without its noticing: the
\* versions grow, and a frame about the open table is written to its socket.
ServerMoves ==
  /\ Grown(server, server')
  /\ \/ UNCHANGED <<wire, serving>>
     \/ \E t \in Tables, f \in Frame :
          /\ f.kind = "table" => Taken(f.picture, server') /\ f.picture.table = t
          /\ Broadcast(t, f)

\* Whatever the server does, the room stays in order.
LEMMA ServerMovesFit ==
  ASSUME RoomInv, ServerMoves, UNCHANGED <<pageVars, socket, initial, shown, polling>>
  PROVE  /\ ServerOK(server') /\ PageOK(open, visit, socket, serving, polling)'
         /\ ShownOK(shown, server)' /\ FirstOK(serving, initial, open, server)'
         /\ FramesOK(wire, open, server)'
         /\ RequestsOK(reads, server', shown) /\ RequestsOK(mutations, server', shown)
  <1>1. /\ open' = open /\ visit' = visit /\ socket' = socket /\ initial' = initial
        /\ shown' = shown /\ polling' = polling /\ Grown(server, server')
    BY DEF pageVars, ServerMoves
  <1>2. /\ ShownOK(shown, server') /\ FirstOK(serving, initial, open, server')
        /\ FramesOK(wire, open, server')
    BY <1>1, GrowthKeepsWhatIsShown DEF RoomInv
  <1>3. RequestsOK(reads, server', shown) /\ RequestsOK(mutations, server', shown)
    BY <1>1, GrowthKeepsRequests DEF RoomInv
  <1>4. ServerOK(server')
    BY <1>1 DEF Grown
  <1>5. CASE UNCHANGED <<wire, serving>>
    BY <1>1, <1>2, <1>3, <1>4, <1>5 DEF RoomInv
  <1>6. ASSUME NEW t \in Tables, NEW f \in Frame, Broadcast(t, f),
               f.kind = "table" => Taken(f.picture, server') /\ f.picture.table = t
        PROVE  /\ PageOK(open, visit, socket, serving, polling)'
               /\ FirstOK(serving, initial, open, server)' /\ FramesOK(wire, open, server)'
    <2>1. serving' = serving \/ (serving = "snapped" /\ serving' = "overtaken")
      BY <1>6 DEF Broadcast
    <2>2. PageOK(open, visit, socket, serving, polling)'
      BY <1>1, <2>1 DEF PageOK, RoomInv
    <2>3. FirstOK(serving, initial, open, server)'
      BY <1>1, <1>2, <2>1, Zenon DEF FirstOK
    <2>4. wire' = wire \/ (open = t /\ wire' = Append(wire, f))
      BY <1>6 DEF Broadcast, Listening
    <2>5. FramesOK(wire', open, server')
      BY <1>2, <1>6, <2>4, AppendFrame, Zenon
    <2> QED BY <1>1, <2>2, <2>3, <2>5
  <1> QED BY <1>1, <1>2, <1>3, <1>4, <1>5, <1>6, Zenon DEF ServerMoves

\* A change is such a move, told or not.
LEMMA ChangeMovesServer ==
  ASSUME RoomInv, NEW t \in Tables, Changed(t) \/ ChangedUnsaved(t)
  PROVE  ServerMoves /\ server'[t].version = server[t].version + 1
  <1>1. ServerOK(server)
    BY DEF RoomInv
  <1>2. server[t].version \in Nat
    BY <1>1 DEF ServerOK
  <1>3. CASE Changed(t)
    <2> DEFINE p == [table |-> t, version |-> server[t].version + 1]
               f == [kind |-> "table", picture |-> p, late |-> FALSE]
    <2>1. server' = Bumped(t) /\ Broadcast(t, f)
      BY <1>3 DEF Changed
    <2>2. Grown(server, server') /\ server'[t].version = server[t].version + 1
      BY <1>1, <2>1, BumpGrows
    <2>3. p \in Picture /\ p.table = t /\ p.version = server[t].version + 1
      BY <1>2 DEF Picture
    <2> HIDE DEF p
    <2>4. Taken(p, server')
      BY <1>2, <2>2, <2>3 DEF Taken
    <2>5. f \in Frame /\ f.picture = p
      BY <2>3 DEF Frame
    <2> HIDE DEF f
    <2> QED BY <2>1, <2>2, <2>3, <2>4, <2>5, Zenon DEF ServerMoves
  <1>4. CASE ChangedUnsaved(t)
    <2>1. server' = [Bumped(t) EXCEPT ![t].told = FALSE] /\ UNCHANGED <<wire, serving>>
      BY <1>4 DEF ChangedUnsaved
    <2>2. Grown(server, server') /\ server'[t].version = server[t].version + 1
      BY <1>1, <2>1, BumpGrows
    <2> QED BY <2>1, <2>2 DEF ServerMoves
  <1> QED BY <1>3, <1>4

\* The server handles a request: applied and told, applied and not saved, or refused.
LEMMA HandlingKeepsRoom ==
  ASSUME RoomInv, NEW m, HandleMutation(m)
  PROVE  RoomInv'
  <1>1. /\ m \in mutations
        /\ UNCHANGED <<online, pageVars, socket, initial, shown, live,
                       polling, activeMutation, reads>>
    BY DEF HandleMutation
  <1>2. m \in Request /\ ServerOK(server)
    BY <1>1 DEF RoomInv, RequestsOK
  <1>3. m.table \in Tables
    BY <1>2 DEF Request
  <1>4. ASSUME ServerMoves, RequestsOK(mutations', server', shown),
               GateOK(activeMutation, mutations'), IsFiniteSet(mutations')
        PROVE  RoomInv'
    BY <1>1, <1>4, ServerMovesFit DEF RoomInv, pageVars
  <1>5. ASSUME ServerMoves, Failed(m)
        PROVE  RoomInv'
    <2>1. RequestsOK(mutations, server', shown)
      BY <1>1, <1>5, ServerMovesFit
    <2> QED BY <1>1, <1>4, <1>5, <2>1, FailedFits DEF RoomInv
  <1>6. CASE Changed(m.table) /\ (Answered(m) \/ Failed(m))
    <2>1. ServerMoves /\ server'[m.table].version = server[m.table].version + 1
      BY <1>3, <1>6, ChangeMovesServer
    <2>2. CASE Failed(m)
      BY <1>5, <2>1, <2>2
    <2>3. CASE Answered(m)
      <3> DEFINE n == server[m.table].version + 1
                 q == [m EXCEPT !.phase = "answered", !.version = n]
      <3>1. mutations' = (mutations \ {m}) \cup {q}
        BY <2>3 DEF Answered
      <3>2. n \in Nat
        BY <1>2, <1>3 DEF ServerOK
      <3>3. /\ ServerOK(server') /\ RequestsOK(mutations, server', shown)
            /\ ShownOK(shown, server')
        BY <1>1, <2>1, ServerMovesFit
      <3>4. n = server'[m.table].version
        BY <2>1
      <3> HIDE DEF n
      <3>5. q \in Request /\ AnswerOK(q, server', shown) /\ q.visit = m.visit
        BY <1>2, <3>2, <3>3, <3>4, AnswerFits
      <3> HIDE DEF q
      <3>6. /\ RequestsOK(mutations', server', shown)
            /\ GateOK(activeMutation, mutations') /\ IsFiniteSet(mutations')
        BY <1>1, <3>1, <3>3, <3>5, ReplacedMutation DEF RoomInv
      <3> QED BY <1>4, <2>1, <3>6
    <2> QED BY <1>6, <2>2, <2>3
  <1>7. CASE ChangedUnsaved(m.table) /\ Failed(m)
    BY <1>3, <1>5, <1>7, ChangeMovesServer
  <1>8. CASE Failed(m) /\ UNCHANGED <<server, mishaps, wire, serving>>
    <2>1. ServerMoves
      BY <1>2, <1>8 DEF ServerMoves, Grown, ServerOK
    <2> QED BY <1>5, <1>8, <2>1
  <1> QED BY <1>6, <1>7, <1>8 DEF HandleMutation

\* A request that does not reach the server fails.
LEMMA LosingKeepsRoom ==
  ASSUME RoomInv, NEW m, LoseMutation(m)
  PROVE  RoomInv'
  <1>1. /\ m \in mutations /\ Failed(m)
        /\ UNCHANGED <<server, netVars, pageVars, socketVars, shown, live,
                       polling, activeMutation, reads>>
    BY DEF LoseMutation
  <1> QED BY <1>1, FailedFits DEF RoomInv, pageVars, socketVars

\* Others change the table, or delete it.
LEMMA OthersKeepRoom ==
  ASSUME RoomInv, NEW t \in Tables, OtherChange(t) \/ DeleteTable(t)
  PROVE  RoomInv'
  <1>1. UNCHANGED <<pageVars, socket, initial, gateVars, shown, polling>>
    BY DEF OtherChange, DeleteTable
  <1>2. ServerMoves
    <2>1. CASE OtherChange(t)
      BY <2>1, ChangeMovesServer DEF OtherChange
    <2>2. CASE DeleteTable(t)
      <3> DEFINE f == [kind |-> "table_deleted"]
      <3>1. server' = [server EXCEPT ![t].exists = FALSE] /\ Broadcast(t, f)
        BY <2>2 DEF DeleteTable
      <3>2. Grown(server, server')
        BY <3>1, DeleteGrows DEF RoomInv
      <3>3. f \in Frame /\ f.kind # "table"
        BY DEF Frame
      <3> HIDE DEF f
      <3> QED BY <3>1, <3>2, <3>3, Zenon DEF ServerMoves
    <2> QED BY <2>1, <2>2
  <1> QED BY <1>1, <1>2, ServerMovesFit DEF RoomInv, pageVars, gateVars

\* The hub accepts the socket, registers it and takes the first snapshot.
LEMMA OpeningStepsKeepRoom ==
  ASSUME RoomInv, AcceptSocket \/ AddClient \/ TakeSnapshot
  PROVE  RoomInv'
  <1>1. /\ UNCHANGED <<server, pageVars, gateVars, socket, wire, shown, polling>>
        /\ socket # "down" \/ serving # "no"
    BY DEF AcceptSocket, AddClient, TakeSnapshot
  <1>2. open \in Tables
    BY <1>1 DEF RoomInv, PageOK
  <1>3. PageOK(open, visit, socket, serving, polling)'
    BY <1>1, <1>2 DEF RoomInv, PageOK, pageVars
  <1>4. FirstOK(serving, initial, open, server)'
    <2>1. CASE AcceptSocket \/ AddClient
      BY <2>1 DEF AcceptSocket, AddClient, FirstOK
    <2>2. CASE TakeSnapshot
      <3>1. initial' = PictureOf(open) /\ server[open].version \in Nat
        BY <1>2, <2>2 DEF TakeSnapshot, RoomInv, ServerOK
      <3>2. Taken(PictureOf(open), server) /\ PictureOf(open).table = open
        BY <1>2, <3>1 DEF PictureOf, Taken, Picture
      <3> QED BY <1>1, <3>1, <3>2 DEF FirstOK, pageVars
    <2> QED BY <2>1, <2>2
  <1> QED BY <1>1, <1>3, <1>4 DEF RoomInv, pageVars, gateVars

\* The first snapshot is written, overtaken or not.
LEMMA WritingKeepsRoom ==
  ASSUME RoomInv, WriteSnapshot
  PROVE  RoomInv'
  <1> DEFINE f == [kind |-> "table", picture |-> initial, late |-> serving = "overtaken"]
  <1>1. /\ serving \in {"snapped", "overtaken"} /\ serving' = "served"
        /\ wire' = Append(wire, f)
        /\ UNCHANGED <<server, pageVars, gateVars, socket, shown, polling>>
    BY DEF WriteSnapshot
  <1>2. Taken(initial, server) /\ initial.table = open /\ open \in Tables
    BY <1>1 DEF RoomInv, FirstOK, PageOK
  <1>3. f \in Frame /\ f.picture = initial
    <2>1. initial \in Picture
      BY <1>2 DEF Taken
    <2> QED BY <2>1, Zenon DEF Frame
  <1> HIDE DEF f
  <1>4. FramesOK(wire', open, server)
    BY <1>1, <1>2, <1>3, AppendFrame DEF RoomInv
  <1>5. /\ PageOK(open, visit, socket, serving, polling)'
        /\ FirstOK(serving, initial, open, server)'
    BY <1>1, <1>2 DEF RoomInv, PageOK, FirstOK, pageVars
  <1> QED BY <1>1, <1>4, <1>5 DEF RoomInv, pageVars, gateVars

\* The server answers a poll.
LEMMA AnsweringKeepsRoom ==
  ASSUME RoomInv, NEW r, AnswerRead(r)
  PROVE  RoomInv'
  <1> DEFINE n == server[r.table].version
             q == IF online /\ server[r.table].exists
                  THEN [r EXCEPT !.phase = "answered", !.version = n]
                  ELSE [r EXCEPT !.phase = "failed"]
  <1>1. /\ r \in reads /\ reads' = (reads \ {r}) \cup {q}
        /\ UNCHANGED <<server, netVars, pageVars, socketVars, shown, live,
                       polling, activeMutation, mutations>>
    BY DEF AnswerRead
  <1>2. r \in Request /\ RequestsOK(reads, server, shown) /\ ServerOK(server)
        /\ ShownOK(shown, server) /\ OwnPolls(reads, visit, open)
    BY <1>1 DEF RoomInv, RequestsOK
  <1>3. n \in Nat
    BY <1>2 DEF Request, ServerOK
  <1>4. q \in Request /\ AnswerOK(q, server, shown) /\ q.visit = r.visit /\ q.table = r.table
    <2>1. CASE online /\ server[r.table].exists
      BY <1>2, <1>3, <2>1, AnswerFits
    <2>2. CASE ~ (online /\ server[r.table].exists)
      BY <1>2, <2>2, FailureFits
    <2> QED BY <2>1, <2>2
  <1> HIDE DEF q, n
  <1>5. RequestsOK(reads', server, shown)
    BY <1>1, <1>2, <1>4, FewerRequests, OneMoreRequest
  <1>6. r.visit <= visit /\ (r.visit = visit => r.table = open)
    BY <1>1, <1>2, Zenon DEF OwnPolls
  <1>7. OwnPolls(reads', visit, open)
    <2>1. OwnPolls(reads \ {r}, visit, open)
      BY <1>2, FewerPolls
    <2>2. q.visit <= visit /\ (q.visit = visit => q.table = open)
      BY <1>4, <1>6, Zenon
    <2> QED BY <1>1, <2>1, <2>2, OneMorePoll, Zenon
  <1> QED BY <1>1, <1>5, <1>7 DEF RoomInv, pageVars, socketVars

-----------------------------------------------------------------------------
(* The room *)

\* Init fulfils the invariant.
LEMMA RoomStarts ==
  ASSUME Init
  PROVE  RoomInv
  <1> USE RoomAssumption
  <1>1. /\ server = [t \in Tables |-> [version |-> 0, exists |-> TRUE, told |-> TRUE]]
        /\ open = None /\ visit = 0 /\ shown = None /\ polling = FALSE
        /\ socket = "down" /\ serving = "no" /\ wire = <<>>
        /\ activeMutation = 0 /\ reads = {} /\ mutations = {}
    BY DEF Init
  <1>2. ServerOK(server)
    BY <1>1 DEF ServerOK
  <1>3. /\ PageOK(open, visit, socket, serving, polling) /\ ShownOK(shown, server)
        /\ FirstOK(serving, initial, open, server) /\ FramesOK(wire, open, server)
    BY <1>1, NoFrames DEF PageOK, ShownOK, FirstOK
  <1>4. /\ RequestsOK(reads, server, shown) /\ RequestsOK(mutations, server, shown)
        /\ OwnPolls(reads, visit, open) /\ GateOK(activeMutation, mutations)
    BY <1>1 DEF RequestsOK, OwnPolls, GateOK
  <1>5. IsFiniteSet(mutations)
    BY <1>1, FS_EmptySet
  <1> QED BY <1>2, <1>3, <1>4, <1>5 DEF RoomInv

\* Only three steps show a picture that was not shown before.
ShowsNothingNew == shown' = shown \/ shown' = None

\* Every step keeps the invariant, and is one of three if it shows something new.
LEMMA RoomMoves ==
  ASSUME RoomInv, Next
  PROVE  /\ RoomInv'
         /\ \/ ShowsNothingNew
            \/ TakePush
            \/ \E r \in reads : ReadArrives(r)
            \/ \E m \in mutations : MutationArrives(m)
  <1>1. ASSUME NEW t \in Tables, Enter(t) \/ SwitchTo(t)
        PROVE  RoomInv' /\ ShowsNothingNew
    <2>1. StartSync(t) /\ UNCHANGED <<server, netVars, gateVars>>
      BY <1>1 DEF Enter, SwitchTo
    <2>2. shown' = None
      BY <2>1 DEF StartSync
    <2> QED BY <2>1, <2>2, StartKeepsRoom DEF ShowsNothingNew
  <1>2. ASSUME NEW t \in Tables, OtherChange(t) \/ DeleteTable(t)
        PROVE  RoomInv' /\ ShowsNothingNew
    <2>1. shown' = shown
      BY <1>2 DEF OtherChange, DeleteTable
    <2> QED BY <1>2, <2>1, OthersKeepRoom DEF ShowsNothingNew
  <1>3. CASE Leave \/ ListEvicts \/ TakeDeleted
    <2>1. LeftRoom /\ UNCHANGED <<server, netVars>>
      BY <1>3 DEF Leave, ListEvicts, TakeDeleted
    <2>2. shown' = None
      BY <2>1 DEF LeftRoom
    <2>3. RoomInv'
      BY <2>1, LeavingKeepsRoom
    <2> QED BY <2>2, <2>3 DEF ShowsNothingNew
  <1>4. CASE Click
    <2>1. shown' = shown
      BY <1>4 DEF Click
    <2>2. RoomInv'
      BY <1>4, ClickKeepsRoom
    <2> QED BY <2>1, <2>2 DEF ShowsNothingNew
  <1>5. ASSUME NEW r \in reads, AnswerRead(r)
        PROVE  RoomInv' /\ ShowsNothingNew
    <2>1. shown' = shown
      BY <1>5 DEF AnswerRead
    <2> QED BY <1>5, <2>1, AnsweringKeepsRoom DEF ShowsNothingNew
  <1>6. ASSUME NEW m \in mutations, HandleMutation(m) \/ LoseMutation(m)
        PROVE  RoomInv' /\ ShowsNothingNew
    <2>1. shown' = shown
      BY <1>6 DEF HandleMutation, LoseMutation
    <2> QED BY <1>6, <2>1, HandlingKeepsRoom, LosingKeepsRoom DEF ShowsNothingNew
  <1>7. ASSUME NEW r \in reads, ReadArrives(r)
        PROVE  RoomInv'
    BY <1>7, ReadKeepsRoom
  <1>8. ASSUME NEW m \in mutations, MutationArrives(m)
        PROVE  RoomInv'
    BY <1>8, ReplyKeepsRoom
  <1>9. CASE Replies
    BY <1>5, <1>6, <1>7, <1>8, <1>9, Zenon DEF Replies
  <1>10. CASE AcceptSocket \/ AddClient \/ TakeSnapshot
    <2>1. shown' = shown
      BY <1>10 DEF AcceptSocket, AddClient, TakeSnapshot
    <2>2. RoomInv'
      BY <1>10, OpeningStepsKeepRoom
    <2> QED BY <2>1, <2>2 DEF ShowsNothingNew
  <1>11. CASE WriteSnapshot
    <2>1. shown' = shown
      BY <1>11 DEF WriteSnapshot
    <2>2. RoomInv'
      BY <1>11, WritingKeepsRoom
    <2> QED BY <2>1, <2>2 DEF ShowsNothingNew
  <1>12. CASE SocketOpens
    <2>1. shown' = shown
      BY <1>12 DEF SocketOpens
    <2>2. RoomInv'
      BY <1>12, OpeningSocketKeepsRoom
    <2> QED BY <2>1, <2>2 DEF ShowsNothingNew
  <1>13. CASE TakePush
    BY <1>13, PushKeepsRoom
  <1>14. CASE Connect
    <2>1. shown' = shown
      BY <1>14 DEF Connect
    <2>2. RoomInv'
      BY <1>14, ConnectKeepsRoom
    <2> QED BY <2>1, <2>2 DEF ShowsNothingNew
  <1>15. CASE PollTick
    <2>1. shown' = shown
      BY <1>15 DEF PollTick
    <2>2. RoomInv'
      BY <1>15, PollKeepsRoom
    <2> QED BY <2>1, <2>2 DEF ShowsNothingNew
  <1>16. CASE SocketFails
    <2>1. shown' = shown
      BY <1>16 DEF SocketFails
    <2>2. RoomInv'
      BY <1>16, FailingSocketKeepsRoom
    <2> QED BY <2>1, <2>2 DEF ShowsNothingNew
  <1>17. CASE GoOffline
    <2>1. UNCHANGED <<server, pageVars, socketVars, gateVars, shown, live, polling>>
      BY <1>17 DEF GoOffline
    <2>2. RoomInv'
      BY <2>1 DEF RoomInv, pageVars, socketVars, gateVars
    <2> QED BY <2>1, <2>2 DEF ShowsNothingNew
  <1>18. CASE GoOnline
    <2>1. shown' = shown
      BY <1>18 DEF GoOnline
    <2>2. RoomInv'
      BY <1>18, GoingOnlineKeepsRoom
    <2> QED BY <2>1, <2>2 DEF ShowsNothingNew
  <1> QED
    BY <1>1, <1>2, <1>3, <1>4, <1>9, <1>10, <1>11, <1>12, <1>13, <1>14, <1>15, <1>16,
       <1>17, <1>18, Zenon DEF Next, Opening, Pushes

\* A step of nothing changes nothing.
LEMMA RoomStutters ==
  ASSUME RoomInv, UNCHANGED vars
  PROVE  RoomInv' /\ shown' = shown
  BY DEF RoomInv, vars, pageVars, socketVars, gateVars

\* Whatever order pictures, requests and failures come in, the room is in a
\* state of RoomInv (PokerRoom.tsx, LandlordRoom.tsx, snapshot-gate.ts, hub.go).
THEOREM RoomIsSound == Spec => []RoomInv
  <1>1. Init => RoomInv
    BY RoomStarts
  <1>2. RoomInv /\ [Next]_vars => RoomInv'
    BY RoomMoves, RoomStutters
  <1> QED BY <1>1, <1>2, PTL DEF Spec

-----------------------------------------------------------------------------
(* What the gate promises *)

\* The gate keeps polls out only while the request that closed it is in flight
\* (beginMutation and finishMutation of snapshot-gate.ts).
THEOREM GateIsGivenBack == Spec => []GateReopens
  <1>1. RoomInv => GateReopens
    BY Zenon DEF RoomInv, GateOK, GateReopens
  <1> QED BY <1>1, RoomIsSound, PTL

\* A picture of the same table that is older than the one on the screen comes
\* by a push or not at all (acceptRead and finishMutation of snapshot-gate.ts).
THEOREM OvertakenRepliesAreDropped == Spec => RepliesNeverGoBack
  <1> DEFINE Back == shown # None /\ shown' # None /\ Older(shown'.picture, shown.picture)
  <1>1. ASSUME RoomInv, [Next]_vars
        PROVE  Back => wire' # wire
    <2>1. CASE ShowsNothingNew
      <3>1. shown # None => shown.picture.version \in Nat
        BY <1>1 DEF RoomInv, ShownOK, Taken, Picture
      <3>2. shown # None => ~ Older(shown.picture, shown.picture)
        BY <3>1 DEF Older
      <3> QED BY <2>1, <3>2, Zenon DEF ShowsNothingNew
    <2>2. CASE TakePush
      BY <1>1, <2>2, PushKeepsRoom
    <2>3. ASSUME NEW r \in reads, ReadArrives(r)
          PROVE  ~ Back \/ shown' = shown
      BY <1>1, <2>3, ReadKeepsRoom, Zenon
    <2>4. ASSUME NEW m \in mutations, MutationArrives(m)
          PROVE  ~ Back \/ shown' = shown
      BY <1>1, <2>4, ReplyKeepsRoom, Zenon
    <2>5. shown' = shown => ShowsNothingNew
      BY DEF ShowsNothingNew
    <2> QED BY <1>1, <2>1, <2>2, <2>3, <2>4, <2>5, RoomMoves, RoomStutters, Zenon
  <1>2. RoomInv /\ [Next]_vars => [Back => wire' # wire]_vars
    BY <1>1
  <1> HIDE DEF Back
  <1>3. Spec => [][Back => wire' # wire]_vars
    BY <1>2, RoomIsSound, PTL DEF Spec
  <1> QED BY <1>3, PTL DEF Back, RepliesNeverGoBack

\* A picture of another table than the open one is shown only with the reply to
\* a request that was in flight (run of TableScene.tsx and LandlordTable.tsx).
THEOREM OtherTablesOnlyByOwnReply == Spec => PollsAndPushesKeepTheTable
  <1> DEFINE Strange == /\ shown' # shown /\ shown' # None
                        /\ shown'.picture.table # open'
             Fewer == Cardinality(mutations') < Cardinality(mutations)
  <1>1. ASSUME RoomInv, [Next]_vars
        PROVE  Strange => Fewer
    <2>1. CASE ShowsNothingNew
      BY <2>1, Zenon DEF ShowsNothingNew
    <2>2. CASE TakePush
      BY <1>1, <2>2, PushKeepsRoom, Zenon
    <2>3. ASSUME NEW r \in reads, ReadArrives(r)
          PROVE  ~ Strange
      BY <1>1, <2>3, ReadKeepsRoom, Zenon
    <2>4. ASSUME NEW m \in mutations, MutationArrives(m)
          PROVE  Fewer
      BY <1>1, <2>4, ReplyKeepsRoom, Zenon
    <2>5. shown' = shown => ShowsNothingNew
      BY DEF ShowsNothingNew
    <2> QED BY <1>1, <2>1, <2>2, <2>3, <2>4, <2>5, RoomMoves, RoomStutters, Zenon
  <1>2. RoomInv /\ [Next]_vars => [Strange => Fewer]_vars
    BY <1>1
  <1> HIDE DEF Strange, Fewer
  <1>3. Spec => [][Strange => Fewer]_vars
    BY <1>2, RoomIsSound, PTL DEF Spec
  <1> QED BY <1>3, PTL DEF Strange, Fewer, PollsAndPushesKeepTheTable

=============================================================================
