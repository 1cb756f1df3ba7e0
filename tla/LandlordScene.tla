---------------------------- MODULE LandlordScene ----------------------------
(***************************************************************************)
(* What a player can do on the landlord screen (LandlordRoom.tsx) that      *)
(* shows the table as it is, and what the table answers.  A card drag and   *)
(* single clicks both end in some selection of the viewer's own cards; it   *)
(* is emptied whenever hand or turn change, so every play is a choice from  *)
(* the cards of the picture.                                                *)
(***************************************************************************)
EXTENDS LandlordTable

\* What run() posts: the path or the action, and the bid that goes with it.
Post(path, n) == [path |-> path, bid |-> n]
If(ok, R)     == IF ok THEN R ELSE {}

\* viewer_seat, allowed_actions and can_start of the viewer's snapshot.
Seated(u)   == SeatOf(table, u) # {}
ViewerSeat(u) == IF Seated(u) THEN CHOOSE s \in SeatOf(table, u) : TRUE ELSE NoSeat
CanAct(u)   == HandActive(table) /\ Seated(u) /\ ViewerSeat(u) = table.acting
CanBid(u)   == CanAct(u) /\ table.phase = "bidding" /\ table.highestBid < 3
CanPlay(u)  == CanAct(u) /\ table.phase = "playing"
CanPass(u)  == CanAct(u) /\ (table.phase = "bidding" \/ ~Leads(table, ViewerSeat(u)))
CanStart(u) == Seated(u) /\ table.stack[ViewerSeat(u)] > 0 /\ ~HandActive(table)

\* Mutant: the lowest bid offered is the highest one made.
BidsOfferedEqual(u) == If(CanBid(u), {0} \cup {n \in 1..3 : n >= table.highestBid})

BidsOffered(u) == If(CanBid(u), {0} \cup {n \in 1..3 : n >= table.highestBid + 1})

\* The dock.  It has no button for a seated player who is ready and changes his
\* mind, though Ready would take his word back.
Controls(u) ==
  If(~Seated(u), {Post("join", 0)})
    \cup {Post("bid", n) : n \in BidsOffered(u)}
    \cup If(CanPlay(u), {Post("play", 0)} \cup If(CanPass(u), {Post("pass", 0)}))
    \cup If(Seated(u) /\ ~HandActive(table), {Post("leave", 0)})
    \cup If(CanStart(u) /\ ~table.ready[ViewerSeat(u)], {Post("ready", 0)})

\* Whether the handler lets a request through, cash desk, votes and clock aside.
Accepts(u, r) ==
  LET s    == ViewerSeat(u)
      Does == [join  |-> ~Seated(u) /\ ~HandActive(table) /\ Occupied(table) # Seats,
               leave |-> Seated(u) /\ ~HandActive(table),
               ready |-> Seated(u) /\ ~HandActive(table) /\ s \in Playable(table)]
      Acts == [bid   |-> table.phase = "bidding" /\ (r.bid = 0 \/ r.bid > table.highestBid),
               play  |-> table.phase = "playing" /\ \E c \in Picks(table.hand[s]) : PlayAccepted(s, c),
               pass  |-> table.phase = "bidding" \/ ~Leads(table, s)]
  IN  IF r.path \in DOMAIN Does THEN Does[r.path]
      ELSE CanAct(u) /\ Acts[r.path]

\* The dock of an up-to-date picture offers exactly what its table accepts: what
\* it posts is not refused (but joining a full table or one that plays, and a
\* play when no cards beat the last one), whoever is to act has a control that
\* works, with every higher bid and with the pass where there is one, and a
\* player between hands can always leave.
DockExact ==
  \A u \in Users :
    /\ \A r \in Controls(u) : r.path \in {"join", "play"} \/ Accepts(u, r)
    /\ CanAct(u) => \E r \in Controls(u) : Accepts(u, r)
    /\ \A n \in 0..3, path \in {"bid", "pass", "leave"} :
         LET r == Post(path, n)
         IN  (Accepts(u, r) /\ (path = "bid" \/ n = 0))
               => r \in Controls(u) \/ (path = "pass" /\ Post("bid", 0) \in Controls(u))
=============================================================================
