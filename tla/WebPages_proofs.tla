--------------------------- MODULE WebPages_proofs ---------------------------
(***************************************************************************)
(* Proofs about the web client: whatever order the answers to its reads    *)
(* come in, each view waits for an answer that can still come and shows    *)
(* what it was last loaded for; and a page that has been told the truth    *)
(* offers its user nothing the server would refuse him.                    *)
(*                                                                         *)
(* PagesInv relates the views mounted now with the reads in flight: one    *)
(* current read per view, for what that view last asked for, and one for   *)
(* every view that waits.  Every render of App keeps some views, drops the *)
(* others with their reads and starts new ones (RemountTidy), and every    *)
(* handler edits a view, asks, or lands an answer between two renders      *)
(* (TidySofter, AskTidy, LandTidy, RoomMoves).                             *)
(*                                                                         *)
(* AnswersInv adds what the pages know of the database: the channels a     *)
(* view was told of are ones its session may still open, the channels it   *)
(* manages are those of the books or the one of the address, and a read    *)
(* that is current has its view to go to.  It survives since what is in a  *)
(* view or in an answer is given up when the session changes, and a        *)
(* request may only add to the channels the session's user can open        *)
(* (OpenGrows).                                                            *)
(***************************************************************************)
EXTENDS WebClient, Sums_proofs, TLAPS

\* Every view and every read is one of these, and has these fields.
ViewNames == {"space", "spaces", "board", "about", "tables", "hands", "funds",
              "bindings", "overview", "rankings", "balances", "detail", "keys"}
RoomViews == {"about", "tables"}

ViewFields == {"asked", "shown", "loading", "failed", "content", "count", "clean"}
ReadFields == {"view", "key", "current", "phase", "ok", "pure", "answer"}

IsView(w) ==
  /\ HasFields(w, ViewFields)
  /\ w.loading \in BOOLEAN /\ w.failed \in BOOLEAN /\ w.clean \in BOOLEAN

IsRead(r) ==
  /\ HasFields(r, ReadFields)
  /\ r.view \in ViewNames
  /\ r.current \in BOOLEAN /\ r.ok \in BOOLEAN /\ r.pure \in BOOLEAN

\* A sheet that was closed still waits for the channel it was opened with.
Awaited(v, w, key) == key = w.asked \/ (v = "detail" /\ w.asked = Nowhere)

\* A view that waits has a current read to wait for; one that shows something
\* shows what it last asked for; the room's show the channel of the address
\* unless a late join has spoilt them.
TidyView(v, w, rs, channel) ==
  /\ IsView(w)
  /\ w.loading => \E r \in rs : r.view = v /\ r.current /\ Awaited(v, w, r.key)
  /\ Loaded(w) /\ w.asked # Nowhere => w.shown = w.asked
  /\ v = "about" => Loaded(w)
  /\ v \in RoomViews /\ Loaded(w) /\ w.clean => w.shown = channel

\* A read its view waits for is the one the view last asked for; the room's
\* also reads what it does not show that it waits for.
TidyRead(r, vs, channel) ==
  /\ IsRead(r)
  /\ r.current /\ r.view \in DOMAIN vs =>
       /\ r.view \in RoomViews \/ Awaited(r.view, vs[r.view], r.key)
       /\ r.view \in RoomViews /\ r.pure => r.key = channel

\* A view waits for one read at most.
OneCurrent(rs) == \A r, s \in rs : r.current /\ s.current /\ r.view = s.view => r = s

Tidy(vs, rs, channel) ==
  /\ \A v \in DOMAIN vs : TidyView(v, vs[v], rs, channel)
  /\ \A r \in rs : TidyRead(r, vs, channel)
  /\ OneCurrent(rs)

\* The views of a screen.
PlacedIn(screen) == FirstViews(screen) \cup (IF screen = "console" THEN SectionViews ELSE {})
Placed == DOMAIN views \subseteq PlacedIn(ScreenNow)

PagesInv == Placed /\ Tidy(views, reads, ChannelOf(path))

\* Stays of Remounts.
StaysOn(v, same, section, vs) == v \in DOMAIN vs /\ (IF v \in SectionViews THEN section ELSE same)

\* Where a view may be: the room's own in the room alone, the one that waits for
\* a channel only while it is opened, a section's only in the console.
LEMMA PlacedNames ==
  ASSUME NEW screen
  PROVE  /\ PlacedIn(screen) \subseteq ViewNames
         /\ \A p, overview : ConsoleViews(p, overview) \subseteq SectionViews
         /\ \A v \in RoomViews : v \in PlacedIn(screen) => screen = "room"
         /\ "space" \in PlacedIn(screen) => screen = "opening"
<1>1. PlacedIn(screen) \subseteq ViewNames
  BY DEF PlacedIn, FirstViews, SectionViews, ViewNames
<1>2. \A p, overview : ConsoleViews(p, overview) \subseteq SectionViews
  BY DEF ConsoleViews, SectionViews
<1>3. \A v \in RoomViews : v \in PlacedIn(screen) => screen = "room"
  BY DEF PlacedIn, FirstViews, SectionViews, RoomViews
<1>4. "space" \in PlacedIn(screen) => screen = "opening"
  BY DEF PlacedIn, FirstViews, SectionViews
<1>. QED  BY <1>1, <1>2, <1>3, <1>4

\* A read that starts now is the one its view waits for.
LEMMA NewRead ==
  ASSUME NEW v \in ViewNames, NEW key
  PROVE  /\ IsRead(Read(v, key))
         /\ Read(v, key).view = v /\ Read(v, key).key = key /\ Read(v, key).current
         /\ Read(v, key).pure /\ ~Read(v, key).ok
BY DEF IsRead, Read, HasFields, ReadFields

\* A read that another one supersedes is a read still, but not current.
LEMMA LateRead ==
  ASSUME NEW r, IsRead(r)
  PROVE  IsRead([r EXCEPT !.current = FALSE]) /\ ~[r EXCEPT !.current = FALSE].current
BY DEF IsRead, HasFields, ReadFields

\* A component that appears waits for the read it starts, or for nothing.
LEMMA MountedTidy ==
  ASSUME NEW v \in ViewNames, NEW key, NEW sel, NEW rs, NEW channel,
         v \in RoomViews => key = channel,
         key # Nowhere => Read(v, key) \in rs
  PROVE  TidyView(v, Mounted(v, key, sel), rs, channel) /\ Mounted(v, key, sel).asked = key
<1>. DEFINE w == Mounted(v, key, sel)
<1>1. IsView(w) /\ w.asked = key /\ w.loading = (key # Nowhere /\ v # "about") /\ ~w.failed
      /\ w.shown = IF v = "about" THEN key ELSE Nowhere
  BY DEF Mounted, IsView, HasFields, ViewFields
<1>2. w.loading => \E r \in rs : r.view = v /\ r.current /\ Awaited(v, w, r.key)
  BY <1>1, NewRead DEF Awaited
<1>. HIDE DEF w
<1>3. TidyView(v, w, rs, channel)
  BY <1>1, <1>2 DEF TidyView, Loaded, RoomViews
<1>. QED  BY <1>1, <1>3 DEF w

\* The room loads the channel of the address.
LEMMA FirstKeyInRoom ==
  ASSUME NEW v \in RoomViews, NEW p, NEW books
  PROVE  FirstKey(v, p, books) = ChannelOf(p)
BY DEF FirstKey, RoomViews, ChannelOf

\* Another page, another section or the same: the views that stay keep their
\* reads, those that appear start one each, and the reads of those that go are
\* forgotten or, the overview's, no longer current.
LEMMA RemountTidy ==
  ASSUME NEW screen, NEW same \in BOOLEAN, NEW section \in BOOLEAN, NEW vs, NEW rs, NEW ss,
         Remounts(screen, same, section, vs, rs, ss),
         section => same,
         same => Tidy(vs, rs, ChannelOf(path')),
         \A r \in rs : IsRead(r)
  PROVE  Tidy(views', reads', ChannelOf(path')) /\ DOMAIN views' \subseteq PlacedIn(screen)
<1>. DEFINE channel == ChannelOf(path')
            Stay(v)  == StaysOn(v, same, section, vs)
            overview == IF Stay("overview") THEN vs["overview"] ELSE Mounted("overview", Everything, selected')
            New(v)   == Mounted(v, FirstKey(v, path', overview.content), selected')
            names == FirstViews(screen) \cup (IF screen = "console" THEN ConsoleViews(path', overview) ELSE {})
            kept  == {r \in rs : Stay(r.view)}
            late  == {[r EXCEPT !.current = FALSE] : r \in {x \in rs \ kept : Matters(x)}}
            fresh == {Read(v, views'[v].asked) : v \in {w \in names : ~Stay(w) /\ views'[w].asked # Nowhere}}
<1>1. views' = [v \in names |-> IF Stay(v) THEN vs[v] ELSE New(v)]
  BY Zenon DEF Remounts, StaysOn
<1>2. reads' = kept \cup late \cup fresh
  BY Zenon DEF Remounts, StaysOn
<1>3. names \subseteq PlacedIn(screen) /\ names \subseteq ViewNames
  BY PlacedNames DEF PlacedIn
<1>4. ASSUME NEW v, Stay(v)  PROVE  same /\ v \in DOMAIN vs
  BY <1>4 DEF StaysOn
<1>5. \A r \in late : IsRead(r) /\ ~r.current
  <2>. TAKE r \in late
  <2>1. PICK x \in rs : r = [x EXCEPT !.current = FALSE]
    OBVIOUS
  <2>. QED  BY <2>1, LateRead
<1>. HIDE DEF names, late, Stay, New
<1>6. ASSUME NEW v \in names, ~Stay(v)
      PROVE  TidyView(v, views'[v], reads', channel)
  <2>. DEFINE key == FirstKey(v, path', overview.content)
  <2>1. views'[v] = Mounted(v, key, selected')
    BY <1>1, <1>2, <1>6 DEF New
  <2>2. views'[v].asked = key
    BY <2>1 DEF Mounted
  <2>3. key # Nowhere => Read(v, key) \in reads'
    BY <2>2, <1>1, <1>2, <1>6
  <2>4. v \in RoomViews => key = channel
    BY FirstKeyInRoom
  <2>. HIDE DEF key, channel
  <2>. QED  BY <2>1, <2>3, <2>4, <1>3, MountedTidy
<1>7. ASSUME NEW v \in names, Stay(v)
      PROVE  TidyView(v, views'[v], reads', channel)
  <2>1. same /\ v \in DOMAIN vs /\ views'[v] = vs[v]
    BY <1>1, <1>2, <1>4, <1>7
  <2>2. TidyView(v, vs[v], rs, channel)
    BY <2>1 DEF Tidy
  <2>3. \A r \in rs : r.view = v => r \in reads'
    BY <1>1, <1>2, <1>7
  <2>. QED  BY <2>1, <2>2, <2>3 DEF TidyView
<1>8. ASSUME NEW r \in kept
      PROVE  /\ TidyRead(r, vs, channel) /\ r \in rs /\ r.view \in DOMAIN vs /\ OneCurrent(rs)
             /\ r.view \in names => views'[r.view] = vs[r.view]
  BY <1>1, <1>2, <1>4, <1>8 DEF Tidy
<1>9. ASSUME NEW r \in fresh
      PROVE  /\ IsRead(r) /\ ~Stay(r.view) /\ r.view \in names /\ r.key = views'[r.view].asked
  <2>1. PICK v \in names : ~Stay(v) /\ r = Read(v, views'[v].asked)
    BY <1>9
  <2>. QED  BY <2>1, <1>3, NewRead
<1>10. ASSUME NEW r \in reads'  PROVE  TidyRead(r, views', channel)
  <2>1. CASE r \in kept
    <3>1. r.view \in DOMAIN views' => r.view \in names
      BY <1>1, <1>2
    <3>. QED  BY <2>1, <3>1, <1>8 DEF TidyRead
  <2>2. CASE r \in late
    BY <2>2, <1>5 DEF TidyRead
  <2>3. CASE r \in fresh
    <3>1. r.view \in RoomViews => r.key = channel
      <4>. SUFFICES ASSUME r.view \in RoomViews  PROVE r.key = channel
        OBVIOUS
      <4>1. views'[r.view] = Mounted(r.view, FirstKey(r.view, path', overview.content), selected')
        BY <1>1, <1>2, <1>9, <2>3 DEF New
      <4>2. views'[r.view].asked = FirstKey(r.view, path', overview.content)
        BY <4>1 DEF Mounted
      <4>. QED  BY <4>2, <1>9, <2>3, FirstKeyInRoom
    <3>2. IsRead(r) /\ r.key = views'[r.view].asked
      BY <2>3, <1>9
    <3>. HIDE DEF channel
    <3>. QED  BY <3>1, <3>2 DEF TidyRead, Awaited
  <2>. QED  BY <1>1, <1>2, <2>1, <2>2, <2>3
<1>11. OneCurrent(reads')
  <2>. SUFFICES ASSUME NEW r \in reads', NEW s \in reads', r.current, s.current, r.view = s.view
                PROVE  r = s
    BY DEF OneCurrent
  <2>1. r \notin late /\ s \notin late
    BY <1>5
  <2>2. CASE r \in kept
    <3>1. s \in kept
      BY <2>1, <2>2, <1>1, <1>2, <1>9
    <3>. QED  BY <2>2, <3>1, <1>8 DEF OneCurrent
  <2>3. CASE r \in fresh
    <3>1. s \in fresh
      BY <2>1, <2>3, <1>1, <1>2, <1>9
    <3>2. PICK v \in names : r = Read(v, views'[v].asked)
      BY <2>3
    <3>3. PICK w \in names : s = Read(w, views'[w].asked)
      BY <3>1
    <3>4. r.view = v /\ s.view = w
      BY <3>2, <3>3 DEF Read
    <3>. QED  BY <3>2, <3>3, <3>4
  <2>. QED  BY <1>1, <1>2, <2>1, <2>2, <2>3
<1>. QED  BY <1>3, <1>1, <1>2, <1>6, <1>7, <1>10, <1>11 DEF Tidy

-----------------------------------------------------------------------------
(* What leaves views and reads tidy *)

\* App is rendered again: it is enough to look at the views that may stay.
LEMMA ShowTidy ==
  ASSUME NEW u, NEW p, NEW sel, NEW vs, NEW rs, NEW ss,
         Show(u, p, sel, vs, rs, ss),
         SamePage => Tidy(vs, rs, ChannelOf(path')),
         \A r \in rs : IsRead(r)
  PROVE  PagesInv'
<1>. DEFINE same == SamePage
            section == SameSection
            screen == Screen(u, path', sel)
<1>1. Remounts(screen, same, section, vs, rs, ss) /\ user' = u /\ selected' = sel
  BY DEF Show
<1>2. same \in BOOLEAN /\ section \in BOOLEAN /\ (section => same)
  BY DEF SamePage, SameSection
<1>3. screen = ScreenNow'
  BY <1>1 DEF ScreenNow
<1>. HIDE DEF same, section, screen
<1>4. same => Tidy(vs, rs, ChannelOf(path'))
  BY DEF same
<1>5. Tidy(views', reads', ChannelOf(path')) /\ DOMAIN views' \subseteq PlacedIn(screen)
  BY <1>1, <1>2, <1>4, RemountTidy
<1>. QED  BY <1>3, <1>5 DEF PagesInv, Placed

\* App shows a room only for the channel it has selected.
LEMMA InRoomSelected ==
  ASSUME NEW u, NEW p, NEW sel, Screen(u, p, sel) = "room"
  PROVE  sel.id = ChannelOf(p)
BY DEF Screen, ScreenAt, ChannelPages, ChannelOf

\* Outside the room the channel of the address does not matter.
LEMMA TidyChannel ==
  ASSUME NEW vs, NEW rs, NEW c, NEW d, Tidy(vs, rs, c),
         DOMAIN vs \cap RoomViews # {} => c = d
  PROVE  Tidy(vs, rs, d)
<1>1. \A v \in DOMAIN vs : TidyView(v, vs[v], rs, d)
  BY DEF Tidy, TidyView
<1>2. \A r \in rs : TidyRead(r, vs, d)
  BY DEF Tidy, TidyRead
<1>. QED  BY <1>1, <1>2 DEF Tidy

\* App is rendered again without another channel for the room that is shown:
\* any change that leaves the views tidy may go with it.
LEMMA ShowQuietly ==
  ASSUME NEW u, NEW p, NEW sel, NEW vs, NEW rs, NEW ss,
         Show(u, p, sel, vs, rs, ss),
         Placed, sel = selected \/ ScreenNow # "room",
         DOMAIN vs = DOMAIN views, Tidy(vs, rs, ChannelOf(path))
  PROVE  PagesInv'
<1>1. ASSUME SamePage, DOMAIN vs \cap RoomViews # {}
      PROVE  ChannelOf(path) = ChannelOf(path')
  <2>1. ScreenNow = "room"
    BY <1>1, PlacedNames DEF Placed
  <2>2. Screen(user', path', selected') = "room" /\ selected' = selected
    BY <1>1, <2>1 DEF SamePage, Show
  <2>. QED  BY <2>1, <2>2, InRoomSelected DEF ScreenNow
<1>2. SamePage => Tidy(vs, rs, ChannelOf(path'))
  BY <1>1, TidyChannel
<1>3. \A r \in rs : IsRead(r)
  BY DEF Tidy, TidyRead
<1>. QED  BY <1>2, <1>3, ShowTidy

\* w2 is w with other content, or held for out of date.
Softer(w, w2) ==
  /\ IsView(w2)
  /\ w2.asked = w.asked /\ w2.shown = w.shown /\ w2.loading = w.loading /\ w2.failed = w.failed
  /\ w2.clean => w.clean

\* Views whose content alone changes, or that are held for out of date, stay tidy.
LEMMA TidySofter ==
  ASSUME NEW vs, NEW rs, NEW c, NEW vs2, Tidy(vs, rs, c),
         DOMAIN vs2 = DOMAIN vs, \A v \in DOMAIN vs : IsView(vs[v]) => Softer(vs[v], vs2[v])
  PROVE  Tidy(vs2, rs, c)
<1>1. ASSUME NEW v \in DOMAIN vs2  PROVE TidyView(v, vs2[v], rs, c)
  <2>1. TidyView(v, vs[v], rs, c) /\ IsView(vs[v]) /\ Softer(vs[v], vs2[v])
    BY DEF Tidy, TidyView
  <2>. QED  BY <2>1 DEF TidyView, Softer, Loaded, Awaited
<1>2. ASSUME NEW r \in rs  PROVE TidyRead(r, vs2, c)
  <2>1. TidyRead(r, vs, c)
    BY DEF Tidy
  <2>2. r.view \in DOMAIN vs => Softer(vs[r.view], vs2[r.view])
    BY DEF Tidy, TidyView
  <2>. QED  BY <2>1, <2>2 DEF TidyRead, Softer, Awaited
<1>. QED  BY <1>1, <1>2 DEF Tidy

\* r2 is r, answered or spoilt.
Like(r, r2) ==
  /\ IsRead(r2)
  /\ r2.view = r.view /\ r2.key = r.key /\ r2.current = r.current
  /\ r2.pure => r.pure

\* So they do when reads are answered or spoilt.
LEMMA TidyLike ==
  ASSUME NEW vs, NEW rs, NEW c, NEW F, Tidy(vs, rs, c),
         \A r \in rs : IsRead(r) => Like(r, F[r])
  PROVE  Tidy(vs, {F[r] : r \in rs}, c)
<1>. DEFINE rs2 == {F[r] : r \in rs}
<1>1. \A r \in rs : IsRead(r) /\ Like(r, F[r]) /\ F[r] \in rs2
  BY DEF Tidy, TidyRead
<1>2. ASSUME NEW s \in rs2  PROVE \E r \in rs : s = F[r] /\ Like(r, s) /\ TidyRead(r, vs, c)
  BY <1>1 DEF Tidy
<1>. HIDE DEF rs2
<1>3. ASSUME NEW v \in DOMAIN vs  PROVE TidyView(v, vs[v], rs2, c)
  <2>1. TidyView(v, vs[v], rs, c)
    BY DEF Tidy
  <2>. QED  BY <2>1, <1>1 DEF TidyView, Like
<1>4. ASSUME NEW s \in rs2  PROVE TidyRead(s, vs, c)
  BY <1>2 DEF TidyRead, Like
<1>5. OneCurrent(rs2)
  BY <1>2 DEF OneCurrent, Tidy, Like
<1>. QED  BY <1>3, <1>4, <1>5 DEF Tidy, rs2

\* Superseding the reads of a view leaves the others as they are.
LEMMA SupersededReads ==
  ASSUME NEW v, NEW rs, \A r \in rs : IsRead(r)
  PROVE  /\ \A s \in Superseded(v, rs) : IsRead(s) /\ (s.view = v => ~s.current) /\ (s.view # v => s \in rs)
         /\ \A r \in rs : r.view # v => r \in Superseded(v, rs)
<1>1. ASSUME NEW s \in Superseded(v, rs)
      PROVE  IsRead(s) /\ (s.view = v => ~s.current) /\ (s.view # v => s \in rs)
  <2>1. PICK r \in rs : s = IF r.view = v THEN [r EXCEPT !.current = FALSE] ELSE r
    BY DEF Superseded
  <2>2. CASE r.view = v
    <3>1. s.view = v
      BY <2>1, <2>2 DEF IsRead, HasFields, ReadFields
    <3>. QED  BY <2>1, <2>2, <3>1, LateRead
  <2>3. CASE r.view # v
    BY <2>1, <2>3
  <2>. QED  BY <2>2, <2>3
<1>2. \A r \in rs : r.view # v => r \in Superseded(v, rs)
  BY DEF Superseded
<1>. QED  BY <1>1, <1>2

\* A view that asks anew waits for the new answer alone.
LEMMA AskTidy ==
  ASSUME NEW vs, NEW rs, NEW c, NEW v \in ViewNames \ RoomViews, NEW w, NEW key,
         Tidy(vs, rs, c), v \in DOMAIN vs => IsView(w)
  PROVE  Tidy([vs EXCEPT ![v] = Asked(w, key)], Superseded(v, rs) \cup {Read(v, key)}, c)
<1>. DEFINE vs2 == [vs EXCEPT ![v] = Asked(w, key)]
            rs2 == Superseded(v, rs) \cup {Read(v, key)}
            new == Read(v, key)
            view == Asked(w, key)
<1>1. \A r \in rs : IsRead(r)
  BY DEF Tidy, TidyRead
<1>2. IsRead(new) /\ new.view = v /\ new.key = key /\ new.current
  BY NewRead
<1>3. v \in DOMAIN vs => IsView(view) /\ view.asked = key /\ view.loading
  BY DEF IsView, HasFields, ViewFields, Asked
<1>4. DOMAIN vs2 = DOMAIN vs /\ (\A x \in DOMAIN vs : vs2[x] = IF x = v THEN view ELSE vs[x])
  OBVIOUS
<1>5. \A s \in Superseded(v, rs) : IsRead(s) /\ (s.view = v => ~s.current) /\ (s.view # v => s \in rs)
  BY <1>1, SupersededReads
<1>6. \A r \in rs : r.view # v => r \in rs2
  BY <1>1, SupersededReads
<1>7. new \in rs2 /\ \A s \in rs2 : s = new \/ s \in Superseded(v, rs)
  OBVIOUS
<1>. HIDE DEF vs2, rs2, new, view
<1>8. ASSUME NEW x \in DOMAIN vs2  PROVE TidyView(x, vs2[x], rs2, c)
  <2>1. CASE x = v
    <3>1. ~Loaded(view)
      BY <1>3, <1>4, <2>1 DEF Loaded
    <3>. QED  BY <2>1, <3>1, <1>2, <1>3, <1>4, <1>7 DEF TidyView, Awaited, RoomViews
  <2>2. CASE x # v
    <3>1. TidyView(x, vs[x], rs, c) /\ vs2[x] = vs[x]
      BY <1>4, <2>2 DEF Tidy
    <3>. QED  BY <2>2, <3>1, <1>6 DEF TidyView
  <2>. QED  BY <2>1, <2>2
<1>9. ASSUME NEW s \in rs2  PROVE TidyRead(s, vs2, c)
  <2>1. CASE s = new
    BY <2>1, <1>2, <1>3, <1>4 DEF TidyRead, Awaited
  <2>2. CASE s \in Superseded(v, rs) /\ s.view = v
    BY <2>2, <1>5 DEF TidyRead
  <2>3. CASE s \in Superseded(v, rs) /\ s.view # v
    <3>1. s \in rs /\ TidyRead(s, vs, c)
      BY <2>3, <1>5 DEF Tidy
    <3>. QED  BY <2>3, <3>1, <1>4 DEF TidyRead
  <2>. QED  BY <2>1, <2>2, <2>3, <1>7
<1>10. OneCurrent(rs2)
  <2>. SUFFICES ASSUME NEW r \in rs2, NEW s \in rs2, r.current, s.current, r.view = s.view  PROVE r = s
    BY DEF OneCurrent
  <2>1. CASE r.view = v
    BY <2>1, <1>5, <1>7
  <2>2. CASE r.view # v
    <3>1. r \in rs /\ s \in rs
      BY <2>2, <1>2, <1>5, <1>7
    <3>. QED  BY <3>1 DEF Tidy, OneCurrent
  <2>. QED  BY <2>1, <2>2
<1>. QED  BY <1>8, <1>9, <1>10 DEF Tidy, vs2, rs2

\* An answer that arrives: its view shows what it last asked for, the others and
\* their reads are as they were, and a late answer changes nothing.
LEMMA LandTidy ==
  ASSUME PagesInv, NEW r \in reads
  PROVE  Tidy(Shown(r), reads \ {r}, ChannelOf(path)) /\ DOMAIN Shown(r) = DOMAIN views
<1>. DEFINE c == ChannelOf(path)
            rs == reads \ {r}
            lands == r.view \in DOMAIN views /\ r.current
            vs == Shown(r)
<1>1. Tidy(views, reads, c)
  BY DEF PagesInv
<1>2. TidyRead(r, views, c) /\ \A s \in rs : TidyRead(s, views, c) /\ ~(r.current /\ s.current /\ s.view = r.view)
  BY <1>1 DEF Tidy, OneCurrent
<1>3. CASE ~lands
  <2>1. vs = views
    BY <1>3 DEF Shown, Accepts
  <2>2. ASSUME NEW v \in DOMAIN views  PROVE TidyView(v, views[v], rs, c)
    <3>1. TidyView(v, views[v], reads, c)
      BY <1>1 DEF Tidy
    <3>. QED  BY <3>1, <1>3 DEF TidyView
  <2>. QED  BY <2>1, <2>2, <1>1, <1>2 DEF Tidy, OneCurrent
<1>4. CASE lands
  <2>. DEFINE n == r.view
              w == views[n]
              w2 == Landed(w, r)
  <2>1. vs = [views EXCEPT ![n] = w2]
    BY <1>4 DEF Shown, Accepts
  <2>2. DOMAIN vs = DOMAIN views /\ \A v \in DOMAIN views : vs[v] = IF v = n THEN w2 ELSE views[v]
    BY <2>1
  <2>3. TidyView(n, w, reads, c) /\ IsView(w) /\ IsRead(r)
    BY <1>1, <1>2, <1>4 DEF Tidy, TidyView, TidyRead
  <2>4. CASE ~r.ok
    <3>1. IsView(w2) /\ ~w2.loading /\ w2.failed = (n # "about") /\ w2.asked = w.asked /\ w2.shown = w.shown
          /\ w2.clean = w.clean
      BY <2>3, <2>4 DEF Landed, IsView, HasFields, ViewFields
    <3>. HIDE DEF w2
    <3>2. TidyView(n, w2, rs, c)
      BY <2>3, <3>1 DEF TidyView, Loaded, RoomViews
    <3>. HIDE DEF w, n, vs, rs, c
    <3>3. ASSUME NEW v \in DOMAIN vs  PROVE TidyView(v, vs[v], rs, c)
      <4>1. CASE v = n
        BY <4>1, <3>2, <2>2
      <4>2. CASE v # n
        <5>1. TidyView(v, views[v], reads, c) /\ vs[v] = views[v]
          BY <1>1, <2>2, <4>2 DEF Tidy
        <5>. QED  BY <4>2, <5>1 DEF TidyView, n, rs
      <4>. QED  BY <4>1, <4>2
    <3>4. ASSUME NEW s \in rs  PROVE TidyRead(s, vs, c)
      BY <1>2, <1>4, <2>2 DEF TidyRead, n
    <3>. QED  BY <3>3, <3>4, <1>1, <2>2 DEF Tidy, OneCurrent, rs, vs, c
  <2>5. CASE r.ok
    <3>1. IsView(w2) /\ ~w2.loading /\ ~w2.failed /\ w2.shown = r.key /\ w2.clean = r.pure
          /\ w2.asked = IF n \in RoomViews THEN r.key ELSE w.asked
      BY <2>3, <2>5 DEF Landed, IsView, HasFields, ViewFields, IsRead, RoomViews
    <3>2. /\ n \in RoomViews \/ Awaited(n, w, r.key)
          /\ n \in RoomViews /\ r.pure => r.key = c
      BY <1>2, <1>4 DEF TidyRead
    <3>. HIDE DEF w2
    <3>3. TidyView(n, w2, rs, c)
      BY <3>1, <3>2 DEF TidyView, Loaded, RoomViews, Awaited
    <3>. HIDE DEF w, n, vs, rs, c
    <3>4. ASSUME NEW v \in DOMAIN vs  PROVE TidyView(v, vs[v], rs, c)
      <4>1. CASE v = n
        BY <4>1, <3>3, <2>2
      <4>2. CASE v # n
        <5>1. TidyView(v, views[v], reads, c) /\ vs[v] = views[v]
          BY <1>1, <2>2, <4>2 DEF Tidy
        <5>. QED  BY <4>2, <5>1 DEF TidyView, n, rs
      <4>. QED  BY <4>1, <4>2
    <3>5. ASSUME NEW s \in rs  PROVE TidyRead(s, vs, c)
      BY <1>2, <1>4, <2>2 DEF TidyRead, n
    <3>. QED  BY <3>4, <3>5, <1>1, <2>2 DEF Tidy, OneCurrent, rs, vs, c
  <2>. QED  BY <2>3, <2>4, <2>5 DEF IsRead
<1>. QED  BY <1>3, <1>4

\* Another read of the room's, when none is under way for it.
LEMMA RoomReadTidy ==
  ASSUME NEW vs, NEW rs, NEW c, NEW v \in RoomViews, Tidy(vs, rs, c),
         \A r \in rs : ~(r.view = v /\ r.current)
  PROVE  Tidy(vs, rs \cup {Read(v, c)}, c)
<1>. DEFINE new == Read(v, c)
            rs2 == rs \cup {new}
<1>1. IsRead(new) /\ new.view = v /\ new.key = c /\ new.current
  BY NewRead DEF ViewNames, RoomViews
<1>2. new \in rs2 /\ \A s \in rs2 : s = new \/ s \in rs
  OBVIOUS
<1>. HIDE DEF new
<1>3. \A x \in DOMAIN vs : TidyView(x, vs[x], rs2, c)
  BY DEF Tidy, TidyView
<1>. HIDE DEF rs2
<1>4. ASSUME NEW s \in rs2  PROVE TidyRead(s, vs, c)
  <2>1. CASE s = new
    BY <2>1, <1>1 DEF TidyRead
  <2>2. CASE s \in rs
    BY <2>2 DEF Tidy
  <2>. QED  BY <2>1, <2>2, <1>2
<1>5. OneCurrent(rs2)
  BY <1>1, <1>2 DEF OneCurrent, Tidy
<1>. QED  BY <1>3, <1>4, <1>5 DEF Tidy, new, rs2

\* Views that are held for out of date stay tidy.
LEMMA SoiledTidy ==
  ASSUME NEW vs, NEW rs, NEW c, Tidy(vs, rs, c)
  PROVE  Tidy(Soiled(vs), rs, c) /\ DOMAIN Soiled(vs) = DOMAIN vs
<1>1. \A w : IsView(w) => Softer(w, [w EXCEPT !.clean = FALSE])
  BY DEF Softer, IsView, HasFields, ViewFields
<1>2. DOMAIN Soiled(vs) = DOMAIN vs /\ \A v \in DOMAIN vs : Soiled(vs)[v] = [vs[v] EXCEPT !.clean = FALSE]
  BY Zenon DEF Soiled
<1>. QED  BY <1>1, <1>2, TidySofter

\* A view that is edited in place stays tidy.
LEMMA ContentTidy ==
  ASSUME NEW vs, NEW rs, NEW c, NEW n, NEW x, Tidy(vs, rs, c)
  PROVE  Tidy([vs EXCEPT ![n].content = x], rs, c) /\ DOMAIN [vs EXCEPT ![n].content = x] = DOMAIN vs
<1>. DEFINE vs2 == [vs EXCEPT ![n].content = x]
<1>1. \A w : IsView(w) => Softer(w, [w EXCEPT !.content = x]) /\ Softer(w, w)
  BY DEF Softer, IsView, HasFields, ViewFields
<1>2. DOMAIN vs2 = DOMAIN vs /\ \A v \in DOMAIN vs : vs2[v] = IF v = n THEN [vs[v] EXCEPT !.content = x] ELSE vs[v]
  OBVIOUS
<1>. HIDE DEF vs2
<1>3. ASSUME NEW v \in DOMAIN vs, IsView(vs[v])  PROVE Softer(vs[v], vs2[v])
  <2>. DEFINE w == vs[v]
  <2>1. Softer(w, [w EXCEPT !.content = x]) /\ Softer(w, w)
    BY <1>3, <1>1
  <2>. QED  BY <1>2, <2>1
<1>4. Tidy(vs2, rs, c)
  BY <1>2, <1>3, TidySofter
<1>. QED  BY <1>2, <1>4 DEF vs2

\* Reads that a logout refuses, or that a request spoils, stay tidy.
LEMMA SpoiltReads ==
  ASSUME NEW vs, NEW rs, NEW c, Tidy(vs, rs, c)
  PROVE  /\ Tidy(vs, Refused(rs), c)
         /\ Tidy(vs, {[r EXCEPT !.pure = r.pure /\ r.phase = "sent"] : r \in rs}, c)
<1>1. \A r : IsRead(r) => Like(r, [r EXCEPT !.phase = "answered"]) /\ Like(r, r)
  BY DEF Like, IsRead, HasFields, ReadFields
<1>2. ASSUME NEW r, IsRead(r)  PROVE Like(r, [r EXCEPT !.pure = r.pure /\ r.phase = "sent"])
  <2>. DEFINE b == r.pure /\ r.phase = "sent"
  <2>1. b \in BOOLEAN /\ (b => r.pure)
    OBVIOUS
  <2>. HIDE DEF b
  <2>2. Like(r, [r EXCEPT !.pure = b])
    BY <1>2, <2>1 DEF Like, IsRead, HasFields, ReadFields
  <2>. QED  BY <2>2 DEF b
<1>3. Tidy(vs, Refused(rs), c)
  <2>. DEFINE F == [r \in rs |-> IF r.phase = "sent" THEN [r EXCEPT !.phase = "answered"] ELSE r]
  <2>1. Refused(rs) = {F[r] : r \in rs}
    BY DEF Refused
  <2>2. \A r \in rs : IsRead(r) => Like(r, F[r])
    BY <1>1
  <2>. HIDE DEF F
  <2>. QED  BY <2>1, <2>2, TidyLike
<1>4. Tidy(vs, {[r EXCEPT !.pure = r.pure /\ r.phase = "sent"] : r \in rs}, c)
  <2>. DEFINE F == [r \in rs |-> [r EXCEPT !.pure = r.pure /\ r.phase = "sent"]]
  <2>1. {[r EXCEPT !.pure = r.pure /\ r.phase = "sent"] : r \in rs} = {F[r] : r \in rs}
    BY Zenon
  <2>2. \A r \in rs : IsRead(r) => Like(r, F[r])
    BY <1>2, Zenon
  <2>. HIDE DEF F
  <2>3. Tidy(vs, {F[r] : r \in rs}, c)
    BY <2>2, TidyLike
  <2>. QED  BY <2>1, <2>3
<1>. QED  BY <1>3, <1>4

\* The room that is taken over: nothing that it shows or reads counts but what
\* it now asks its new channel.
LEMMA RoomMoves ==
  ASSUME PagesInv, NEW sel
  PROVE  Tidy(RoomFollows(sel), RoomAsks(sel), sel.id) /\ DOMAIN RoomFollows(sel) = DOMAIN views
<1>. DEFINE told == [views EXCEPT !["about"].content = sel]
<1>1. Tidy(views, reads, ChannelOf(path)) /\ Tidy(told, reads, ChannelOf(path)) /\ DOMAIN told = DOMAIN views
  BY ContentTidy DEF PagesInv
<1>2. CASE sel.id = ChannelOf(path)
  BY <1>1, <1>2 DEF RoomFollows, RoomAsks
<1>3. CASE sel.id # ChannelOf(path)
  <2>. DEFINE asks == ~Reading("tables")
              before == IF asks THEN [told EXCEPT !["tables"] = Asked(told["tables"], sel.id)] ELSE told
              vs == RoomFollows(sel)
              rs == RoomAsks(sel)
              old == {[r EXCEPT !.pure = FALSE] : r \in reads}
              new == {Read(v, sel.id) : v \in {w \in RoomViews : ~Reading(w)}}
  <2>1. vs = Soiled(before) /\ rs = old \cup new
    BY <1>3 DEF RoomFollows, RoomAsks, RoomViews
  <2>2. \A w : IsView(w) => IsView([w EXCEPT !.clean = FALSE]) /\ Softer(w, [w EXCEPT !.clean = FALSE])
                            /\ ~[w EXCEPT !.clean = FALSE].clean
    BY DEF Softer, IsView, HasFields, ViewFields
  <2>3. \A w : IsView(w) => IsView(Asked(w, sel.id)) /\ Asked(w, sel.id).asked = sel.id /\ Asked(w, sel.id).loading
    BY DEF IsView, HasFields, ViewFields, Asked
  <2>4. \A v \in DOMAIN told : IsView(told[v])
    BY <1>1 DEF Tidy, TidyView
  <2>5. DOMAIN before = DOMAIN told /\ \A v \in DOMAIN told :
          before[v] = IF v = "tables" /\ asks THEN Asked(told[v], sel.id) ELSE told[v]
    OBVIOUS
  <2>6. DOMAIN vs = DOMAIN before /\ \A v \in DOMAIN before : vs[v] = [before[v] EXCEPT !.clean = FALSE]
    BY <2>1 DEF Soiled
  <2>. HIDE DEF told, before, vs, rs
  <2>7. ASSUME NEW v \in DOMAIN vs
        PROVE  /\ IsView(vs[v]) /\ ~vs[v].clean
               /\ v = "tables" /\ asks => vs[v].asked = sel.id /\ vs[v].loading
               /\ ~(v = "tables" /\ asks) => Softer(told[v], vs[v])
    <3>1. IsView(told[v]) /\ IsView(before[v])
      BY <2>3, <2>4, <2>5, <2>6
    <3>2. Softer(before[v], vs[v]) /\ IsView(vs[v]) /\ ~vs[v].clean
      <4>. DEFINE w == before[v]
      <4>1. IsView([w EXCEPT !.clean = FALSE]) /\ Softer(w, [w EXCEPT !.clean = FALSE])
            /\ ~[w EXCEPT !.clean = FALSE].clean
        BY <3>1, <2>2
      <4>. QED  BY <4>1, <2>6
    <3>. QED  BY <3>1, <3>2, <2>3, <2>5, <2>6 DEF Softer
  <2>8. \A r : IsRead(r) => LET s == [r EXCEPT !.pure = FALSE]
                            IN  IsRead(s) /\ ~s.pure /\ s.view = r.view /\ s.key = r.key /\ s.current = r.current
    BY DEF IsRead, HasFields, ReadFields
  <2>9. \A r \in reads : IsRead(r) /\ TidyRead(r, told, ChannelOf(path))
    BY <1>1 DEF Tidy, TidyRead
  <2>10. ASSUME NEW s \in old
         PROVE  \E r \in reads : /\ s = [r EXCEPT !.pure = FALSE]
                                 /\ TidyRead(r, told, ChannelOf(path))
                                 /\ IsRead(s) /\ ~s.pure /\ s.view = r.view /\ s.key = r.key /\ s.current = r.current
    BY <2>8, <2>9
  <2>11. ASSUME NEW r \in reads
         PROVE  \E s \in rs : s.view = r.view /\ s.key = r.key /\ s.current = r.current
    BY <2>1, <2>8, <2>9
  <2>12. ASSUME NEW s \in new
         PROVE  IsRead(s) /\ s = Read(s.view, sel.id) /\ s.key = sel.id /\ s.view \in RoomViews /\ ~Reading(s.view)
    BY NewRead DEF RoomViews, ViewNames
  <2>13. asks => \E s \in rs : s.view = "tables" /\ s.current /\ s.key = sel.id
    BY <2>1, NewRead DEF RoomViews, ViewNames
  <2>. HIDE DEF old, new
  <2>14. ASSUME NEW v \in DOMAIN vs  PROVE TidyView(v, vs[v], rs, sel.id)
    <3>1. CASE v = "tables" /\ asks
      BY <3>1, <2>7, <2>13 DEF TidyView, Loaded, Awaited
    <3>2. CASE ~(v = "tables" /\ asks)
      <4>1. TidyView(v, told[v], reads, ChannelOf(path)) /\ Softer(told[v], vs[v])
        BY <3>2, <2>5, <2>6, <2>7, <1>1 DEF Tidy
      <4>. QED  BY <4>1, <2>7, <2>11 DEF TidyView, Softer, Loaded, Awaited
    <3>. QED  BY <3>1, <3>2
  <2>15. ASSUME NEW s \in rs  PROVE TidyRead(s, vs, sel.id)
    <3>1. CASE s \in old
      <4>1. PICK r \in reads : TidyRead(r, told, ChannelOf(path)) /\ IsRead(s) /\ ~s.pure
                               /\ s.view = r.view /\ s.key = r.key /\ s.current = r.current
        BY <3>1, <2>10
      <4>2. s.view \in DOMAIN vs /\ s.view \notin RoomViews => s.view \in DOMAIN told /\ Softer(told[s.view], vs[s.view])
        BY <2>5, <2>6, <2>7 DEF RoomViews
      <4>. QED  BY <4>1, <4>2 DEF TidyRead, Awaited, Softer
    <3>2. CASE s \in new
      BY <3>2, <2>12 DEF TidyRead
    <3>. QED  BY <3>1, <3>2, <2>1
  <2>16. OneCurrent(rs)
    <3>. SUFFICES ASSUME NEW s \in rs, NEW t \in rs, s.current, t.current, s.view = t.view  PROVE s = t
      BY DEF OneCurrent
    <3>1. CASE s \in old /\ t \in old
      <4>1. PICK r \in reads : s = [r EXCEPT !.pure = FALSE] /\ r.view = s.view /\ r.current
        BY <3>1, <2>10
      <4>2. PICK q \in reads : t = [q EXCEPT !.pure = FALSE] /\ q.view = t.view /\ q.current
        BY <3>1, <2>10
      <4>. QED  BY <4>1, <4>2, <1>1 DEF Tidy, OneCurrent
    <3>2. CASE s \in new /\ t \in new
      BY <3>2, <2>12
    <3>3. ASSUME NEW x \in old, NEW y \in new, x.current, x.view = y.view  PROVE FALSE
      BY <3>3, <2>10, <2>12 DEF Reading
    <3>. QED  BY <3>1, <3>2, <3>3, <2>1
  <2>. QED  BY <2>14, <2>15, <2>16, <2>5, <2>6, <1>1 DEF Tidy, vs, rs
<1>. QED  BY <1>2, <1>3

-----------------------------------------------------------------------------
(* Every step leaves them tidy *)

\* A step that stays on its page.
LEMMA StaysPut ==
  ASSUME Placed, UNCHANGED pageVars, DOMAIN views' = DOMAIN views, Tidy(views', reads', ChannelOf(path))
  PROVE  PagesInv'
BY DEF PagesInv, Placed, pageVars, ScreenNow

\* A component asks again.
LEMMA AskPages ==
  ASSUME PagesInv, NEW v \in ViewNames \ RoomViews, NEW w,
         v \in DOMAIN views => IsView(w), Asks(v, w)
  PROVE  PagesInv'
<1>1. Tidy(views', reads', ChannelOf(path))
  BY AskTidy DEF Asks, PagesInv
<1>2. DOMAIN views' = DOMAIN views
  BY DEF Asks
<1>. QED  BY <1>1, <1>2, StaysPut DEF Asks, PagesInv

\* A component asks for something else.
LEMMA AskForPages ==
  ASSUME PagesInv, NEW v \in ViewNames \ RoomViews, NEW key, AsksFor(v, key)
  PROVE  PagesInv'
<1>1. v \in DOMAIN views => IsView([views[v] EXCEPT !.asked = key])
  <2>. SUFFICES ASSUME v \in DOMAIN views  PROVE IsView([views[v] EXCEPT !.asked = key])
    OBVIOUS
  <2>. DEFINE w == views[v]
  <2>1. IsView(w)
    BY DEF PagesInv, Tidy, TidyView
  <2>. HIDE DEF w
  <2>2. IsView([w EXCEPT !.asked = key])
    BY <2>1 DEF IsView, HasFields, ViewFields
  <2>. QED  BY <2>2 DEF w
<1>. QED  BY <1>1, AskPages DEF AsksFor

\* Another channel's balances are asked for.
LEMMA PickPages ==
  ASSUME PagesInv, PickBalances
  PROVE  PagesInv'
<1>1. PICK s : Asks("balances", [views["balances"] EXCEPT !.asked = s, !.shown = Nowhere])
  BY DEF PickBalances
<1>. DEFINE w == views["balances"]
<1>2. "balances" \in DOMAIN views => IsView(w)
  BY DEF PagesInv, Tidy, TidyView
<1>. HIDE DEF w
<1>3. IsView(w) => IsView([w EXCEPT !.asked = s, !.shown = Nowhere])
  BY DEF IsView, HasFields, ViewFields
<1>. QED  BY <1>1, <1>2, <1>3, AskPages DEF w, ViewNames, RoomViews

\* The sheet of a channel opens.
LEMMA OpenSheetPages ==
  ASSUME PagesInv, NEW s, OpenSheet(s)
  PROVE  PagesInv'
<1>. DEFINE c == ChannelOf(path)
            late == \E a \in saves : a.q[1] \in {"connection", "table_delete"}
            vs == IF late THEN Soiled(views) ELSE views
            count == vs["overview"].content.spaces[s]
            vs2 == [vs EXCEPT !["detail"] = Asked(vs["detail"], s)]
<1>1. Tidy(vs, reads, c) /\ DOMAIN vs = DOMAIN views
  BY SoiledTidy DEF PagesInv
<1>2. views' = [vs EXCEPT !["detail"] = [Asked(vs["detail"], s) EXCEPT !.count = count]]
      /\ reads' = Superseded("detail", reads) \cup {Read("detail", s)}
  BY Zenon DEF OpenSheet
<1>. HIDE DEF vs, c, count
<1>3. "detail" \in DOMAIN vs => IsView(vs["detail"])
  BY <1>1 DEF Tidy, TidyView
<1>4. Tidy(vs2, reads', c)
  BY <1>1, <1>2, <1>3, AskTidy DEF ViewNames, RoomViews
<1>5. \A w : IsView(w) => Softer(w, [w EXCEPT !.count = count]) /\ Softer(w, w)
  BY DEF Softer, IsView, HasFields, ViewFields
<1>6. DOMAIN views' = DOMAIN vs2 /\ DOMAIN vs2 = DOMAIN vs
      /\ \A v \in DOMAIN vs2 : views'[v] = IF v = "detail" THEN [vs2[v] EXCEPT !.count = count] ELSE vs2[v]
  BY <1>2
<1>. HIDE DEF vs2
<1>7. ASSUME NEW v \in DOMAIN vs2, IsView(vs2[v])  PROVE Softer(vs2[v], views'[v])
  <2>. DEFINE w == vs2[v]
  <2>1. Softer(w, [w EXCEPT !.count = count]) /\ Softer(w, w)
    BY <1>5, <1>7
  <2>. QED  BY <1>6, <2>1
<1>8. Tidy(views', reads', c)
  BY <1>4, <1>6, <1>7, TidySofter
<1>9. UNCHANGED pageVars
  BY DEF OpenSheet
<1>. QED  BY <1>1, <1>6, <1>8, <1>9, StaysPut DEF PagesInv, c

\* It closes, and still waits for what it asked for.
LEMMA CloseSheetPages ==
  ASSUME PagesInv, CloseSheet
  PROVE  PagesInv'
<1>. DEFINE c == ChannelOf(path)
            w == views["detail"]
            w2 == [w EXCEPT !.asked = Nowhere, !.shown = Nowhere, !.content = NoRows, !.failed = FALSE]
<1>1. Tidy(views, reads, c) /\ Placed
  BY DEF PagesInv
<1>2. views' = [views EXCEPT !["detail"] = w2] /\ reads' = reads /\ UNCHANGED pageVars /\ "detail" \in DOMAIN views
  BY DEF CloseSheet
<1>3. TidyView("detail", w, reads, c) /\ IsView(w)
  BY <1>1, <1>2 DEF Tidy, TidyView
<1>4. DOMAIN views' = DOMAIN views /\ \A v \in DOMAIN views : views'[v] = IF v = "detail" THEN w2 ELSE views[v]
  BY <1>2
<1>. HIDE DEF w
<1>5. IsView(w2) /\ w2.asked = Nowhere /\ w2.loading = w.loading
  BY <1>3 DEF IsView, HasFields, ViewFields
<1>. HIDE DEF w2
<1>6. TidyView("detail", w2, reads, c)
  BY <1>3, <1>5 DEF TidyView, Awaited, RoomViews
<1>7. \A v \in DOMAIN views' : TidyView(v, views'[v], reads, c)
  BY <1>1, <1>4, <1>6 DEF Tidy
<1>8. ASSUME NEW r \in reads  PROVE TidyRead(r, views', c)
  <2>1. TidyRead(r, views, c)
    BY <1>1 DEF Tidy
  <2>2. CASE r.view = "detail"
    BY <2>1, <2>2, <1>4, <1>5 DEF TidyRead, Awaited, RoomViews
  <2>3. CASE r.view # "detail"
    BY <2>1, <2>3, <1>4 DEF TidyRead
  <2>. QED  BY <2>2, <2>3
<1>9. Tidy(views', reads', c)
  BY <1>1, <1>2, <1>7, <1>8 DEF Tidy
<1>. QED  BY <1>1, <1>2, <1>4, <1>9, StaysPut

\* The tab of the keys closes: its read is forgotten with it.
LEMMA CloseKeysPages ==
  ASSUME PagesInv, CloseKeys
  PROVE  PagesInv'
<1>. DEFINE c == ChannelOf(path)
            clean == views["keys"].clean
            w2 == [Mounted("keys", Nowhere, Nothing) EXCEPT !.clean = clean]
<1>1. Tidy(views, reads, c) /\ Placed
  BY DEF PagesInv
<1>2. views' = [views EXCEPT !["keys"] = w2] /\ reads' = {r \in reads : r.view # "keys"} /\ UNCHANGED pageVars
  BY DEF CloseKeys
<1>3. DOMAIN views' = DOMAIN views /\ \A v \in DOMAIN views : views'[v] = IF v = "keys" THEN w2 ELSE views[v]
  BY <1>2
<1>4. "keys" \in DOMAIN views => clean \in BOOLEAN
  BY <1>1 DEF Tidy, TidyView, IsView
<1>. HIDE DEF clean
<1>5. clean \in BOOLEAN => IsView(w2) /\ w2.asked = Nowhere /\ ~w2.loading
  BY DEF IsView, HasFields, ViewFields, Mounted
<1>. HIDE DEF w2
<1>6. "keys" \in DOMAIN views => TidyView("keys", w2, reads', c)
  BY <1>4, <1>5 DEF TidyView, RoomViews
<1>7. \A v \in DOMAIN views' : TidyView(v, views'[v], reads', c)
  BY <1>1, <1>2, <1>3, <1>6 DEF Tidy, TidyView
<1>8. \A r \in reads' : TidyRead(r, views', c)
  BY <1>1, <1>2, <1>3 DEF Tidy, TidyRead
<1>9. Tidy(views', reads', c)
  BY <1>1, <1>2, <1>7, <1>8 DEF Tidy, OneCurrent
<1>. QED  BY <1>1, <1>2, <1>3, <1>9, StaysPut

\* The room's timer reads the tables only when no read of them is under way.
LEMMA PollPages ==
  ASSUME PagesInv, Poll
  PROVE  PagesInv'
<1>1. Tidy(views, reads, ChannelOf(path)) /\ Placed
  BY DEF PagesInv
<1>2. reads' = reads \cup {Read("tables", ChannelOf(path))} /\ UNCHANGED pageVars /\ views' = views
  BY DEF Poll
<1>3. \A r \in reads : ~(r.view = "tables" /\ r.current)
  BY DEF Poll, Reading
<1>4. Tidy(views, reads', ChannelOf(path))
  BY <1>1, <1>2, <1>3, RoomReadTidy DEF RoomViews
<1>. QED  BY <1>1, <1>2, <1>4, StaysPut

\* The server answers a read.
LEMMA AnswerPages ==
  ASSUME PagesInv, NEW r \in reads, AnswerRead(r)
  PROVE  PagesInv'
<1>1. PICK x : IsRead(r) => Like(r, x)  /\ reads' = (reads \ {r}) \cup {x}
  <2>. DEFINE answer == [r EXCEPT !.phase = "answered"]
              told == <<r.view, Tell(db, session, r.view, r.key)>>
              pure == r.pure /\ saves = {}
              good == [answer EXCEPT !.ok = TRUE, !.pure = pure, !.answer = told]
  <2>1. IsRead(r) => Like(r, answer) /\ IsRead(answer) /\ answer.pure = r.pure
    BY DEF Like, IsRead, HasFields, ReadFields
  <2>2. pure \in BOOLEAN /\ (pure => r.pure)
    OBVIOUS
  <2>3. reads' = (reads \ {r}) \cup {[answer EXCEPT !.ok = TRUE, !.pure = answer.pure /\ saves = {}, !.answer = told]}
        \/ reads' = (reads \ {r}) \cup {answer}
    BY Zenon DEF AnswerRead
  <2>. HIDE DEF answer, pure, told
  <2>4. IsRead(r) => Like(r, good)
    BY <2>1, <2>2 DEF Like, IsRead, HasFields, ReadFields
  <2>5. IsRead(r) => [answer EXCEPT !.ok = TRUE, !.pure = answer.pure /\ saves = {}, !.answer = told] = good
    BY <2>1, Zenon DEF pure
  <2>. QED  BY <2>1, <2>3, <2>4, <2>5
<1>. DEFINE F == [s \in reads |-> IF s = r THEN x ELSE s]
<1>2. Tidy(views, reads, ChannelOf(path)) /\ Placed /\ IsRead(r)
  BY DEF PagesInv, Tidy, TidyRead
<1>3. reads' = {F[s] : s \in reads}
  BY <1>1, <1>2
<1>4. \A s \in reads : IsRead(s) => Like(s, F[s])
  BY <1>1 DEF Like
<1>. HIDE DEF F
<1>5. Tidy(views, reads', ChannelOf(path))
  BY <1>2, <1>3, <1>4, TidyLike
<1>6. UNCHANGED pageVars /\ views' = views
  BY DEF AnswerRead
<1>. QED  BY <1>2, <1>5, <1>6, StaysPut

\* A view, and a read, that does not hear of an account stays what it is.
LEMMA UnawareRead ==
  ASSUME NEW x, IsRead(x)
  PROVE  Like(x, Unaware(x)) /\ Unaware(x).answer = x.answer /\ Unaware(x).phase = x.phase /\ Unaware(x).ok = x.ok
BY DEF Unaware, Like, IsRead, HasFields, ReadFields

\* The server makes an account before it answers a read of a channel.
LEMMA AccountPages ==
  ASSUME PagesInv, NEW r \in reads, AccountMade(r)
  PROVE  PagesInv'
<1>. DEFINE c == ChannelOf(path)
            told == IF r.view = "detail" THEN Tell(db, session, r.view, r.key) ELSE TellMember(db, session, r.key)
            x == [r EXCEPT !.phase = "answered", !.ok = TRUE, !.pure = r.pure /\ saves = {}, !.answer = <<r.view, told>>]
            F == [s \in reads |-> IF s = r THEN x ELSE Unaware(s)]
<1>1. Tidy(views, reads, c) /\ Placed /\ IsRead(r)
  BY DEF PagesInv, Tidy, TidyRead
<1>2. /\ reads' = {Unaware(s) : s \in reads \ {r}} \cup {x}
      /\ views' = [v \in DOMAIN views |-> IF v = "bindings" THEN [views[v] EXCEPT !.clean = FALSE] ELSE views[v]]
      /\ UNCHANGED pageVars
  BY Zenon DEF AccountMade
<1>3. Like(r, x)
  <2>. DEFINE pure == r.pure /\ saves = {}
              answer == <<r.view, told>>
  <2>1. pure \in BOOLEAN /\ (pure => r.pure)
    OBVIOUS
  <2>. HIDE DEF pure, answer
  <2>2. Like(r, [r EXCEPT !.phase = "answered", !.ok = TRUE, !.pure = pure, !.answer = answer])
    BY <1>1, <2>1 DEF Like, IsRead, HasFields, ReadFields
  <2>. QED  BY <2>2 DEF pure, answer
<1>. HIDE DEF x
<1>4. reads' = {F[s] : s \in reads}
  BY <1>2
<1>5. \A s \in reads : IsRead(s) => Like(s, F[s])
  BY <1>3, UnawareRead
<1>. HIDE DEF F
<1>6. Tidy(views, reads', c)
  BY <1>1, <1>4, <1>5, TidyLike
<1>7. \A v \in DOMAIN views : IsView(views[v]) => Softer(views[v], views'[v])
  BY <1>2 DEF Softer, IsView, HasFields, ViewFields
<1>8. DOMAIN views' = DOMAIN views
  BY <1>2
<1>9. Tidy(views', reads', c)
  BY <1>6, <1>7, <1>8, TidySofter
<1>. QED  BY <1>1, <1>2, <1>8, <1>9, StaysPut

\* A read that arrives: only its own view takes note of it, the overview's also
\* when it is too late.
LEMMA ArrivalPages ==
  ASSUME PagesInv, NEW r \in reads, ReadArrives(r)
  PROVE  PagesInv'
<1>. DEFINE c == ChannelOf(path)
<1>1. Tidy(Shown(r), reads \ {r}, c) /\ DOMAIN Shown(r) = DOMAIN views /\ Placed
  BY LandTidy DEF PagesInv
<1>2. CASE \E v : Arrives(v, r)
  BY <1>1, <1>2, ShowQuietly DEF Arrives
<1>3. CASE SpaceArrives(r)
  <2>. DEFINE sel == IF "space" \in DOMAIN views /\ Accepts(r) /\ r.ok THEN r.answer[2] ELSE selected
  <2>1. Show(user, path, sel, Shown(r), reads \ {r}, saves)
    BY <1>3 DEF SpaceArrives
  <2>2. sel = selected \/ ScreenNow # "room"
    BY <1>1, PlacedNames DEF Placed
  <2>. HIDE DEF sel
  <2>. QED  BY <1>1, <2>1, <2>2, ShowQuietly
<1>4. CASE OverviewArrives(r)
  <2>. DEFINE missed == Shown(r) = views /\ ~r.pure
              vs == IF missed THEN Soiled(views) ELSE Shown(r)
  <2>1. Show(user, path, selected, vs, reads \ {r}, saves)
    BY <1>4 DEF OverviewArrives
  <2>2. Tidy(vs, reads \ {r}, c) /\ DOMAIN vs = DOMAIN views
    BY <1>1, SoiledTidy
  <2>. HIDE DEF vs
  <2>. QED  BY <1>1, <2>1, <2>2, ShowQuietly
<1>. QED
  BY <1>2, <1>3, <1>4 DEF ReadArrives, SpacesArrive, BoardArrives, AboutArrives, TablesArrive, HandsArrive,
     FundsArrive, BindingsArrive, RankingsArrive, BalancesArrive, DetailArrives, KeysArrive

\* An answer to a request edits the views.
LEMMA BecomesPages ==
  ASSUME PagesInv, NEW a, NEW vs, NEW s, Becomes(a, vs, s),
         DOMAIN vs = DOMAIN views, Tidy(vs, reads, ChannelOf(path))
  PROVE  PagesInv'
BY ShowQuietly DEF Becomes, PagesInv

\* It edits the console's books.
LEMMA BooksPages ==
  ASSUME PagesInv, NEW a, NEW books, NEW s, Becomes(a, WithBooks(a, books), s)
  PROVE  PagesInv'
<1>1. Tidy(WithBooks(a, books), reads, ChannelOf(path)) /\ DOMAIN WithBooks(a, books) = DOMAIN views
  BY ContentTidy DEF WithBooks, PagesInv
<1>. QED  BY <1>1, BecomesPages

\* It edits one view.
LEMMA ContentPages ==
  ASSUME PagesInv, NEW a, NEW n, NEW x, NEW s, Becomes(a, [views EXCEPT ![n].content = x], s)
  PROVE  PagesInv'
<1>1. Tidy([views EXCEPT ![n].content = x], reads, ChannelOf(path))
      /\ DOMAIN [views EXCEPT ![n].content = x] = DOMAIN views
  BY ContentTidy DEF PagesInv
<1>. QED  BY <1>1, BecomesPages

\* It edits nothing.
LEMMA SamePages ==
  ASSUME PagesInv, NEW a, NEW s, Becomes(a, views, s)
  PROVE  PagesInv'
BY BecomesPages DEF PagesInv

\* It edits the sheet of a channel and the books.
LEMMA SheetPages ==
  ASSUME PagesInv, NEW a, NEW rows, NEW count, SheetShows(a, rows, count)
  PROVE  PagesInv'
<1>. DEFINE c == ChannelOf(path)
            sheet == [views["detail"] EXCEPT !.content = rows, !.count = count]
            vs == IF a.held THEN [views EXCEPT !["detail"] = sheet] ELSE views
            books == SpaceChanged(vs["overview"].content, a.q[2], count)
<1>1. Tidy(views, reads, c)
  BY DEF PagesInv
<1>2. Becomes(a, [vs EXCEPT !["overview"].content = books], site)
  BY Zenon DEF SheetShows
<1>3. \A w : IsView(w) => Softer(w, [w EXCEPT !.content = rows, !.count = count]) /\ Softer(w, w)
  BY DEF Softer, IsView, HasFields, ViewFields
<1>4. DOMAIN vs = DOMAIN views /\ \A v \in DOMAIN views : vs[v] = IF a.held /\ v = "detail" THEN sheet ELSE views[v]
  OBVIOUS
<1>5. ASSUME NEW v \in DOMAIN views, IsView(views[v])  PROVE Softer(views[v], vs[v])
  <2>. DEFINE w == views[v]
  <2>1. Softer(w, [w EXCEPT !.content = rows, !.count = count]) /\ Softer(w, w)
    BY <1>3, <1>5
  <2>. QED  BY <1>4, <2>1
<1>. HIDE DEF vs, books, sheet
<1>6. Tidy(vs, reads, c)
  BY <1>1, <1>4, <1>5, TidySofter
<1>7. Tidy([vs EXCEPT !["overview"].content = books], reads, c)
      /\ DOMAIN [vs EXCEPT !["overview"].content = books] = DOMAIN vs
  BY <1>6, ContentTidy
<1>. QED  BY <1>2, <1>4, <1>7, BecomesPages

\* It leads to a channel, from the room of another one or from elsewhere.
LEMMA JoinedPages ==
  ASSUME PagesInv, NEW a, SpaceJoined(a)
  PROVE  PagesInv'
<1>. DEFINE sel == a.told[2]
<1>1. Tidy(views, reads, ChannelOf(path)) /\ Placed
  BY DEF PagesInv
<1>2. CASE ScreenNow = "room"
  <2>1. Show(user, <<"channels", sel.id>>, sel, RoomFollows(sel), RoomAsks(sel), saves \ {a})
    BY <1>2 DEF SpaceJoined
  <2>2. Tidy(RoomFollows(sel), RoomAsks(sel), sel.id)
    BY RoomMoves
  <2>3. SamePage => sel.id = ChannelOf(path')
    BY <1>2, <2>1, InRoomSelected DEF SamePage, Show
  <2>4. \A r \in RoomAsks(sel) : IsRead(r)
    BY <2>2 DEF Tidy, TidyRead
  <2>. HIDE DEF sel
  <2>. QED  BY <2>1, <2>2, <2>3, <2>4, ShowTidy
<1>3. CASE ScreenNow # "room"
  <2>1. Show(user, <<"channels", sel.id>>, sel, views, reads, saves \ {a})
    BY <1>3 DEF SpaceJoined
  <2>. QED  BY <1>1, <1>3, <2>1, ShowQuietly
<1>. QED  BY <1>2, <1>3

\* It makes the ranking load again.
LEMMA RankingsPages ==
  ASSUME PagesInv, NEW a, RankingsChanged(a)
  PROVE  PagesInv'
<1>. DEFINE key == a.q[2]
            vs == [views EXCEPT !["rankings"] = Asked(views["rankings"], key)]
            rs == Superseded("rankings", reads) \cup {Read("rankings", key)}
<1>1. Show(user, path, selected, vs, rs, saves \ {a})
  BY DEF RankingsChanged
<1>2. Tidy(views, reads, ChannelOf(path)) /\ Placed
  BY DEF PagesInv
<1>3. "rankings" \in DOMAIN views => IsView(views["rankings"])
  BY <1>2 DEF Tidy, TidyView
<1>4. Tidy(vs, rs, ChannelOf(path)) /\ DOMAIN vs = DOMAIN views
  BY <1>2, <1>3, AskTidy DEF ViewNames, RoomViews
<1>. HIDE DEF vs, rs
<1>. QED  BY <1>1, <1>2, <1>4, ShowQuietly

\* The answers to requests edit what is shown, or lead elsewhere.
LEMMA SavedPages ==
  ASSUME PagesInv, NEW a \in saves, SaveArrives(a)
  PROVE  PagesInv'
<1>0. Tidy(views, reads, ChannelOf(path)) /\ Placed
  BY DEF PagesInv
<1>1. CASE SaveRefused(a) \/ PageIsGone(a)
  BY <1>0, <1>1, StaysPut DEF SaveRefused, PageIsGone
<1>2. CASE RegistrationSaved(a) \/ BrandSaved(a) \/ FaviconReset(a) \/ LoginHeroSaved(a) \/ WeChatLoginSaved(a)
  <2>1. PICK new : SettingArrives(a, new)
    BY <1>2, Zenon DEF RegistrationSaved, BrandSaved, FaviconReset, LoginHeroSaved, WeChatLoginSaved
  <2>2. \E books, s : Becomes(a, WithBooks(a, books), s)
    BY <2>1, Zenon DEF SettingArrives
  <2>. QED  BY <2>2, BooksPages
<1>3. CASE UserSaved(a) \/ UserDeleted(a) \/ RankingToggled(a) \/ RolesSaved(a)
  <2>1. \E books, s : Becomes(a, WithBooks(a, books), s)
    BY <1>3, Zenon DEF UserSaved, UserDeleted, RankingToggled, RolesSaved
  <2>. QED  BY <2>1, BooksPages
<1>4. CASE RankingsChanged(a)
  BY <1>4, RankingsPages
<1>5. CASE ConnectionSaved(a) \/ SheetTableDeleted(a)
  <2>1. \E rows, count : SheetShows(a, rows, count)
    BY <1>5, Zenon DEF ConnectionSaved, SheetTableDeleted
  <2>. QED  BY <2>1, SheetPages
<1>6. CASE SheetTableCleared(a)
  BY <1>6, SamePages DEF SheetTableCleared
<1>7. CASE TableCreated(a)
  <2>1. Becomes(a, [views EXCEPT !["tables"].content = WithTable(views["tables"].content, a.told[2])], site)
    BY <1>7, Zenon DEF TableCreated
  <2>. QED  BY <2>1, ContentPages
<1>8. CASE RoomTableDone(a)
  <2>1. Becomes(a, views, site)
        \/ Becomes(a, [views EXCEPT !["tables"].content = WithoutTable(views["tables"].content, a.q[3])], site)
    BY <1>8, Zenon DEF RoomTableDone
  <2>. QED  BY <2>1, ContentPages, SamePages
<1>9. CASE KeyGenerated(a) \/ KeyRevoked(a) \/ AgentSwitched(a)
  <2>1. \E x : Becomes(a, [views EXCEPT !["keys"].content = x], site)
    BY <1>9, Zenon DEF KeyGenerated, KeyRevoked, AgentSwitched, KeysShow
  <2>. QED  BY <2>1, ContentPages
<1>10. CASE BindingUpdated(a)
  <2>1. \E x : Becomes(a, [views EXCEPT !["bindings"].content = x], site)
    BY <1>10, Zenon DEF BindingUpdated
  <2>. QED  BY <2>1, ContentPages
<1>11. CASE ProfileUpdated(a) \/ CredentialsUpdated(a)
  BY <1>0, <1>11, ShowQuietly DEF ProfileUpdated, CredentialsUpdated
<1>12. CASE SpaceJoined(a)
  BY <1>12, JoinedPages
<1>. QED
  BY <1>1, <1>2, <1>3, <1>4, <1>5, <1>6, <1>7, <1>8, <1>9, <1>10, <1>11, <1>12 DEF SaveArrives

\* Nothing is shown or read before the first answer.
LEMMA InitPages == Init => PagesInv
<1>. SUFFICES ASSUME Init  PROVE PagesInv
  OBVIOUS
<1>1. DOMAIN views = {} /\ reads = {}
  BY DEF Init
<1>. QED  BY <1>1 DEF PagesInv, Placed, Tidy, OneCurrent

\* Every step keeps the invariant.
LEMMA NextPages ==
  ASSUME PagesInv, [Next]_vars
  PROVE  PagesInv'
<1>0. Tidy(views, reads, ChannelOf(path)) /\ Placed
  BY DEF PagesInv
<1>1. CASE Start \/ \E u : Login(u) \/ LoginConsole(u) \/ Register(u)
  BY <1>0, <1>1, ShowQuietly DEF Start, Login, LoginConsole, Register
<1>2. CASE LogoutLobby \/ LogoutConsole
  BY <1>0, <1>2, ShowQuietly, SpoiltReads DEF LogoutLobby, LogoutConsole
<1>3. CASE \E p : Go(p)
  BY <1>0, <1>3, ShowQuietly DEF Go
<1>4. CASE \E s : OpenSpace(s)
  BY <1>0, <1>4, ShowQuietly DEF OpenSpace
<1>5. CASE ChooseBoard \/ TurnHands \/ TurnFunds \/ ScopeRankings \/ OpenKeys
  BY <1>5, AskForPages DEF ChooseBoard, TurnHands, TurnFunds, ScopeRankings, OpenKeys, ViewNames, RoomViews
<1>6. CASE RefreshBalances \/ RefreshSheet
  <2>1. PICK v \in {"balances", "detail"} : Asks(v, views[v])
    BY <1>6 DEF RefreshBalances, RefreshSheet
  <2>2. v \in DOMAIN views => IsView(views[v])
    BY <1>0 DEF Tidy, TidyView
  <2>. QED  BY <2>1, <2>2, AskPages DEF ViewNames, RoomViews
<1>7. CASE PickBalances \/ CloseSheet \/ CloseKeys \/ Poll \/ \E s : OpenSheet(s)
  BY <1>7, PickPages, CloseSheetPages, CloseKeysPages, PollPages, OpenSheetPages
<1>8. ASSUME NEW r \in reads, AnswerRead(r) \/ AccountMade(r) \/ ReadArrives(r)  PROVE PagesInv'
  BY <1>8, AnswerPages, AccountPages, ArrivalPages
<1>9. ASSUME NEW q, Submit(q)  PROVE PagesInv'
  <2>. DEFINE rs == {[r EXCEPT !.pure = r.pure /\ r.phase = "sent"] : r \in reads}
  <2>1. reads' = rs /\ UNCHANGED pageVars /\ (views' = views \/ views' = Soiled(views))
    BY <1>9, Zenon DEF Submit
  <2>2. Tidy(views, rs, ChannelOf(path))
    BY <1>0, SpoiltReads
  <2>. HIDE DEF rs
  <2>3. Tidy(views', reads', ChannelOf(path)) /\ DOMAIN views' = DOMAIN views
    BY <2>1, <2>2, SoiledTidy
  <2>. QED  BY <1>0, <2>1, <2>3, StaysPut
<1>10. ASSUME NEW a \in saves, HandleSave(a) \/ JoinedWithAccount(a) \/ LoseReply(a)  PROVE PagesInv'
  <2>1. reads' = reads /\ UNCHANGED pageVars /\ (views' = views \/ views' = Soiled(views))
    BY <1>10, Zenon DEF HandleSave, JoinedWithAccount, LoseReply
  <2>2. Tidy(views', reads', ChannelOf(path)) /\ DOMAIN views' = DOMAIN views
    BY <1>0, <2>1, SoiledTidy
  <2>. QED  BY <1>0, <2>1, <2>2, StaysPut
<1>11. ASSUME NEW a \in saves, SaveArrives(a)  PROVE PagesInv'
  BY <1>11, SavedPages
<1>12. CASE UNCHANGED vars
  BY <1>0, <1>12, StaysPut DEF vars, pageVars
<1>. QED
  BY <1>1, <1>2, <1>3, <1>4, <1>5, <1>6, <1>7, <1>8, <1>9, <1>10, <1>11, <1>12 DEF Next

\* The invariant tells that the pages are honest.
LEMMA PagesInvHonest == PagesInv => PagesAreHonest
BY DEF PagesInv, PagesAreHonest, Tidy, TidyView, Awaited, RoomViews

\* Whatever order the answers come in, and whatever page or channel is left and
\* opened meanwhile, no component waits for an answer that cannot come, and none
\* shows under one heading what it loaded for another.
THEOREM WebPagesAreHonest == Spec => []PagesAreHonest
BY InitPages, NextPages, PagesInvHonest, PTL DEF Spec

-----------------------------------------------------------------------------
(* What the pages offer. *)

\* The views of a screen, in the console those of the section as well.
NamesOf(screen, p, overview) ==
  FirstViews(screen) \cup (IF screen = "console" THEN ConsoleViews(p, overview) ELSE {})

\* The views mounted are those of the screen.
Standing == DOMAIN views = NamesOf(ScreenNow, path, views["overview"])

ChannelLists == {"spaces", "bindings"}

\* The channels the session's user may open, and those of his accounts: he has
\* joined them.
OpenTo(d, u) ==
  [v \in ChannelLists |->
     {s \in Spaces : u \in DOMAIN d.users /\ IF v = "spaces" THEN SpaceForActor(d, u, s) ELSE SpaceForUser(d, u, s)}]
Openable == OpenTo(db, session)

\* No channel is taken away.
Within(open, more) == \A v \in ChannelLists : open[v] \subseteq more[v]

ChannelViews == {"balances", "detail"}
BookFields == {"spaces", "permissions"}

\* The channels a page offers to manage: those of its books, or the one of its address.
Manageable(vs, p) ==
  IF "overview" \notin DOMAIN vs THEN {ChannelOf(p)}
  ELSE IF Loaded(vs["overview"]) THEN DOMAIN vs["overview"].content.spaces ELSE {}

RightView(v, w, vs, p, open) ==
  /\ v = "overview" => w.asked = Everything /\ (Loaded(w) => BookFields \subseteq DOMAIN w.content)
  /\ v \in ChannelLists => DOMAIN w.content \subseteq open[v]
  /\ v = "board" => w.asked \in {Everything} \cup open["spaces"]
  /\ v \in ChannelViews => w.asked \in {Nowhere} \cup Manageable(vs, p)

RightRead(r, vs, p, open) ==
  r.current /\ r.view \in DOMAIN vs =>
    /\ r.view = "overview" => vs["overview"].loading /\ (r.ok => BookFields \subseteq DOMAIN r.answer[2])
    /\ r.view \in ChannelLists /\ r.ok => DOMAIN r.answer[2] \subseteq open[r.view]
    /\ r.view \in ChannelViews => r.key \in Manageable(vs, p)

Right(vs, rs, p, open) ==
  /\ \A v \in DOMAIN vs : RightView(v, vs[v], vs, p, open)
  /\ \A r \in rs : RightRead(r, vs, p, open)

\* A read that is current has its view to go to.
Heard == \A r \in reads : r.current => r.view \in DOMAIN views

\* A request in flight; a channel that is joined exists.
IsSave(a) == "q" \in DOMAIN a /\ (a.q[1] = "join" => a.q[2] \in Spaces)

AnswersInv ==
  /\ IsDatabase(db)
  /\ session \in DOMAIN db.users \cup {NoUser}
  /\ \A a \in saves : IsSave(a)
  /\ Standing
  /\ Heard
  /\ Right(views, reads, path, Openable)

\* The overview is a view of the console alone, and a view of a section is one
\* there, once the books have been told.
LEMMA NamedViews ==
  ASSUME NEW screen, NEW p, NEW overview
  PROVE  /\ "overview" \in NamesOf(screen, p, overview) <=> screen = "console"
         /\ ConsoleViews(p, overview) \subseteq SectionViews
         /\ FirstViews("console") = {"overview"}
         /\ ConsoleViews(p, overview) # {} => Loaded(overview)
         /\ "balances" \in FirstViews(screen) => screen = "balances"
         /\ FirstViews(screen) \cap {"rankings", "detail"} = {}
<1>1. ConsoleViews(p, overview) \subseteq SectionViews
  BY DEF ConsoleViews, SectionViews
<1>2. "overview" \in FirstViews(screen) <=> screen = "console"
  BY DEF FirstViews
<1>. QED  BY <1>1, <1>2 DEF NamesOf, ConsoleViews, FirstViews, SectionViews

\* A component that appears asks for what it may ask for.
LEMMA MountedRight ==
  ASSUME NEW v, NEW p, NEW books, NEW sel, NEW vs, NEW open,
         v = "balances" => FirstBalances(p, books) \in {Nowhere} \cup Manageable(vs, p)
  PROVE  /\ RightView(v, Mounted(v, FirstKey(v, p, books), sel), vs, p, open)
         /\ v = "overview" => Mounted(v, FirstKey(v, p, books), sel) = Mounted("overview", Everything, sel)
<1>. DEFINE key == FirstKey(v, p, books)
            w == Mounted(v, key, sel)
<1>1. v \in {"overview", "board"} => key = Everything
  BY DEF FirstKey
<1>2. v = "detail" => key = Nowhere
  BY DEF FirstKey
<1>3. v = "balances" => key = FirstBalances(p, books)
  BY DEF FirstKey
<1>4. v \in ChannelLists => key = Everything
  BY DEF FirstKey, ChannelLists
<1>. HIDE DEF key
<1>5. w.asked = key /\ w.loading = (key # Nowhere /\ v # "about")
  BY DEF Mounted
<1>6. v \in ChannelLists => DOMAIN w.content = {}
  BY DEF Mounted, Blank, ChannelLists
<1>. HIDE DEF w
<1>7. RightView(v, w, vs, p, open)
  BY <1>1, <1>2, <1>3, <1>5, <1>6, KeysAssumption DEF RightView, ChannelViews, Loaded
<1>. QED  BY <1>1, <1>7 DEF w, key

\* App is rendered again: what stays is right for the address it is shown at
\* now, and what appears asks for what it may.
LEMMA ShowAnswers ==
  ASSUME NEW u, NEW p, NEW sel, NEW vs, NEW rs, NEW ss, NEW open,
         Show(u, p, sel, vs, rs, ss),
         \A r \in rs : IsRead(r),
         SamePage => /\ FirstViews(ScreenNow) \subseteq DOMAIN vs
                     /\ DOMAIN vs \subseteq NamesOf(ScreenNow, path, vs["overview"])
                     /\ Right(vs, rs, path', open)
  PROVE  Standing' /\ Heard' /\ Right(views', reads', path', open)
<1>. DEFINE same == SamePage
            section == SameSection
            screen == Screen(u, path', sel)
            Stay(v)  == StaysOn(v, same, section, vs)
            overview == IF Stay("overview") THEN vs["overview"] ELSE Mounted("overview", Everything, selected')
            New(v)   == Mounted(v, FirstKey(v, path', overview.content), selected')
            names == NamesOf(screen, path', overview)
            kept  == {r \in rs : Stay(r.view)}
            late  == {[r EXCEPT !.current = FALSE] : r \in {x \in rs \ kept : Matters(x)}}
            fresh == {Read(v, views'[v].asked) : v \in {w \in names : ~Stay(w) /\ views'[w].asked # Nowhere}}
<1>0. Remounts(screen, same, section, vs, rs, ss) /\ ScreenNow' = screen
  BY DEF Show, ScreenNow
<1>1. views' = [v \in names |-> IF Stay(v) THEN vs[v] ELSE New(v)]
  BY <1>0, Zenon DEF Remounts, StaysOn, NamesOf
<1>2. reads' = kept \cup late \cup fresh
  BY <1>0, Zenon DEF Remounts, StaysOn, NamesOf
<1>3. same => /\ screen = ScreenNow
              /\ FirstViews(screen) \subseteq DOMAIN vs
              /\ DOMAIN vs \subseteq NamesOf(screen, path, vs["overview"])
              /\ Right(vs, rs, path', open)
  BY <1>0 DEF SamePage, ScreenNow
<1>4. section => same /\ SectionOf(path') = SectionOf(path)
  BY DEF SameSection
<1>. HIDE DEF same, section, screen, New, names, late
<1>5. "overview" \notin SectionViews
  BY DEF SectionViews
<1>6. same /\ screen = "console" => Stay("overview") /\ overview = vs["overview"]
  BY <1>3, <1>5, NamedViews DEF StaysOn
<1>7. ASSUME NEW v, Stay(v)  PROVE same /\ v \in DOMAIN vs /\ v \in names
  <2>1. same /\ v \in DOMAIN vs /\ (v \in SectionViews => section)
    BY <1>4, <1>7 DEF StaysOn
  <2>2. CASE v \in FirstViews(screen)
    BY <2>1, <2>2 DEF names, NamesOf
  <2>3. CASE v \notin FirstViews(screen)
    <3>1. screen = "console" /\ v \in ConsoleViews(path, vs["overview"])
      BY <2>1, <2>3, <1>3 DEF NamesOf
    <3>2. SectionOf(path') = SectionOf(path)
      BY <2>1, <3>1, <1>4, NamedViews
    <3>3. ConsoleViews(path', vs["overview"]) = ConsoleViews(path, vs["overview"])
      BY <3>2 DEF ConsoleViews, SectionOf
    <3>. QED  BY <2>1, <3>1, <3>3, <1>6 DEF names, NamesOf
  <2>. QED  BY <2>1, <2>2, <2>3
<1>8. "overview" \in names <=> screen = "console"
  BY NamedViews DEF names
<1>9. "overview" \in names => views'["overview"] = overview
  BY <1>1, MountedRight DEF New
<1>10. Standing'
  BY <1>0, <1>1, <1>8, <1>9 DEF Standing, names, NamesOf
<1>11. same => Manageable(vs, path') = Manageable(views', path')
  <2>1. CASE screen = "console"
    BY <2>1, <1>1, <1>3, <1>6, <1>8, <1>9, NamedViews DEF Manageable
  <2>2. CASE screen # "console"
    BY <2>2, <1>1, <1>3, <1>8, NamedViews DEF Manageable
  <2>. QED  BY <2>1, <2>2
<1>12. ASSUME "balances" \in names
       PROVE  FirstBalances(path', overview.content) \in {Nowhere} \cup Manageable(views', path')
  <2>1. CASE screen = "balances"
    <3>1. ParseRoute(path').page = "channel_balances"
      BY <2>1 DEF screen, Screen, ScreenAt
    <3>. QED  BY <2>1, <3>1, <1>1, <1>8 DEF FirstBalances, Manageable, ChannelOf
  <2>2. CASE screen # "balances"
    <3>1. screen = "console" /\ Loaded(overview)
      BY <2>2, <1>12, NamedViews DEF names, NamesOf
    <3>2. ParseRoute(path').page # "channel_balances"
      BY <3>1 DEF screen, Screen, ScreenAt
    <3>. QED  BY <3>1, <3>2, <1>1, <1>8, <1>9 DEF FirstBalances, Manageable
  <2>. QED  BY <2>1, <2>2
<1>13. ASSUME NEW v \in names  PROVE RightView(v, views'[v], views', path', open)
  <2>1. CASE Stay(v)
    <3>1. same /\ v \in DOMAIN vs /\ views'[v] = vs[v]
      BY <2>1, <1>1, <1>7
    <3>2. RightView(v, vs[v], vs, path', open)
      BY <3>1, <1>3 DEF Right
    <3>. QED  BY <3>1, <3>2, <1>11 DEF RightView
  <2>2. CASE ~Stay(v)
    <3>1. views'[v] = New(v)
      BY <2>2, <1>1
    <3>. QED  BY <3>1, <1>12, MountedRight DEF New
  <2>. QED  BY <2>1, <2>2
<1>14. ASSUME NEW r \in kept  PROVE RightRead(r, views', path', open) /\ r.view \in DOMAIN views'
  <2>1. same /\ r \in rs /\ r.view \in DOMAIN vs /\ r.view \in names /\ views'[r.view] = vs[r.view]
    BY <1>1, <1>7
  <2>2. RightRead(r, vs, path', open)
    BY <2>1, <1>3 DEF Right
  <2>. QED  BY <2>1, <2>2, <1>1, <1>11 DEF RightRead
<1>15. ASSUME NEW r \in late  PROVE ~r.current
  <2>1. PICK x \in rs : r = [x EXCEPT !.current = FALSE]
    BY DEF late
  <2>. QED  BY <2>1, LateRead
<1>16. ASSUME NEW r \in fresh  PROVE RightRead(r, views', path', open) /\ r.view \in DOMAIN views'
  <2>1. PICK v \in names : r = Read(v, views'[v].asked) /\ ~Stay(v) /\ views'[v].asked # Nowhere
    OBVIOUS
  <2>2. r.view = v /\ r.key = views'[v].asked /\ ~r.ok
    BY <2>1 DEF Read
  <2>3. RightView(v, views'[v], views', path', open)
    BY <1>13
  <2>4. v = "overview" => views'["overview"] = Mounted("overview", Everything, selected')
    BY <2>1, <1>9
  <2>5. Mounted("overview", Everything, selected').loading
    BY KeysAssumption DEF Mounted
  <2>. QED  BY <2>1, <2>2, <2>3, <2>4, <2>5, <1>1 DEF RightRead, RightView
<1>17. Heard'
  BY <1>2, <1>14, <1>15, <1>16 DEF Heard
<1>18. Right(views', reads', path', open)
  BY <1>1, <1>2, <1>13, <1>14, <1>15, <1>16 DEF Right, RightRead
<1>. QED  BY <1>10, <1>17, <1>18

-----------------------------------------------------------------------------
(* What leaves them right *)

\* Nothing is said of a page without lists of channels or the console.
LEMMA NothingWrong ==
  ASSUME NEW vs, NEW rs, NEW p, NEW open,
         DOMAIN vs \cap (ChannelLists \cup ChannelViews \cup {"overview", "board"}) = {}
  PROVE  Right(vs, rs, p, open)
<1>1. \A v \in DOMAIN vs : RightView(v, vs[v], vs, p, open)
  BY DEF RightView
<1>2. \A r \in rs : RightRead(r, vs, p, open)
  BY DEF RightRead
<1>. QED  BY <1>1, <1>2 DEF Right

\* More channels may be opened than before.
LEMMA MoreOpen ==
  ASSUME NEW vs, NEW rs, NEW p, NEW open, NEW more, Right(vs, rs, p, open), Within(open, more)
  PROVE  Right(vs, rs, p, more)
<1>1. \A v \in DOMAIN vs : RightView(v, vs[v], vs, p, more)
  BY DEF Right, RightView, Within, ChannelLists
<1>2. \A r \in rs : RightRead(r, vs, p, more)
  BY DEF Right, RightRead, Within
<1>. QED  BY <1>1, <1>2 DEF Right

\* At an address that leads to the same channels what is right stays right.
LEMMA RightElsewhere ==
  ASSUME NEW vs, NEW rs, NEW p, NEW q, NEW open, Right(vs, rs, p, open),
         DOMAIN vs \cap ChannelViews # {} => Manageable(vs, p) = Manageable(vs, q)
  PROVE  Right(vs, rs, q, open)
<1>1. \A v \in DOMAIN vs : RightView(v, vs[v], vs, q, open)
  BY DEF Right, RightView
<1>2. \A r \in rs : RightRead(r, vs, q, open)
  BY DEF Right, RightRead
<1>. QED  BY <1>1, <1>2 DEF Right

\* The books are edited, but not the rights and the channels they tell of.
SameBooks(c, c2) ==
  BookFields \subseteq DOMAIN c =>
    BookFields \subseteq DOMAIN c2 /\ c2.permissions = c.permissions /\ DOMAIN c2.spaces = DOMAIN c.spaces

Edited(v, w, w2) ==
  /\ w2.asked = w.asked /\ w2.loading = w.loading /\ w2.failed = w.failed
  /\ v = "overview" => SameBooks(w.content, w2.content)
  /\ v \in ChannelLists => DOMAIN w2.content \subseteq DOMAIN w.content

Edits(vs, vs2) == DOMAIN vs2 = DOMAIN vs /\ \A v \in DOMAIN vs : Edited(v, vs[v], vs2[v])

\* The books of the console are edited in place only in what does not tell who
\* may do what, and where.
LEMMA EditedBooks ==
  ASSUME NEW vs, NEW rs, NEW p, NEW open, NEW vs2, Right(vs, rs, p, open), Edits(vs, vs2),
         "overview" \in DOMAIN vs
  PROVE  /\ Loaded(vs2["overview"]) <=> Loaded(vs["overview"])
         /\ Loaded(vs["overview"]) =>
              /\ BookFields \subseteq DOMAIN vs2["overview"].content
              /\ vs2["overview"].content.permissions = vs["overview"].content.permissions
              /\ DOMAIN vs2["overview"].content.spaces = DOMAIN vs["overview"].content.spaces
<1>1. Edited("overview", vs["overview"], vs2["overview"]) /\ RightView("overview", vs["overview"], vs, p, open)
  BY DEF Edits, Right
<1>. QED  BY <1>1 DEF Edited, Loaded, SameBooks, RightView

\* What is edited in place stays right.
LEMMA EditsRight ==
  ASSUME NEW vs, NEW rs, NEW p, NEW open, NEW vs2, Right(vs, rs, p, open), Edits(vs, vs2)
  PROVE  Right(vs2, rs, p, open) /\ DOMAIN vs2 = DOMAIN vs
<1>1. DOMAIN vs2 = DOMAIN vs /\ \A v \in DOMAIN vs : Edited(v, vs[v], vs2[v]) /\ RightView(v, vs[v], vs, p, open)
  BY DEF Edits, Right
<1>2. Manageable(vs2, p) = Manageable(vs, p)
  BY <1>1, EditedBooks DEF Manageable
<1>3. ASSUME NEW v \in DOMAIN vs2  PROVE RightView(v, vs2[v], vs2, p, open)
  <2>1. Edited(v, vs[v], vs2[v]) /\ RightView(v, vs[v], vs, p, open)
    BY <1>1
  <2>2. v = "overview" /\ Loaded(vs2[v]) => BookFields \subseteq DOMAIN vs2[v].content
    BY <1>1, EditedBooks
  <2>. QED  BY <2>1, <2>2, <1>2 DEF RightView, Edited
<1>4. ASSUME NEW r \in rs  PROVE RightRead(r, vs2, p, open)
  <2>1. RightRead(r, vs, p, open)
    BY DEF Right
  <2>. QED  BY <2>1, <1>1, <1>2 DEF RightRead, Edited
<1>. QED  BY <1>1, <1>3, <1>4 DEF Right

\* The same views stay on the screen that is shown.
LEMMA EditsStand ==
  ASSUME Standing, NEW vs, NEW open, Right(views, reads, path, open), Edits(views, vs)
  PROVE  DOMAIN vs = NamesOf(ScreenNow, path, vs["overview"]) /\ DOMAIN vs = DOMAIN views
<1>1. DOMAIN vs = DOMAIN views
  BY DEF Edits
<1>2. CASE ScreenNow # "console"
  BY <1>1, <1>2 DEF Standing, NamesOf
<1>3. CASE ScreenNow = "console"
  <2>1. "overview" \in DOMAIN views
    BY <1>3, NamedViews DEF Standing
  <2>. DEFINE old == views["overview"]
              new == vs["overview"]
  <2>2. /\ Loaded(new) <=> Loaded(old)
        /\ Loaded(old) => new.content.permissions = old.content.permissions
    BY <2>1, EditedBooks
  <2>. HIDE DEF old, new
  <2>3. \A section : Loaded(old) => (SectionAllowed(new.content, section) <=> SectionAllowed(old.content, section))
    BY <2>2 DEF SectionAllowed
  <2>4. ConsoleViews(path, new) = ConsoleViews(path, old)
    BY <2>2, <2>3 DEF ConsoleViews
  <2>5. DOMAIN views = NamesOf(ScreenNow, path, old)
    BY DEF Standing, old
  <2>6. NamesOf(ScreenNow, path, old) = NamesOf(ScreenNow, path, new)
    BY <2>4 DEF NamesOf
  <2>. QED  BY <1>1, <2>5, <2>6 DEF new
<1>. QED  BY <1>2, <1>3

\* What is held for out of date, and what is replaced in a view that is not a
\* list of channels or the books, is such an edit.
LEMMA EditsMade ==
  ASSUME NEW vs, \A v \in DOMAIN vs : IsView(vs[v])
  PROVE  /\ Edits(vs, vs)
         /\ Edits(vs, Soiled(vs))
         /\ \A n, x : (n \in DOMAIN vs => Edited(n, vs[n], [vs[n] EXCEPT !.content = x])) =>
              Edits(vs, [vs EXCEPT ![n].content = x])
         /\ \A n, x : n \notin ChannelLists /\ (n = "overview" => SameBooks(vs[n].content, x)) =>
              Edits(vs, [vs EXCEPT ![n].content = x])
<1>1. \A v, w : Edited(v, w, w)
  BY DEF Edited, SameBooks
<1>2. ASSUME NEW v, NEW w, IsView(w)  PROVE Edited(v, w, [w EXCEPT !.clean = FALSE])
  BY <1>2 DEF Edited, SameBooks, IsView, HasFields, ViewFields
<1>3. DOMAIN Soiled(vs) = DOMAIN vs /\ \A v \in DOMAIN vs : Soiled(vs)[v] = [vs[v] EXCEPT !.clean = FALSE]
  BY Zenon DEF Soiled
<1>4. Edits(vs, Soiled(vs))
  <2>1. ASSUME NEW v \in DOMAIN vs  PROVE Edited(v, vs[v], Soiled(vs)[v])
    <3>. DEFINE w == vs[v]
    <3>1. Edited(v, w, [w EXCEPT !.clean = FALSE])
      BY <1>2
    <3>. QED  BY <3>1, <1>3
  <2>. QED  BY <2>1, <1>3 DEF Edits
<1>5. ASSUME NEW n, NEW x, n \in DOMAIN vs => Edited(n, vs[n], [vs[n] EXCEPT !.content = x])
      PROVE  Edits(vs, [vs EXCEPT ![n].content = x])
  <2>. DEFINE vs2 == [vs EXCEPT ![n].content = x]
  <2>1. DOMAIN vs2 = DOMAIN vs /\ \A v \in DOMAIN vs : vs2[v] = IF v = n THEN [vs[v] EXCEPT !.content = x] ELSE vs[v]
    OBVIOUS
  <2>. HIDE DEF vs2
  <2>2. ASSUME NEW v \in DOMAIN vs  PROVE Edited(v, vs[v], vs2[v])
    <3>1. CASE v = n
      BY <3>1, <1>5, <2>1
    <3>2. CASE v # n
      BY <3>2, <1>1, <2>1
    <3>. QED  BY <3>1, <3>2
  <2>3. Edits(vs, vs2)
    BY <2>1, <2>2 DEF Edits
  <2>. QED  BY <2>3 DEF vs2
<1>6. ASSUME NEW n, NEW x, n \notin ChannelLists, n = "overview" => SameBooks(vs[n].content, x)
      PROVE  Edits(vs, [vs EXCEPT ![n].content = x])
  <2>1. ASSUME NEW w, IsView(w), n = "overview" => SameBooks(w.content, x)
        PROVE  Edited(n, w, [w EXCEPT !.content = x])
    BY <2>1, <1>6 DEF Edited, IsView, HasFields, ViewFields
  <2>2. n \in DOMAIN vs => Edited(n, vs[n], [vs[n] EXCEPT !.content = x])
    <3>. DEFINE w == vs[n]
    <3>1. n \in DOMAIN vs => IsView(w)
      OBVIOUS
    <3>2. n = "overview" => SameBooks(w.content, x)
      BY <1>6
    <3>. QED  BY <3>1, <3>2, <2>1
  <2>. QED  BY <2>2, <1>5
<1>. QED  BY <1>1, <1>4, <1>5, <1>6 DEF Edits

\* One edit after another.
LEMMA EditsTwice ==
  ASSUME NEW vs, NEW vs2, NEW vs3, Edits(vs, vs2), Edits(vs2, vs3)
  PROVE  Edits(vs, vs3)
<1>1. \A v \in DOMAIN vs : Edited(v, vs[v], vs2[v]) /\ Edited(v, vs2[v], vs3[v])
  BY DEF Edits
<1>2. \A v \in DOMAIN vs : Edited(v, vs[v], vs3[v])
  BY <1>1 DEF Edited, SameBooks
<1>. QED  BY <1>2 DEF Edits

\* App is rendered again, the page that is shown being right: it is not the
\* balances of one channel that stay for another.
LEMMA ShowRightly ==
  ASSUME NEW u, NEW p, NEW sel, NEW vs, NEW rs, NEW ss, NEW open,
         Show(u, p, sel, vs, rs, ss),
         \A r \in rs : IsRead(r),
         Standing, DOMAIN vs = DOMAIN views,
         DOMAIN vs \subseteq NamesOf(ScreenNow, path, vs["overview"]),
         Right(vs, rs, path, open),
         sel = selected \/ ScreenNow # "balances" \/ ParseRoute(path').page = "channel"
  PROVE  Standing' /\ Heard' /\ Right(views', reads', path', open)
<1>1. FirstViews(ScreenNow) \subseteq DOMAIN vs
  BY DEF Standing, NamesOf
<1>2. ASSUME SamePage  PROVE Right(vs, rs, path', open)
  <2>1. CASE ScreenNow = "console"
    <3>1. "overview" \in DOMAIN vs
      BY <2>1, <1>1, NamedViews
    <3>2. Manageable(vs, path) = Manageable(vs, path')
      BY <3>1 DEF Manageable
    <3>. QED  BY <3>2, RightElsewhere
  <2>2. CASE ScreenNow = "balances"
    <3>1. Screen(user, path, selected) = "balances" /\ Screen(user', path', selected') = "balances" /\ selected' = sel
      BY <2>2, <1>2 DEF SamePage, ScreenNow, Show
    <3>2. \A x, q, y : Screen(x, q, y) = "balances" => ParseRoute(q).page = "channel_balances" /\ y.id = ChannelOf(q)
      BY DEF Screen, ScreenAt, ChannelPages, ChannelOf
    <3>3. ChannelOf(path) = ChannelOf(path')
      BY <3>1, <3>2, <2>2
    <3>4. Manageable(vs, path) = Manageable(vs, path')
      BY <3>3 DEF Manageable
    <3>. QED  BY <3>4, RightElsewhere
  <2>3. CASE ScreenNow \notin {"console", "balances"}
    <3>1. DOMAIN vs \cap ChannelViews = {}
      BY <2>3, NamedViews DEF NamesOf, ChannelViews
    <3>. QED  BY <3>1, RightElsewhere
  <2>. QED  BY <2>1, <2>2, <2>3
<1>. QED  BY <1>1, <1>2, ShowAnswers

\* The same after an edit.
LEMMA ShowEdits ==
  ASSUME NEW u, NEW p, NEW sel, NEW vs, NEW ss, NEW open,
         Show(u, p, sel, vs, reads, ss),
         PagesInv, Standing, Right(views, reads, path, open), Edits(views, vs),
         sel = selected \/ ScreenNow # "balances" \/ ParseRoute(path').page = "channel"
  PROVE  Standing' /\ Heard' /\ Right(views', reads', path', open)
<1>1. \A r \in reads : IsRead(r)
  BY DEF PagesInv, Tidy, TidyRead
<1>2. Right(vs, reads, path, open) /\ DOMAIN vs = DOMAIN views
  BY EditsRight DEF Edits
<1>3. DOMAIN vs \subseteq NamesOf(ScreenNow, path, vs["overview"])
  BY EditsStand
<1>. QED  BY <1>1, <1>2, <1>3, ShowRightly

\* The requests in flight stay what they are.
LEMMA ShowSaves ==
  ASSUME NEW u, NEW p, NEW sel, NEW vs, NEW rs, NEW ss,
         Show(u, p, sel, vs, rs, ss), \A a \in ss : IsSave(a)
  PROVE  \A a \in saves' : IsSave(a)
<1>1. \A a, x, y : IsSave(a) => IsSave([a EXCEPT !.mine = x, !.held = y])
  BY DEF IsSave
<1>2. saves' = {[a EXCEPT !.mine = a.mine /\ SamePage, !.held = a.held /\ SameSection] : a \in ss}
  BY Zenon DEF Show, Remounts
<1>3. ASSUME NEW a \in saves'  PROVE IsSave(a)
  <2>1. PICK b \in ss : a = [b EXCEPT !.mine = b.mine /\ SamePage, !.held = b.held /\ SameSection]
    BY <1>2
  <2>. DEFINE x == b.mine /\ SamePage
              y == b.held /\ SameSection
  <2>2. a = [b EXCEPT !.mine = x, !.held = y] /\ IsSave(b)
    BY <2>1
  <2>. HIDE DEF x, y
  <2>. QED  BY <2>2, <1>1
<1>. QED  BY <1>3

\* App leaves the page, or has none to leave.
LEMMA ShowAfresh ==
  ASSUME NEW u, NEW p, NEW sel, NEW rs, NEW ss, NEW open,
         Show(u, p, sel, views, rs, ss),
         \A r \in rs : IsRead(r),
         Standing, SamePage => ScreenNow \in {"wait", "auth", "admin_auth"}
  PROVE  Standing' /\ Heard' /\ Right(views', reads', path', open)
<1>1. SamePage => FirstViews(ScreenNow) = {} /\ DOMAIN views = {}
  BY DEF Standing, NamesOf, FirstViews
<1>2. SamePage => Right(views, rs, path', open)
  BY <1>1, NothingWrong
<1>. QED  BY <1>1, <1>2, ShowAnswers

\* An answer that arrives: the lists it fills hold channels that may be opened,
\* and the books, which are loaded once, come before anything of a section is
\* shown.
LEMMA LandRight ==
  ASSUME PagesInv, Standing, NEW open, Right(views, reads, path, open), NEW r \in reads
  PROVE  /\ Right(Shown(r), reads \ {r}, path, open) /\ DOMAIN Shown(r) = DOMAIN views
         /\ DOMAIN Shown(r) \subseteq NamesOf(ScreenNow, path, Shown(r)["overview"])
<1>. DEFINE rs == reads \ {r}
            lands == r.view \in DOMAIN views /\ r.current
            vs == Shown(r)
            n == r.view
            w == views[n]
            w2 == Landed(w, r)
<1>1. Right(views, rs, path, open) /\ RightRead(r, views, path, open)
  BY DEF Right
<1>2. CASE ~lands
  <2>1. vs = views
    BY <1>2 DEF Shown, Accepts
  <2>. QED  BY <2>1, <1>1 DEF Standing
<1>3. CASE lands
  <2>1. vs = [views EXCEPT ![n] = w2] /\ DOMAIN vs = DOMAIN views
    BY <1>3 DEF Shown, Accepts
  <2>2. IsView(w) /\ IsRead(r)
    BY <1>3 DEF PagesInv, Tidy, TidyView, TidyRead
  <2>3. RightView(n, w, views, path, open)
    BY <1>1, <1>3 DEF Right
  <2>4. /\ n \notin RoomViews => w2.asked = w.asked
        /\ ~r.ok => w2.content = w.content /\ (n # "about" => ~Loaded(w2))
        /\ r.ok /\ n # "space" => w2.content = r.answer[2]
    BY <2>2 DEF Landed, IsView, HasFields, ViewFields, RoomViews, Loaded, IsRead
  <2>5. /\ n = "overview" => w2.asked = Everything /\ (Loaded(w2) => BookFields \subseteq DOMAIN w2.content)
        /\ n \in ChannelLists => DOMAIN w2.content \subseteq open[n]
        /\ n = "board" => w2.asked \in {Everything} \cup open["spaces"]
        /\ n \in ChannelViews => w2.asked \in {Nowhere} \cup Manageable(views, path)
    BY <2>2, <2>3, <2>4, <1>1, <1>3 DEF RightRead, RightView, IsRead, RoomViews, ChannelLists, ChannelViews
  <2>. HIDE DEF w2, vs, w
  <2>6. CASE n = "overview"
    <3>1. ScreenNow = "console" /\ ~Loaded(views["overview"])
      BY <2>6, <1>1, <1>3, NamedViews DEF Standing, RightRead, Loaded
    <3>2. DOMAIN views = {"overview"}
      BY <3>1, NamedViews DEF Standing, NamesOf, ConsoleViews
    <3>3. DOMAIN vs \subseteq NamesOf(ScreenNow, path, vs["overview"])
      BY <2>1, <3>1, <3>2, NamedViews
    <3>4. \A v \in DOMAIN vs : RightView(v, vs[v], vs, path, open)
      BY <2>1, <2>5, <2>6, <3>2 DEF RightView, ChannelLists, ChannelViews
    <3>5. \A s \in rs : ~(s.current /\ s.view = "overview")
      BY <2>6, <1>3 DEF PagesInv, Tidy, OneCurrent
    <3>6. \A s \in rs : RightRead(s, vs, path, open)
      BY <2>1, <3>2, <3>5 DEF RightRead
    <3>. QED  BY <2>1, <3>3, <3>4, <3>6 DEF Right, vs
  <2>7. CASE n # "overview"
    <3>1. vs["overview"] = views["overview"]
      BY <2>1, <2>7
    <3>2. Manageable(vs, path) = Manageable(views, path)
      BY <2>1, <3>1 DEF Manageable
    <3>3. ASSUME NEW v \in DOMAIN vs  PROVE RightView(v, vs[v], vs, path, open)
      <4>1. CASE v = n
        BY <4>1, <2>1, <2>5, <2>7, <3>2 DEF RightView
      <4>2. CASE v # n
        <5>1. vs[v] = views[v] /\ RightView(v, views[v], views, path, open)
          BY <4>2, <2>1, <1>1 DEF Right
        <5>. QED  BY <5>1, <3>2 DEF RightView
      <4>. QED  BY <4>1, <4>2
    <3>4. ASSUME NEW s \in rs  PROVE RightRead(s, vs, path, open)
      <4>1. RightRead(s, views, path, open)
        BY <1>1 DEF Right
      <4>. QED  BY <4>1, <2>1, <3>1, <3>2 DEF RightRead
    <3>. QED  BY <2>1, <3>1, <3>3, <3>4 DEF Right, Standing, vs
  <2>. QED  BY <2>6, <2>7
<1>. QED  BY <1>2, <1>3

\* A view asks for what it may ask for, and waits for that alone.
LEMMA AskRight ==
  ASSUME NEW vs, NEW rs, NEW p, NEW open, NEW v \in ViewNames \ (ChannelLists \cup {"overview"}), NEW w, NEW key,
         Right(vs, rs, p, open), \A r \in rs : IsRead(r),
         v \in DOMAIN vs => w.asked = key,
         v = "board" => key \in {Everything} \cup open["spaces"],
         v \in ChannelViews => key \in Manageable(vs, p)
  PROVE  Right([vs EXCEPT ![v] = w], Superseded(v, rs) \cup {Read(v, key)}, p, open)
<1>. DEFINE vs2 == [vs EXCEPT ![v] = w]
            rs2 == Superseded(v, rs) \cup {Read(v, key)}
            new == Read(v, key)
<1>1. DOMAIN vs2 = DOMAIN vs /\ \A x \in DOMAIN vs : vs2[x] = IF x = v THEN w ELSE vs[x]
  OBVIOUS
<1>2. \A s \in rs2 : s = new \/ s \in Superseded(v, rs)
  OBVIOUS
<1>3. new.view = v /\ new.key = key
  BY NewRead
<1>4. \A s \in Superseded(v, rs) : (s.view = v => ~s.current) /\ (s.view # v => s \in rs)
  BY SupersededReads
<1>. HIDE DEF vs2, rs2, new
<1>5. Manageable(vs2, p) = Manageable(vs, p)
  BY <1>1 DEF Manageable
<1>6. ASSUME NEW x \in DOMAIN vs2  PROVE RightView(x, vs2[x], vs2, p, open)
  <2>1. CASE x = v
    BY <2>1, <1>1, <1>5 DEF RightView
  <2>2. CASE x # v
    <3>1. RightView(x, vs[x], vs, p, open) /\ vs2[x] = vs[x]
      BY <2>2, <1>1 DEF Right
    <3>. QED  BY <3>1, <1>5 DEF RightView
  <2>. QED  BY <2>1, <2>2
<1>7. ASSUME NEW s \in rs2  PROVE RightRead(s, vs2, p, open)
  <2>1. CASE s.view = v
    BY <2>1, <1>2, <1>3, <1>4, <1>5 DEF RightRead
  <2>2. CASE s.view # v
    <3>1. s \in rs
      BY <2>2, <1>2, <1>3, <1>4
    <3>2. RightRead(s, vs, p, open)
      BY <3>1 DEF Right
    <3>. QED  BY <2>2, <3>2, <1>1, <1>5 DEF RightRead
  <2>. QED  BY <2>1, <2>2
<1>8. Right(vs2, rs2, p, open)
  BY <1>6, <1>7 DEF Right
<1>. QED  BY <1>8 DEF vs2, rs2

\* The view that asks next is there: so is its read's.
LEMMA AskHeard ==
  ASSUME NEW v \in ViewNames, NEW key, Heard, v \in DOMAIN views, \A r \in reads : IsRead(r),
         DOMAIN views' = DOMAIN views, reads' = Superseded(v, reads) \cup {Read(v, key)}
  PROVE  Heard'
<1>1. Read(v, key).view = v
  BY NewRead
<1>2. \A s \in Superseded(v, reads) : (s.view = v => ~s.current) /\ (s.view # v => s \in reads)
  BY SupersededReads
<1>. QED  BY <1>1, <1>2 DEF Heard

-----------------------------------------------------------------------------
(* Every step leaves them right *)

\* A step that changes neither the session nor the database, and no request.
Quiet == UNCHANGED <<session, db>> /\ \A a \in saves' : IsSave(a)

\* Such a step has only to leave the pages right.
LEMMA QuietStep ==
  ASSUME AnswersInv, Quiet, Standing' /\ Heard' /\ Right(views', reads', path', Openable)
  PROVE  AnswersInv'
BY DEF AnswersInv, Quiet, Openable

\* A component asks anew.
LEMMA AskAnswers ==
  ASSUME PagesInv, AnswersInv, NEW v \in ViewNames \ (ChannelLists \cup {"overview"}), NEW w,
         v \in DOMAIN views, IsView(w), Asks(v, w),
         v = "board" => w.asked \in {Everything} \cup Openable["spaces"],
         v \in ChannelViews => w.asked \in Manageable(views, path)
  PROVE  AnswersInv'
<1>. DEFINE w2 == Asked(w, w.asked)
<1>1. w2.asked = w.asked
  BY DEF Asked, IsView, HasFields, ViewFields
<1>2. \A r \in reads : IsRead(r)
  BY DEF PagesInv, Tidy, TidyRead
<1>3. views' = [views EXCEPT ![v] = w2] /\ reads' = Superseded(v, reads) \cup {Read(v, w.asked)}
      /\ UNCHANGED <<pageVars, session, saves, db>>
  BY DEF Asks
<1>. HIDE DEF w2
<1>4. Right(views', reads', path, Openable)
  BY <1>1, <1>2, <1>3, AskRight DEF AnswersInv
<1>5. DOMAIN views' = DOMAIN views /\ views'["overview"] = views["overview"]
  BY <1>3
<1>6. Standing' /\ Heard'
  BY <1>2, <1>3, <1>5, AskHeard DEF AnswersInv, Standing, pageVars, ScreenNow
<1>. QED  BY <1>3, <1>4, <1>6, QuietStep DEF Quiet, AnswersInv, pageVars

\* What a page's choices, refreshes and pages of records ask for.
LEMMA ChoiceAnswers ==
  ASSUME PagesInv, AnswersInv,
         ChooseBoard \/ TurnHands \/ TurnFunds \/ ScopeRankings \/ PickBalances \/ RefreshBalances
           \/ RefreshSheet \/ OpenKeys
  PROVE  AnswersInv'
<1>1. \A v \in DOMAIN views : IsView(views[v])
  BY DEF PagesInv, Tidy, TidyView
<1>2. \A w, key : IsView(w) => /\ IsView([w EXCEPT !.asked = key]) /\ [w EXCEPT !.asked = key].asked = key
                               /\ IsView([w EXCEPT !.asked = key, !.shown = Nowhere])
                               /\ [w EXCEPT !.asked = key, !.shown = Nowhere].asked = key
  BY ZenonT(60) DEF IsView, HasFields, ViewFields
<1>3. ASSUME NEW v \in ViewNames \ (ChannelLists \cup ChannelViews \cup {"overview"}), NEW key, v \in DOMAIN views,
             AsksFor(v, key), v = "board" => key \in {Everything} \cup Openable["spaces"]
      PROVE  AnswersInv'
  <2>. DEFINE w == views[v]
              w2 == [w EXCEPT !.asked = key]
  <2>1. IsView(w2) /\ w2.asked = key /\ Asks(v, w2)
    BY <1>1, <1>2, <1>3 DEF AsksFor
  <2>. HIDE DEF w, w2
  <2>. QED  BY <1>3, <2>1, AskAnswers
<1>4. CASE ChooseBoard
  <2>1. "board" \in DOMAIN views /\ "spaces" \in DOMAIN views
    BY <1>4 DEF ChooseBoard, AnswersInv, Standing, NamesOf, FirstViews
  <2>2. DOMAIN views["spaces"].content \subseteq Openable["spaces"]
    BY <2>1 DEF AnswersInv, Right, RightView, ChannelLists
  <2>. QED  BY <1>3, <1>4, <2>1, <2>2 DEF ChooseBoard, ChannelRankingFilter, ViewNames, ChannelLists, ChannelViews
<1>5. CASE TurnHands \/ TurnFunds
  <2>1. {"hands", "funds"} \subseteq DOMAIN views
    BY <1>5 DEF TurnHands, TurnFunds, AnswersInv, Standing, NamesOf, FirstViews
  <2>. QED  BY <1>3, <1>5, <2>1 DEF TurnHands, TurnFunds, ViewNames, ChannelLists, ChannelViews
<1>6. CASE ScopeRankings
  BY <1>3, <1>6 DEF ScopeRankings, ViewNames, ChannelLists, ChannelViews
<1>7. CASE OpenKeys
  <2>1. "keys" \in DOMAIN views
    BY <1>7 DEF OpenKeys, AnswersInv, Standing, NamesOf, FirstViews
  <2>. QED  BY <1>3, <1>7, <2>1 DEF OpenKeys, ViewNames, ChannelLists, ChannelViews
<1>8. CASE PickBalances
  <2>1. PICK s \in DOMAIN views["overview"].content.spaces :
          Asks("balances", [views["balances"] EXCEPT !.asked = s, !.shown = Nowhere])
    BY <1>8 DEF PickBalances, ChannelDirectory
  <2>2. "overview" \in DOMAIN views /\ "balances" \in DOMAIN views
    BY <1>8 DEF PickBalances
  <2>3. ScreenNow = "console"
    BY <2>2, NamedViews DEF AnswersInv, Standing
  <2>4. Loaded(views["overview"])
    BY <2>2, <2>3, NamedViews DEF AnswersInv, Standing, NamesOf
  <2>5. s \in Manageable(views, path)
    BY <2>1, <2>2, <2>4 DEF Manageable
  <2>. DEFINE w == views["balances"]
              w2 == [w EXCEPT !.asked = s, !.shown = Nowhere]
  <2>6. IsView(w2) /\ w2.asked = s
    BY <1>1, <1>2, <2>2
  <2>. HIDE DEF w, w2
  <2>7. Asks("balances", w2)
    BY <2>1 DEF w, w2
  <2>. QED  BY <2>2, <2>5, <2>6, <2>7, AskAnswers DEF ViewNames, ChannelLists
<1>9. CASE RefreshBalances \/ RefreshSheet
  <2>1. PICK v \in ChannelViews : Asks(v, views[v]) /\ v \in DOMAIN views /\ views[v].asked # Nowhere
    BY <1>9 DEF RefreshBalances, RefreshSheet, ChannelViews
  <2>2. views[v].asked \in Manageable(views, path) /\ IsView(views[v])
    BY <1>1, <2>1 DEF AnswersInv, Right, RightView
  <2>. QED  BY <2>1, <2>2, AskAnswers DEF ViewNames, ChannelLists, ChannelViews
<1>. QED  BY <1>4, <1>5, <1>6, <1>7, <1>8, <1>9

\* The sheet of a channel of the books opens.
LEMMA OpenSheetAnswers ==
  ASSUME PagesInv, AnswersInv, NEW s, {"overview", "detail"} \subseteq DOMAIN views,
         s \in ChannelDirectory(views["overview"].content), OpenSheet(s)
  PROVE  AnswersInv'
<1>. DEFINE late == \E a \in saves : a.q[1] \in {"connection", "table_delete"}
            vs == IF late THEN Soiled(views) ELSE views
            count == vs["overview"].content.spaces[s]
            old == vs["detail"]
            w == [Asked(old, s) EXCEPT !.count = count]
<1>1. views' = [vs EXCEPT !["detail"] = w] /\ reads' = Superseded("detail", reads) \cup {Read("detail", s)}
      /\ UNCHANGED <<pageVars, session, saves, db>>
  BY Zenon DEF OpenSheet
<1>2. \A v \in DOMAIN views : IsView(views[v])
  BY DEF PagesInv, Tidy, TidyView
<1>3. \A r \in reads : IsRead(r)
  BY DEF PagesInv, Tidy, TidyRead
<1>4. Edits(views, vs) /\ DOMAIN vs = DOMAIN views
  BY <1>2, EditsMade DEF Edits
<1>5. IsView(old)
  <2>1. Tidy(vs, reads, ChannelOf(path))
    BY SoiledTidy DEF PagesInv
  <2>. QED  BY <2>1, <1>4 DEF Tidy, TidyView
<1>. HIDE DEF vs, count, old
<1>6. w.asked = s
  BY <1>5 DEF Asked, IsView, HasFields, ViewFields
<1>. HIDE DEF w
<1>7. ScreenNow = "console" /\ Loaded(views["overview"])
  BY NamedViews DEF AnswersInv, Standing, NamesOf
<1>8. s \in Manageable(views, path)
  BY <1>7 DEF Manageable, ChannelDirectory
<1>9. Right(vs, reads, path, Openable)
      /\ DOMAIN vs = NamesOf(ScreenNow, path, vs["overview"])
  <2>1. Standing /\ Right(views, reads, path, Openable)
    BY DEF AnswersInv
  <2>. QED  BY <2>1, <1>4, EditsRight, EditsStand
<1>10. Manageable(vs, path) = Manageable(views, path)
  <2>1. Edited("overview", views["overview"], vs["overview"]) /\ RightView("overview", views["overview"], views, path, Openable)
    BY <1>4 DEF Edits, AnswersInv, Right
  <2>. QED  BY <2>1, <1>4, <1>7 DEF Manageable, Edited, SameBooks, Loaded, RightView
<1>11. Right(views', reads', path, Openable)
  BY <1>1, <1>3, <1>6, <1>8, <1>9, <1>10, AskRight DEF ViewNames, ChannelLists
<1>12. DOMAIN views' = DOMAIN views /\ views'["overview"] = vs["overview"]
  BY <1>1, <1>4
<1>13. Standing'
  BY <1>1, <1>9, <1>12 DEF AnswersInv, Standing, pageVars, ScreenNow
<1>14. Heard'
  BY <1>1, <1>3, <1>12, AskHeard DEF AnswersInv, ViewNames
<1>. QED  BY <1>1, <1>11, <1>13, <1>14, QuietStep DEF Quiet, AnswersInv, pageVars

\* A sheet or a tab that closes forgets what it asked for.
LEMMA CloseAnswers ==
  ASSUME PagesInv, AnswersInv, CloseSheet \/ CloseKeys
  PROVE  AnswersInv'
<1>1. CASE CloseSheet
  <2>. DEFINE old == views["detail"]
              w == [old EXCEPT !.asked = Nowhere, !.shown = Nowhere, !.content = NoRows, !.failed = FALSE]
  <2>1. views' = [views EXCEPT !["detail"] = w] /\ UNCHANGED <<pageVars, session, reads, saves, db>>
    BY <1>1, Zenon DEF CloseSheet
  <2>2. IsView(old)
    BY <1>1 DEF CloseSheet, PagesInv, Tidy, TidyView
  <2>. HIDE DEF old
  <2>3. w.asked = Nowhere
    BY <2>2 DEF IsView, HasFields, ViewFields
  <2>. HIDE DEF w
  <2>4. DOMAIN views' = DOMAIN views /\ \A v \in DOMAIN views : views'[v] = IF v = "detail" THEN w ELSE views[v]
    BY <2>1
  <2>5. views'["overview"] = views["overview"] /\ Manageable(views', path) = Manageable(views, path)
    BY <2>1, <2>4 DEF Manageable
  <2>6. ASSUME NEW v \in DOMAIN views'  PROVE RightView(v, views'[v], views', path, Openable)
    <3>1. RightView(v, views[v], views, path, Openable)
      BY <2>4 DEF AnswersInv, Right
    <3>. QED  BY <3>1, <2>3, <2>4, <2>5 DEF RightView, ChannelLists, ChannelViews
  <2>7. ASSUME NEW r \in reads  PROVE RightRead(r, views', path, Openable)
    <3>1. RightRead(r, views, path, Openable)
      BY DEF AnswersInv, Right
    <3>. QED  BY <3>1, <2>4, <2>5 DEF RightRead
  <2>8. Right(views', reads', path, Openable)
    BY <2>1, <2>6, <2>7 DEF Right
  <2>9. Standing' /\ Heard'
    BY <2>1, <2>4, <2>5 DEF AnswersInv, Standing, Heard, pageVars, ScreenNow
  <2>. QED  BY <2>1, <2>8, <2>9, QuietStep DEF Quiet, AnswersInv, pageVars
<1>2. CASE CloseKeys
  <2>1. PICK w : views' = [views EXCEPT !["keys"] = w]
    BY <1>2 DEF CloseKeys
  <2>2. reads' = {r \in reads : r.view # "keys"} /\ UNCHANGED <<pageVars, session, db>>
    BY <1>2 DEF CloseKeys
  <2>3. ASSUME NEW a \in saves'  PROVE IsSave(a)
    <3>1. PICK b \in saves : a = [b EXCEPT !.held = b.held /\ b.q[1] \notin {"key", "revoke", "agent"}]
      BY <1>2 DEF CloseKeys
    <3>. DEFINE x == b.held /\ b.q[1] \notin {"key", "revoke", "agent"}
    <3>2. a = [b EXCEPT !.held = x] /\ IsSave(b)
      BY <3>1 DEF AnswersInv
    <3>. HIDE DEF x
    <3>. QED  BY <3>2 DEF IsSave
  <2>4. DOMAIN views' = DOMAIN views /\ \A v \in DOMAIN views : v # "keys" => views'[v] = views[v]
    BY <2>1
  <2>5. views'["overview"] = views["overview"] /\ Manageable(views', path) = Manageable(views, path)
    BY <2>1, <2>4 DEF Manageable
  <2>6. ASSUME NEW v \in DOMAIN views'  PROVE RightView(v, views'[v], views', path, Openable)
    <3>1. RightView(v, views[v], views, path, Openable)
      BY <2>4 DEF AnswersInv, Right
    <3>. QED  BY <3>1, <2>4, <2>5 DEF RightView, ChannelLists, ChannelViews
  <2>7. ASSUME NEW r \in reads  PROVE RightRead(r, views', path, Openable)
    <3>1. RightRead(r, views, path, Openable)
      BY DEF AnswersInv, Right
    <3>. QED  BY <3>1, <2>4, <2>5 DEF RightRead
  <2>8. Right(views', reads', path, Openable)
    BY <2>2, <2>6, <2>7 DEF Right
  <2>9. Standing' /\ Heard'
    BY <2>2, <2>4, <2>5 DEF AnswersInv, Standing, Heard, pageVars, ScreenNow
  <2>. QED  BY <2>2, <2>3, <2>8, <2>9, QuietStep DEF Quiet, pageVars
<1>. QED  BY <1>1, <1>2

\* The timer of the room reads the tables, which are there.
LEMMA PollAnswers ==
  ASSUME AnswersInv, Poll
  PROVE  AnswersInv'
<1>1. reads' = reads \cup {Read("tables", ChannelOf(path))} /\ UNCHANGED <<pageVars, session, views, saves, db>>
  BY DEF Poll
<1>2. DOMAIN views = {"about", "tables"}
  BY DEF AnswersInv, Standing, NamesOf, FirstViews, Poll
<1>3. Right(views', reads', path, Openable)
  BY <1>1, <1>2, NothingWrong DEF ChannelLists, ChannelViews
<1>4. Read("tables", ChannelOf(path)).view = "tables"
  BY DEF Read
<1>5. Standing' /\ Heard'
  BY <1>1, <1>2, <1>4 DEF AnswersInv, Standing, Heard, pageVars, ScreenNow
<1>. QED  BY <1>1, <1>3, <1>5, QuietStep DEF Quiet, AnswersInv, pageVars

\* A user may open the channels he has joined, owns or, as a super
\* administrator, all: an assignment to one he has not joined does not count.
LEMMA SpaceOpen ==
  ASSUME NEW d, NEW u, NEW s
  PROVE  SpaceForActor(d, u, s) <=> s \in Spaces /\ (IsSuper(d, u) \/ d.owner[s] = u \/ s \in d.users[u].joined)
BY DEF SpaceForActor, SpaceForUser, CanManage, ManagesSpace, Assigned

\* The server tells of channels that may be opened.
LEMMA ToldRight ==
  ASSUME NEW d, NEW u, IsDatabase(d), u \in DOMAIN d.users, NEW key
  PROVE  /\ \A v \in ChannelLists : DOMAIN Tell(d, u, v, key) \subseteq OpenTo(d, u)[v]
         /\ BookFields \subseteq DOMAIN Tell(d, u, "overview", key)
<1>1. DOMAIN Tell(d, u, "spaces", key) \subseteq OpenTo(d, u)["spaces"]
  BY DEF Tell, OpenTo, ChannelLists
<1>2. DOMAIN Tell(d, u, "bindings", key) \subseteq OpenTo(d, u)["bindings"]
  <2>1. d.users[u].joined \subseteq Spaces
    BY DEF IsDatabase, IsAccount
  <2>2. DOMAIN Tell(d, u, "bindings", key) = d.users[u].joined
    BY DEF Tell
  <2>. QED  BY <2>1, <2>2 DEF OpenTo, SpaceForUser, ChannelLists
<1>3. BookFields \subseteq DOMAIN Tell(d, u, "overview", key)
  <2>1. Tell(d, u, "overview", key) = Overview(d, u)
    BY DEF Tell
  <2>2. BookFields \subseteq DOMAIN Overview(d, u)
    BY DEF Overview, BookFields
  <2>. QED  BY <2>1, <2>2
<1>. QED  BY <1>1, <1>2, <1>3 DEF ChannelLists

\* The server answers a read.
LEMMA ReadAnswers ==
  ASSUME PagesInv, AnswersInv, NEW r \in reads, AnswerRead(r)
  PROVE  AnswersInv'
<1>1. IsRead(r)
  BY DEF PagesInv, Tidy, TidyRead
<1>. DEFINE told == <<r.view, Tell(db, session, r.view, r.key)>>
            answer == [r EXCEPT !.phase = "answered"]
<1>2. PICK x : /\ reads' = (reads \ {r}) \cup {x}
               /\ x.view = r.view /\ x.key = r.key /\ x.current = r.current
               /\ ~x.ok \/ (session # NoUser /\ x.answer = told) \/ (x.ok = r.ok /\ x.answer = r.answer)
  <2>. DEFINE pure == answer.pure /\ saves = {}
              good == [answer EXCEPT !.ok = TRUE, !.pure = pure, !.answer = told]
  <2>1. answer.view = r.view /\ answer.key = r.key /\ answer.current = r.current /\ answer.ok = r.ok
        /\ answer.answer = r.answer /\ IsRead(answer)
    BY <1>1 DEF IsRead, HasFields, ReadFields
  <2>2. (session # NoUser /\ reads' = (reads \ {r}) \cup {[answer EXCEPT !.ok = TRUE, !.pure = answer.pure /\ saves = {}, !.answer = told]})
        \/ reads' = (reads \ {r}) \cup {answer}
    BY Zenon DEF AnswerRead
  <2>. HIDE DEF answer, pure, told
  <2>3. good.view = answer.view /\ good.key = answer.key /\ good.current = answer.current /\ good.answer = told
    BY <2>1 DEF IsRead, HasFields, ReadFields
  <2>4. [answer EXCEPT !.ok = TRUE, !.pure = answer.pure /\ saves = {}, !.answer = told] = good
    BY Zenon DEF pure
  <2>. HIDE DEF good
  <2>. QED  BY <2>1, <2>2, <2>3, <2>4
<1>3. RightRead(r, views, path, Openable) /\ (r.current => r.view \in DOMAIN views)
  BY DEF AnswersInv, Right, Heard
<1>4. session # NoUser =>
        /\ r.view \in ChannelLists => DOMAIN told[2] \subseteq Openable[r.view]
        /\ r.view = "overview" => BookFields \subseteq DOMAIN told[2]
  BY ToldRight DEF AnswersInv, Openable
<1>. HIDE DEF told
<1>5. RightRead(x, views, path, Openable)
  BY <1>2, <1>3, <1>4 DEF RightRead
<1>6. UNCHANGED <<pageVars, session, views, saves, db>>
  BY DEF AnswerRead
<1>7. Right(views', reads', path, Openable)
  BY <1>2, <1>5, <1>6 DEF AnswersInv, Right
<1>8. Standing' /\ Heard'
  BY <1>2, <1>3, <1>6 DEF AnswersInv, Standing, Heard, pageVars, ScreenNow
<1>. QED  BY <1>6, <1>7, <1>8, QuietStep DEF Quiet, AnswersInv, pageVars

\* An answer arrives.
LEMMA ArrivalAnswers ==
  ASSUME PagesInv, AnswersInv, NEW r \in reads, ReadArrives(r)
  PROVE  AnswersInv'
<1>. DEFINE rs == reads \ {r}
<1>1. /\ Right(Shown(r), rs, path, Openable) /\ DOMAIN Shown(r) = DOMAIN views
      /\ DOMAIN Shown(r) \subseteq NamesOf(ScreenNow, path, Shown(r)["overview"])
  BY LandRight DEF AnswersInv
<1>2. (\A x \in rs : IsRead(x)) /\ Standing
  BY DEF PagesInv, Tidy, TidyRead, AnswersInv
<1>3. ASSUME NEW sel, Show(user, path, sel, Shown(r), rs, saves), UNCHANGED <<session, db>>,
             sel = selected \/ ScreenNow # "balances"
      PROVE  AnswersInv'
  <2>1. Standing' /\ Heard' /\ Right(views', reads', path', Openable)
    BY <1>1, <1>2, <1>3, ShowRightly
  <2>2. \A a \in saves' : IsSave(a)
    BY <1>3, ShowSaves DEF AnswersInv
  <2>. QED  BY <1>3, <2>1, <2>2, QuietStep DEF Quiet
<1>4. CASE \E v : Arrives(v, r)
  BY <1>3, <1>4 DEF Arrives
<1>5. CASE SpaceArrives(r)
  <2>. DEFINE sel == IF "space" \in DOMAIN views /\ Accepts(r) /\ r.ok THEN r.answer[2] ELSE selected
  <2>1. Show(user, path, sel, Shown(r), rs, saves) /\ UNCHANGED <<session, db>>
    BY <1>5 DEF SpaceArrives
  <2>2. sel = selected \/ ScreenNow # "balances"
    BY PlacedNames DEF PagesInv, Placed
  <2>. HIDE DEF sel
  <2>. QED  BY <2>1, <2>2, <1>3
<1>6. CASE OverviewArrives(r)
  <2>. DEFINE missed == Shown(r) = views /\ ~r.pure
              vs == IF missed THEN Soiled(views) ELSE Shown(r)
  <2>1. Show(user, path, selected, vs, rs, saves) /\ UNCHANGED <<session, db>>
    BY <1>6 DEF OverviewArrives
  <2>2. CASE missed
    <3>1. \A v \in DOMAIN views : IsView(views[v])
      BY DEF PagesInv, Tidy, TidyView
    <3>2. Edits(views, Soiled(views))
      BY <3>1, EditsMade
    <3>3. vs = Soiled(views) /\ Right(views, rs, path, Openable)
      BY <2>2, <1>1
    <3>. HIDE DEF vs, missed, rs
    <3>4. Right(vs, rs, path, Openable) /\ DOMAIN vs = DOMAIN views
      BY <3>2, <3>3, EditsRight DEF Edits
    <3>5. DOMAIN vs \subseteq NamesOf(ScreenNow, path, vs["overview"])
      BY <3>2, <3>3, EditsStand DEF AnswersInv
    <3>6. Standing' /\ Heard' /\ Right(views', reads', path', Openable)
      BY <2>1, <3>4, <3>5, <1>2, ShowRightly DEF Standing, rs
    <3>7. \A a \in saves' : IsSave(a)
      BY <2>1, ShowSaves DEF AnswersInv
    <3>. QED  BY <2>1, <3>6, <3>7, QuietStep DEF Quiet
  <2>3. CASE ~missed
    BY <2>1, <2>3, <1>3
  <2>. QED  BY <2>2, <2>3
<1>. QED
  BY <1>4, <1>5, <1>6 DEF ReadArrives, SpacesArrive, BoardArrives, AboutArrives, TablesArrive, HandsArrive,
     FundsArrive, BindingsArrive, RankingsArrive, BalancesArrive, DetailArrives, KeysArrive

-----------------------------------------------------------------------------
(* The server handles a request *)

\* Nobody edits or deletes his own account in the console.
LEMMA NotOneself ==
  ASSUME NEW d, NEW u, NEW q, Permitted(d, u, q), q[1] \in {"user_edit", "user_delete"}, q[2] \in DOMAIN d.users
  PROVE  q[2] # u
<1>1. PermittedUserChange(d, u, q)
  BY DEF Permitted
<1>. QED  BY <1>1 DEF PermittedUserChange

\* Who keeps his role, his channels and those he has joined may open as many.
LEMMA OpenGrows ==
  ASSUME NEW d, NEW d2, NEW u, u \in DOMAIN d2.users,
         d2.users[u].role = d.users[u].role,
         d.users[u].joined \subseteq d2.users[u].joined,
         \A s \in Spaces : d.owner[s] = u => d2.owner[s] = u
  PROVE  Within(OpenTo(d, u), OpenTo(d2, u))
<1>1. ASSUME NEW s \in Spaces  PROVE /\ SpaceForActor(d, u, s) => SpaceForActor(d2, u, s)
                                     /\ SpaceForUser(d, u, s) => SpaceForUser(d2, u, s)
  BY SpaceOpen DEF IsSuper, RoleOf, SpaceForUser
<1>. QED  BY <1>1 DEF OpenTo, Within

DatabaseFields == {"users", "roles", "owner", "tables", "site", "bound", "mcp", "made", "ghost"}

\* The accounts may be others.
LEMMA OtherUsers ==
  ASSUME NEW d, IsDatabase(d), NEW us, HasFields(us, DOMAIN us), \A x \in DOMAIN us : IsAccount(us[x])
  PROVE  /\ IsDatabase([d EXCEPT !.users = us])
         /\ [d EXCEPT !.users = us].users = us
         /\ [d EXCEPT !.users = us].owner = d.owner
<1>. DEFINE d2 == [d EXCEPT !.users = us]
<1>1. DOMAIN d = DatabaseFields /\ d = [g \in DatabaseFields |-> d[g]]
  BY DEF IsDatabase, HasFields, DatabaseFields
<1>2. DOMAIN d2 = DatabaseFields /\ d2 = [g \in DatabaseFields |-> d2[g]]
  BY <1>1
<1>3. d2.users = us /\ d2.owner = d.owner
  BY <1>1 DEF DatabaseFields
<1>. HIDE DEF d2
<1>4. IsDatabase(d2)
  BY <1>2, <1>3 DEF IsDatabase, HasFields, DatabaseFields
<1>. QED  BY <1>3, <1>4 DEF d2

\* The accounts of a database.
Accounts(us) == HasFields(us, DOMAIN us) /\ \A x \in DOMAIN us : IsAccount(us[x])

\* One account is changed.
LEMMA OneUser ==
  ASSUME NEW us, Accounts(us), NEW x, NEW account, x \in DOMAIN us => IsAccount(account)
  PROVE  LET us2 == [us EXCEPT ![x] = account]
         IN  Accounts(us2) /\ DOMAIN us2 = DOMAIN us /\ \A y \in DOMAIN us : us2[y] = IF y = x THEN account ELSE us[y]
<1>. DEFINE us2 == [us EXCEPT ![x] = account]
<1>1. DOMAIN us2 = DOMAIN us /\ us2 = [y \in DOMAIN us |-> IF y = x THEN account ELSE us[y]]
  OBVIOUS
<1>. HIDE DEF us2
<1>2. \A y \in DOMAIN us : us2[y] = IF y = x THEN account ELSE us[y]
  BY <1>1
<1>3. us2 = [y \in DOMAIN us2 |-> us2[y]]
  BY <1>1
<1>4. \A y \in DOMAIN us2 : IsAccount(us2[y])
  BY <1>1, <1>2 DEF Accounts
<1>. QED  BY <1>1, <1>2, <1>3, <1>4 DEF Accounts, HasFields, us2

\* An account that is edited stays one.
LEMMA AccountKept ==
  ASSUME NEW account, IsAccount(account), NEW x, NEW y, NEW z
  PROVE  /\ IsAccount([account EXCEPT !.role = x, !.status = y, !.managed = z])
         /\ IsAccount([account EXCEPT !.hidden = x])
         /\ [account EXCEPT !.hidden = x].role = account.role
         /\ [account EXCEPT !.hidden = x].joined = account.joined
BY DEF IsAccount, HasFields

\* So does one that joins more channels.
LEMMA AccountJoins ==
  ASSUME NEW account, IsAccount(account), NEW joined, account.joined \subseteq joined, joined \subseteq Spaces
  PROVE  /\ IsAccount([account EXCEPT !.joined = joined])
         /\ [account EXCEPT !.joined = joined].role = account.role
         /\ account.joined \subseteq [account EXCEPT !.joined = joined].joined
BY DEF IsAccount, HasFields

-----------------------------------------------------------------------------
(* What a request changes *)

\* f, but v for x.
Put(f, x, v) == [f EXCEPT ![x] = v]

\* S with x, and without it.
More(S, x) == S \cup {x}
Less(S, x) == S \ {x}

\* What a function is then.
LEMMA PutIs ==
  ASSUME NEW f, NEW x, NEW v
  PROVE  /\ DOMAIN Put(f, x, v) = DOMAIN f
         /\ \A y \in DOMAIN f : Put(f, x, v)[y] = IF y = x THEN v ELSE f[y]
         /\ HasFields(Put(f, x, v), DOMAIN f)
BY DEF Put, HasFields

\* A key after a request to change it.
KeyAfter(keys, q) ==
  CASE q[1] = "key"    -> [keys EXCEPT !.exists = TRUE]
    [] q[1] = "revoke" -> NoKey
    [] q[1] = "agent"  -> [keys EXCEPT !.enabled = q[2]]

\* The requests about the settings.
SiteKinds == {"registration", "name", "icon", "hero", "wechat"}

\* The key, the accounts, the roles and the settings after a request.
LEMMA AppliedKey ==
  ASSUME NEW d, IsDatabase(d), NEW u, NEW q, q[1] \in KeyKinds, NEW d2, d2 = Applied(d, u, q)
  PROVE  /\ \A f \in DatabaseFields : f \notin {"mcp"} => d2[f] = d[f]
         /\ d2.mcp = Put(d.mcp, u, KeyAfter(d.mcp[u], q))
<1>. DEFINE key == CASE q[1] = "key"    -> [d.mcp[u] EXCEPT !.exists = TRUE]
                     [] q[1] = "revoke" -> NoKey
                     [] q[1] = "agent"  -> [d.mcp[u] EXCEPT !.enabled = q[2]]
            mcp == [d.mcp EXCEPT ![u] = key]
<1>1. DOMAIN d = DatabaseFields
  BY DEF IsDatabase, HasFields, DatabaseFields
<1>2. d2 = [d EXCEPT !.mcp = mcp]
  <2>1. CASE q[1] = "key"
    <3>1. d2 = [d EXCEPT !.mcp = [d.mcp EXCEPT ![u] = [d.mcp[u] EXCEPT !.exists = TRUE]]]
      BY <2>1, Zenon DEF Applied
    <3>2. key = [d.mcp[u] EXCEPT !.exists = TRUE]
      BY <2>1
    <3>. QED  BY <3>1, <3>2, Zenon
  <2>2. CASE q[1] = "revoke"
    <3>1. d2 = [d EXCEPT !.mcp = [d.mcp EXCEPT ![u] = [exists |-> FALSE, enabled |-> FALSE]]]
      BY <2>2, Zenon DEF Applied
    <3>2. key = [exists |-> FALSE, enabled |-> FALSE]
      BY <2>2 DEF NoKey
    <3>. QED  BY <3>1, <3>2, Zenon
  <2>3. CASE q[1] = "agent"
    <3>1. d2 = [d EXCEPT !.mcp = [d.mcp EXCEPT ![u] = [d.mcp[u] EXCEPT !.enabled = q[2]]]]
      BY <2>3, Zenon DEF Applied
    <3>2. key = [d.mcp[u] EXCEPT !.enabled = q[2]]
      BY <2>3
    <3>. QED  BY <3>1, <3>2, Zenon
  <2>. HIDE DEF key
  <2>. QED  BY <2>1, <2>2, <2>3 DEF KeyKinds
<1>3. d2.mcp = mcp /\ \A f \in DatabaseFields : f \notin {"mcp"} => d2[f] = d[f]
  <2>. HIDE DEF mcp
  <2>. QED  BY <1>1, <1>2 DEF DatabaseFields
<1>. QED  BY <1>3 DEF Put, KeyAfter

\* The channels where the user has given his account after a request.
LEMMA AppliedBinding ==
  ASSUME NEW d, IsDatabase(d), NEW u, NEW q, q[1] = "bind", NEW d2, d2 = Applied(d, u, q)
  PROVE  /\ \A f \in DatabaseFields : f \notin {"bound"} => d2[f] = d[f]
         /\ d2.bound = Put(d.bound, u, More(d.bound[u], q[2]))
<1>. DEFINE bound == [d.bound EXCEPT ![u] = d.bound[u] \cup {q[2]}]
<1>1. DOMAIN d = DatabaseFields
  BY DEF IsDatabase, HasFields, DatabaseFields
<1>2. d2 = [d EXCEPT !.bound = bound]
  BY Zenon DEF Applied
<1>3. d2.bound = bound /\ \A f \in DatabaseFields : f \notin {"bound"} => d2[f] = d[f]
  <2>. HIDE DEF bound
  <2>. QED  BY <1>1, <1>2 DEF DatabaseFields
<1>. QED  BY <1>3 DEF Put, More

\* The tables of the channels.
LEMMA AppliedTables ==
  ASSUME NEW d, IsDatabase(d), NEW u, NEW q, NEW d2, d2 = Applied(d, u, q)
  PROVE  /\ q[1] = "table_new" =>
              /\ \A f \in DatabaseFields : f \notin {"tables", "made"} => d2[f] = d[f]
              /\ d2.tables = Put(d.tables, q[2], More(d.tables[q[2]], NewTable(d)))
              /\ d2.made = Append(d.made, NewTable(d))
         /\ q[1] = "table_delete" =>
              /\ \A f \in DatabaseFields : f \notin {"tables"} => d2[f] = d[f]
              /\ d2.tables = Put(d.tables, q[2], Less(d.tables[q[2]], q[3]))
<1>. DEFINE more == [d.tables EXCEPT ![q[2]] = d.tables[q[2]] \cup {NewTable(d)}]
            less == [d.tables EXCEPT ![q[2]] = d.tables[q[2]] \ {q[3]}]
            made == Append(d.made, NewTable(d))
<1>1. DOMAIN d = DatabaseFields
  BY DEF IsDatabase, HasFields, DatabaseFields
<1>2. q[1] = "table_new" => d2 = [d EXCEPT !.tables = more, !.made = made]
  BY Zenon DEF Applied
<1>3. q[1] = "table_delete" => d2 = [d EXCEPT !.tables = less]
  BY Zenon DEF Applied
<1>. HIDE DEF more, less, made
<1>4. q[1] = "table_new" => /\ \A f \in DatabaseFields : f \notin {"tables", "made"} => d2[f] = d[f]
                            /\ d2.tables = more /\ d2.made = made
  BY <1>1, <1>2 DEF DatabaseFields
<1>5. q[1] = "table_delete" => /\ \A f \in DatabaseFields : f \notin {"tables"} => d2[f] = d[f]
                               /\ d2.tables = less
  BY <1>1, <1>3 DEF DatabaseFields
<1>. QED  BY <1>4, <1>5 DEF more, less, made, Put, More, Less

\* The settings.
LEMMA AppliedSite ==
  ASSUME NEW d, IsDatabase(d), NEW u, NEW q, q[1] \in SiteKinds, NEW d2, d2 = Applied(d, u, q)
  PROVE  /\ \A f \in DatabaseFields : f \notin {"site"} => d2[f] = d[f]
         /\ d2.site = Put(d.site, q[1], q[2])
<1>. DEFINE new == [d.site EXCEPT ![q[1]] = q[2]]
<1>1. DOMAIN d = DatabaseFields
  BY DEF IsDatabase, HasFields, DatabaseFields
<1>2. d2 = [d EXCEPT !.site = new]
  BY Zenon DEF Applied, SiteKinds
<1>3. d2.site = new /\ \A f \in DatabaseFields : f \notin {"site"} => d2[f] = d[f]
  <2>. HIDE DEF new
  <2>. QED  BY <1>1, <1>2 DEF DatabaseFields
<1>. QED  BY <1>3 DEF Put

\* The roles: one saved, or one taken away.
LEMMA AppliedRoles ==
  ASSUME NEW d, IsDatabase(d), NEW u, NEW q, q[1] \in RoleKinds, NEW d2, d2 = Applied(d, u, q)
  PROVE  /\ \A f \in DatabaseFields : f \notin {"roles"} => d2[f] = d[f]
         /\ q[1] = "role_save" => d2.roles = RoleSaved(d.roles, q[2], ExpandPermissions(q[3]))
         /\ q[1] = "role_delete" => d2.roles = RoleDeleted(d.roles, q[2])
<1>. DEFINE more == [key \in DOMAIN d.roles \cup {q[2]} |->
                                         IF key = q[2] THEN ExpandPermissions(q[3]) ELSE d.roles[key]]
            less == [key \in DOMAIN d.roles \ {q[2]} |-> d.roles[key]]
<1>1. DOMAIN d = DatabaseFields
  BY DEF IsDatabase, HasFields, DatabaseFields
<1>2. q[1] = "role_save" => d2 = [d EXCEPT !.roles = more]
  BY Zenon DEF Applied
<1>3. q[1] = "role_delete" => d2 = [d EXCEPT !.roles = less]
  BY Zenon DEF Applied
<1>. HIDE DEF more, less
<1>4. (q[1] = "role_save" => d2.roles = more) /\ (q[1] = "role_delete" => d2.roles = less)
      /\ \A f \in DatabaseFields : f \notin {"roles"} => d2[f] = d[f]
  BY <1>1, <1>2, <1>3 DEF DatabaseFields, RoleKinds
<1>. QED  BY <1>4 DEF more, less, RoleSaved, RoleDeleted

\* What an account is.
AccountFields == {"role", "status", "managed", "joined", "hidden"}

\* Two accounts alike but for the channels joined.
Alike(x, y) == \A f \in AccountFields \ {"joined"} : x[f] = y[f]

\* Only the account a request is about is changed; the one who asked keeps his
\* role and the channels he may manage.
LEMMA AppliedUsers ==
  ASSUME NEW d, IsDatabase(d), NEW u, u \in DOMAIN d.users, NEW q, q[1] \in UserKinds,
         Permitted(d, u, q), Accepted(d, u, q), NEW d2, d2 = Applied(d, u, q)
  PROVE  /\ \A f \in DatabaseFields : f \notin {"users", "owner", "bound", "ghost"} => d2[f] = d[f]
         /\ q[1] # "user_delete" => d2.owner = d.owner /\ d2.bound = d.bound /\ q[2] \in DOMAIN d2.users
         /\ q[1] = "user_new" => q[2] \notin DOMAIN d.users
         /\ q[1] = "user_delete" =>
              /\ q[2] \in DOMAIN d.users /\ q[2] \notin DOMAIN d2.users
              /\ d2.bound = Put(d.bound, q[2], {})
              /\ ~IsSuper(d, u) => \A s \in Spaces : d2.owner[s] = d.owner[s]
         /\ DOMAIN d2.users \subseteq DOMAIN d.users \cup {q[2]}
         /\ \A x : x # q[2] => /\ x \in DOMAIN d2.users <=> x \in DOMAIN d.users
                               /\ x \in DOMAIN d.users => Alike(d2.users[x], d.users[x])
         /\ u \in DOMAIN d2.users
         /\ d2.users[u].role = d.users[u].role /\ d2.users[u].managed = d.users[u].managed
         /\ IsSuper(d, u) \/ d2.users[u].joined = d.users[u].joined
         /\ Accounts(d2.users) /\ d.users[u].joined \subseteq d2.users[u].joined
         /\ \A s \in Spaces : d.owner[s] = u => d2.owner[s] = u
<1>. DEFINE us == d.users
            x == q[2]
<1>0. Accounts(us) /\ us = [y \in DOMAIN us |-> us[y]] /\ \A y \in DOMAIN us : IsAccount(us[y])
  BY DEF IsDatabase, HasFields, Accounts
<1>1. DOMAIN d = DatabaseFields
  BY DEF IsDatabase, HasFields, DatabaseFields
<1>2. ASSUME NEW us2, d2 = [d EXCEPT !.users = us2]
      PROVE  d2.users = us2 /\ \A f \in DatabaseFields : f \notin {"users"} => d2[f] = d[f]
  BY <1>1, <1>2 DEF DatabaseFields
<1>3. CASE q[1] = "user_new"
  <2>. DEFINE us2 == WithAccount(us, x, NewUser(q[3]))
  <2>1. d2 = [d EXCEPT !.users = us2] /\ x \notin DOMAIN us
    BY <1>3, Zenon DEF Applied, Accepted
  <2>2. DOMAIN us2 = DOMAIN us \cup {x} /\ \A y \in DOMAIN us : us2[y] = us[y]
    BY <2>1 DEF WithAccount
  <2>5. Accounts(us2)
    <3>1. IsAccount(NewUser(q[3]))
      BY DEF IsAccount, NewUser, HasFields
    <3>. QED  BY <1>0, <2>1, <3>1 DEF WithAccount, HasFields, Accounts
  <2>. HIDE DEF us2, us
  <2>3. d2.users = us2 /\ \A f \in DatabaseFields : f \notin {"users"} => d2[f] = d[f]
    BY <2>1, <1>2
  <2>4. d2.owner = d.owner /\ d2.bound = d.bound
    BY <2>3 DEF DatabaseFields
  <2>. QED  BY <1>3, <2>1, <2>2, <2>3, <2>4, <2>5 DEF Alike, us
<1>4. CASE q[1] = "hide"
  <2>. DEFINE account == [us[x] EXCEPT !.hidden = q[3]]
              us2 == [us EXCEPT ![x] = account]
  <2>1. d2 = [d EXCEPT !.users = us2] /\ x \in DOMAIN us
    BY <1>4, Zenon DEF Applied, Accepted
  <2>2. account.role = us[x].role /\ account.managed = us[x].managed /\ account.joined = us[x].joined
    BY <1>0, <2>1 DEF IsAccount, HasFields
  <2>6. IsAccount(account)
    BY <1>0, <2>1, AccountKept, Zenon
  <2>. HIDE DEF account, us
  <2>3. Accounts(us2) /\ DOMAIN us2 = DOMAIN us /\ \A y \in DOMAIN us : us2[y] = IF y = x THEN account ELSE us[y]
    BY <1>0, <2>6, OneUser
  <2>. HIDE DEF us2
  <2>4. d2.users = us2 /\ \A f \in DatabaseFields : f \notin {"users"} => d2[f] = d[f]
    BY <2>1, <1>2
  <2>5. d2.owner = d.owner /\ d2.bound = d.bound
    BY <2>4 DEF DatabaseFields
  <2>. QED  BY <1>4, <2>1, <2>2, <2>3, <2>4, <2>5 DEF Alike, us
<1>5. CASE q[1] = "user_edit"
  <2>. DEFINE managed == IF AllowsAssignments(d.roles[q[3]]) THEN q[5] ELSE {}
              account == [us[x] EXCEPT !.role = q[3], !.status = q[4], !.managed = managed]
              us2 == [us EXCEPT ![x] = account]
  <2>0. x \in DOMAIN us /\ x # u
    BY <1>5, NotOneself DEF Accepted
  <2>1. d2 = [d EXCEPT !.users[x].role = q[3], !.users[x].status = q[4], !.users[x].managed = managed]
    BY <1>5, Zenon DEF Applied
  <2>. HIDE DEF managed
  <2>2. d2 = [d EXCEPT !.users = us2]
    BY <1>1, <2>1, <2>0 DEF DatabaseFields
  <2>6. IsAccount(account)
    BY <1>0, <2>0, AccountKept, Zenon
  <2>. HIDE DEF account, us
  <2>3. Accounts(us2) /\ DOMAIN us2 = DOMAIN us /\ \A y \in DOMAIN us : us2[y] = IF y = x THEN account ELSE us[y]
    BY <1>0, <2>6, OneUser
  <2>. HIDE DEF us2
  <2>4. d2.users = us2 /\ \A f \in DatabaseFields : f \notin {"users"} => d2[f] = d[f]
    BY <2>2, <1>2
  <2>5. d2.owner = d.owner /\ d2.bound = d.bound
    BY <2>4 DEF DatabaseFields
  <2>. QED  BY <1>5, <2>0, <2>3, <2>4, <2>5 DEF Alike, us
<1>6. CASE q[1] = "user_delete"
  <2>0. x \in DOMAIN us /\ x # u
    BY <1>6, NotOneself DEF Accepted
  <2>. DEFINE others == [y \in DOMAIN us \ {x} |-> us[y]]
              given  == {s \in Spaces : d.owner[s] = x}
              account == [us[u] EXCEPT !.joined = us[u].joined \cup given]
              with == [others EXCEPT ![u] = account]
              us2 == IF q[3] THEN with ELSE others
              owner == [s \in Spaces |-> IF s \in given THEN u ELSE d.owner[s]]
              bound == [d.bound EXCEPT ![x] = {}]
              ghost == d.ghost \/ q[3]
  <2>1. others[u] = us[u] /\ u \in DOMAIN others
    BY <2>0
  <2>2. d2 = [d EXCEPT !.users = us2, !.owner = owner, !.bound[x] = {}, !.ghost = d.ghost \/ q[3]]
    <3>1. DeleteUser(d, u, x, q[3]) =
            [d EXCEPT !.users = IF q[3] THEN [others EXCEPT ![u].joined = others[u].joined \cup given] ELSE others,
                      !.owner = owner, !.bound[x] = {}, !.ghost = d.ghost \/ q[3]]
      BY Zenon DEF DeleteUser
    <3>2. [others EXCEPT ![u].joined = others[u].joined \cup given] = with
      BY <2>1, Zenon
    <3>3. d2 = DeleteUser(d, u, x, q[3])
      BY <1>6, Zenon DEF Applied
    <3>. QED  BY <3>1, <3>2, <3>3, Zenon
  <2>3. account.role = us[u].role /\ account.managed = us[u].managed /\ Alike(account, us[u])
    BY <1>0 DEF IsAccount, HasFields, Alike, AccountFields
  <2>14. IsAccount(account) /\ us[u].joined \subseteq account.joined
    <3>. DEFINE joined == us[u].joined \cup given
    <3>1. us[u].joined \subseteq joined /\ joined \subseteq Spaces /\ IsAccount(us[u])
      BY <1>0 DEF IsAccount
    <3>. HIDE DEF joined, us
    <3>. QED  BY <3>1, AccountJoins DEF joined
  <2>. HIDE DEF account
  <2>4. Accounts(others) /\ DOMAIN others = DOMAIN us \ {x} /\ \A y \in DOMAIN others : others[y] = us[y]
    BY <1>0 DEF HasFields, Accounts
  <2>. HIDE DEF others
  <2>5. Accounts(with) /\ DOMAIN with = DOMAIN others /\ \A y \in DOMAIN others : with[y] = IF y = u THEN account ELSE others[y]
    BY <2>4, <2>14, OneUser
  <2>. HIDE DEF with
  <2>6. DOMAIN us2 = DOMAIN others
    BY <2>5
  <2>7. q[3] => IsSuper(d, u)
    BY <1>6, <2>0 DEF Permitted, PermittedUserChange
  <2>8. ~q[3] => given = {}
    BY <1>6 DEF Accepted
  <2>9. ~IsSuper(d, u) => us2 = others /\ \A s \in Spaces : owner[s] = d.owner[s]
    BY <2>7, <2>8
  <2>10. \A y \in DOMAIN others : Alike(us2[y], us[y])
    BY <2>3, <2>4, <2>5 DEF Alike
  <2>11. us2[u].role = us[u].role /\ us2[u].managed = us[u].managed
         /\ Accounts(us2) /\ us[u].joined \subseteq us2[u].joined /\ \A s \in Spaces : d.owner[s] = u => owner[s] = u
    BY <2>1, <2>3, <2>4, <2>5, <2>14
  <2>. HIDE DEF us2, owner, us, given
  <2>12. d2.users = us2 /\ d2.owner = owner /\ d2.bound = bound
        /\ \A f \in DatabaseFields : f \notin {"users", "owner", "bound", "ghost"} => d2[f] = d[f]
    <3>. DEFINE g == d.ghost \/ q[3]
    <3>1. d2 = [d EXCEPT !.users = us2, !.owner = owner, !.bound[x] = {}, !.ghost = g]
      BY <2>2
    <3>. HIDE DEF g
    <3>. QED  BY <1>1, <3>1 DEF DatabaseFields
  <2>13. d2.bound = Put(d.bound, x, {})
    BY <2>12 DEF Put
  <2>. HIDE DEF bound
  <2>. QED  BY <1>6, <2>0, <2>1, <2>4, <2>6, <2>9, <2>10, <2>11, <2>12, <2>13 DEF us
<1>. HIDE DEF us
<1>. QED  BY <1>3, <1>4, <1>5, <1>6 DEF UserKinds

\* A channel joined changes the account of who joined; the other requests change nothing.
LEMMA AppliedElse ==
  ASSUME NEW d, IsDatabase(d), NEW u, NEW q, NEW d2, d2 = Applied(d, u, q)
  PROVE  /\ q[1] = "join" => /\ \A f \in DatabaseFields : f \notin {"users"} => d2[f] = d[f]
                             /\ DOMAIN d2.users = DOMAIN d.users
         /\ q[1] \notin {"join", "bind", "table_new", "table_delete"} \cup KeyKinds \cup SiteKinds \cup RoleKinds \cup UserKinds
              => d2 = d
<1>. DEFINE us2 == [d.users EXCEPT ![u] = [d.users[u] EXCEPT !.joined = d.users[u].joined \cup {q[2]}]]
<1>1. DOMAIN d = DatabaseFields
  BY DEF IsDatabase, HasFields, DatabaseFields
<1>2. q[1] = "join" => d2 = [d EXCEPT !.users = us2]
  BY Zenon DEF Applied
<1>3. DOMAIN us2 = DOMAIN d.users
  OBVIOUS
<1>4. q[1] \notin {"join", "bind", "table_new", "table_delete"} \cup KeyKinds \cup SiteKinds \cup RoleKinds \cup UserKinds => d2 = d
  BY DEF Applied, KeyKinds, SiteKinds, RoleKinds, UserKinds
<1>. HIDE DEF us2
<1>5. q[1] = "join" => d2.users = us2 /\ \A f \in DatabaseFields : f \notin {"users"} => d2[f] = d[f]
  BY <1>1, <1>2 DEF DatabaseFields
<1>. QED  BY <1>3, <1>4, <1>5

\* Which requests leave which rows as they are.
LEMMA AppliedKeeps ==
  ASSUME NEW d, IsDatabase(d), NEW u, u \in DOMAIN d.users, NEW q, Permitted(d, u, q), Accepted(d, u, q), NEW d2, d2 = Applied(d, u, q)
  PROVE  /\ q[1] \notin KeyKinds => d2.mcp = d.mcp
         /\ q[1] \notin {"bind", "user_delete"} => d2.bound = d.bound
         /\ q[1] \notin {"table_new", "table_delete"} => d2.tables = d.tables
         /\ q[1] # "table_new" => d2.made = d.made
         /\ q[1] \notin UserKinds \cup {"join"} => d2.users = d.users
         /\ q[1] \notin RoleKinds => d2.roles = d.roles
         /\ q[1] \notin SiteKinds => d2.site = d.site
         /\ q[1] # "user_delete" => d2.owner = d.owner
<1>1. ASSUME q[1] \in KeyKinds  PROVE \A f \in DatabaseFields : f \notin {"mcp"} => d2[f] = d[f]
  BY <1>1, AppliedKey
<1>2. ASSUME q[1] = "bind"  PROVE \A f \in DatabaseFields : f \notin {"bound"} => d2[f] = d[f]
  BY <1>2, AppliedBinding
<1>3. /\ q[1] = "table_new" => \A f \in DatabaseFields : f \notin {"tables", "made"} => d2[f] = d[f]
      /\ q[1] = "table_delete" => \A f \in DatabaseFields : f \notin {"tables"} => d2[f] = d[f]
  BY AppliedTables
<1>4. ASSUME q[1] \in SiteKinds  PROVE \A f \in DatabaseFields : f \notin {"site"} => d2[f] = d[f]
  BY <1>4, AppliedSite
<1>5. ASSUME q[1] \in RoleKinds  PROVE \A f \in DatabaseFields : f \notin {"roles"} => d2[f] = d[f]
  BY <1>5, AppliedRoles
<1>6. q[1] \in UserKinds =>
        /\ \A f \in DatabaseFields : f \notin {"users", "owner", "bound", "ghost"} => d2[f] = d[f]
        /\ q[1] # "user_delete" => d2.owner = d.owner /\ d2.bound = d.bound
  BY AppliedUsers
<1>7. /\ q[1] = "join" => \A f \in DatabaseFields : f \notin {"users"} => d2[f] = d[f]
      /\ q[1] \notin {"join", "bind", "table_new", "table_delete"} \cup KeyKinds \cup SiteKinds \cup RoleKinds \cup UserKinds
                  => d2 = d
  BY AppliedElse
<1>. QED  BY <1>1, <1>2, <1>3, <1>4, <1>5, <1>6, <1>7 DEF DatabaseFields, KeyKinds, SiteKinds, RoleKinds, UserKinds

\* A database after a request has the rows of one.
LEMMA AppliedFields ==
  ASSUME NEW d, HasFields(d, DatabaseFields), NEW u, NEW q
  PROVE  HasFields(Applied(d, u, q), DatabaseFields)
<1>1. ASSUME NEW e, HasFields(e, DatabaseFields), NEW f, NEW y  PROVE HasFields([e EXCEPT ![f] = y], DatabaseFields)
  BY <1>1 DEF HasFields
<1>2. CASE q[1] = "table_new"
  <2>. DEFINE tables == [d.tables EXCEPT ![q[2]] = d.tables[q[2]] \cup {NewTable(d)}]
              made == Append(d.made, NewTable(d))
  <2>1. Applied(d, u, q) = [d EXCEPT !.tables = tables, !.made = made]
    BY <1>2, Zenon DEF Applied
  <2>. HIDE DEF tables, made
  <2>. QED  BY <2>1 DEF HasFields
<1>3. CASE q[1] = "user_edit"
  <2>1. PICK z : Applied(d, u, q) = [d EXCEPT !.users[q[2]].role = q[3], !.users[q[2]].status = q[4], !.users[q[2]].managed = z]
    BY <1>3, Zenon DEF Applied
  <2>. QED  BY <2>1 DEF HasFields
<1>4. CASE q[1] = "user_delete"
  <2>1. PICK x, y, z : Applied(d, u, q) = [d EXCEPT !.users = x, !.owner = y, !.bound[q[2]] = {}, !.ghost = z]
    BY <1>4, Zenon DEF Applied, DeleteUser
  <2>. QED  BY <2>1 DEF HasFields
<1>5. CASE q[1] \notin {"table_new", "user_edit", "user_delete"}
  <2>1. (\E f, y : Applied(d, u, q) = [d EXCEPT ![f] = y]) \/ Applied(d, u, q) = d
    BY <1>5, Zenon DEF Applied
  <2>. QED  BY <2>1, <1>1
<1>. QED  BY <1>2, <1>3, <1>4, <1>5

\* A request that goes through leaves the database one, the account of who
\* asked in it, and he may open what he could.
LEMMA AppliedDatabase ==
  ASSUME NEW d, NEW u, NEW q, IsDatabase(d), u \in DOMAIN d.users,
         Permitted(d, u, q), Accepted(d, u, q), q[1] = "join" => q[2] \in Spaces
  PROVE  LET d2 == Applied(d, u, q)
         IN  IsDatabase(d2) /\ u \in DOMAIN d2.users /\ Within(OpenTo(d, u), OpenTo(d2, u))
<1>. DEFINE d2 == Applied(d, u, q)
            us == d.users
<1>0. Accounts(us)
  BY DEF IsDatabase, Accounts
<1>1. HasFields(d, DatabaseFields) /\ HasFields(d2, DatabaseFields)
  <2>1. HasFields(d, DatabaseFields)
    BY DEF IsDatabase, DatabaseFields
  <2>. QED  BY <2>1, AppliedFields
<1>2. /\ Accounts(d2.users) /\ u \in DOMAIN d2.users
      /\ d2.users[u].role = us[u].role /\ us[u].joined \subseteq d2.users[u].joined
      /\ \A s \in Spaces : d.owner[s] = u => d2.owner[s] = u
  <2>1. CASE q[1] \in UserKinds
    <3>. HIDE DEF d2
    <3>. QED  BY <2>1, AppliedUsers DEF d2
  <2>2. CASE q[1] = "join"
    <3>. DEFINE joined == us[u].joined \cup {q[2]}
                account == [us[u] EXCEPT !.joined = joined]
                us2 == [us EXCEPT ![u] = account]
    <3>1. d2 = [d EXCEPT !.users = us2]
      BY <2>2, Zenon DEF Applied
    <3>2. us[u].joined \subseteq joined /\ joined \subseteq Spaces /\ IsAccount(us[u])
      BY <1>0, <2>2 DEF Accounts, IsAccount
    <3>. HIDE DEF joined, us
    <3>3. IsAccount(account) /\ account.role = us[u].role /\ us[u].joined \subseteq account.joined
      BY <3>2, AccountJoins
    <3>. HIDE DEF account
    <3>4. Accounts(us2) /\ DOMAIN us2 = DOMAIN us /\ us2[u] = account
      BY <1>0, <3>3, OneUser DEF us
    <3>. HIDE DEF us2, d2
    <3>5. d2.users = us2 /\ d2.owner = d.owner
      BY <1>1, <3>1 DEF HasFields, DatabaseFields
    <3>. QED  BY <3>3, <3>4, <3>5 DEF us
  <2>3. CASE q[1] \notin UserKinds \cup {"join"}
    <3>1. d2.users = us /\ d2.owner = d.owner
      BY <2>3, AppliedKeeps DEF UserKinds
    <3>. HIDE DEF d2
    <3>. QED  BY <1>0, <3>1
  <2>. QED  BY <2>1, <2>2, <2>3
<1>. HIDE DEF d2
<1>3. IsDatabase(d2)
  BY <1>1, <1>2 DEF IsDatabase, DatabaseFields, Accounts
<1>. QED  BY <1>2, <1>3, OpenGrows DEF d2

-----------------------------------------------------------------------------
(* The answers to requests edit the pages *)

\* App is rendered again, with an edit perhaps, and nothing else.
LEMMA EditAnswers ==
  ASSUME PagesInv, AnswersInv, NEW u, NEW p, NEW sel, NEW vs, NEW ss,
         Show(u, p, sel, vs, reads, ss), ss \subseteq saves, UNCHANGED <<session, db>>, Edits(views, vs),
         sel = selected \/ ScreenNow # "balances" \/ ParseRoute(path').page = "channel"
  PROVE  AnswersInv'
<1>1. Standing' /\ Heard' /\ Right(views', reads', path', Openable)
  BY ShowEdits DEF AnswersInv
<1>2. \A a \in saves' : IsSave(a)
  BY ShowSaves DEF AnswersInv
<1>. QED  BY <1>1, <1>2, QuietStep DEF Quiet

\* None of the changes to the books touches the rights or the channels there.
LEMMA BooksSame ==
  ASSUME NEW c, NEW x, NEW y, NEW z
  PROVE  /\ SameBooks(c, [c EXCEPT !.site = x])
         /\ SameBooks(c, [c EXCEPT !.roles = x])
         /\ SameBooks(c, RecalculateOverview(c, x))
         /\ SameBooks(c, SpaceChanged(c, y, z))
<1>1. SameBooks(c, [c EXCEPT !.site = x]) /\ SameBooks(c, [c EXCEPT !.roles = x])
  BY DEF SameBooks, BookFields
<1>2. SameBooks(c, RecalculateOverview(c, x))
  BY DEF SameBooks, BookFields, RecalculateOverview
<1>3. SameBooks(c, SpaceChanged(c, y, z))
  <2>. DEFINE d == SpaceChanged(c, y, z)
              spaces == [s \in DOMAIN c.spaces |-> IF s = y THEN z ELSE c.spaces[s]]
  <2>1. PICK t : d = [c EXCEPT !.spaces = spaces, !.tables = t]
    BY Zenon DEF SpaceChanged
  <2>2. DOMAIN spaces = DOMAIN c.spaces
    OBVIOUS
  <2>. HIDE DEF d, spaces
  <2>3. SameBooks(c, d)
    BY <2>1, <2>2 DEF SameBooks, BookFields
  <2>. QED  BY <2>3 DEF d
<1>. QED  BY <1>1, <1>2, <1>3

\* The page goes on with its books edited.
LEMMA BooksAnswers ==
  ASSUME PagesInv, AnswersInv, NEW a \in saves, NEW books, NEW s, Becomes(a, WithBooks(a, books), s),
         SameBooks(views["overview"].content, books)
  PROVE  AnswersInv'
<1>1. \A v \in DOMAIN views : IsView(views[v])
  BY DEF PagesInv, Tidy, TidyView
<1>2. Edits(views, views) /\ Edits(views, [views EXCEPT !["overview"].content = books])
  BY <1>1, EditsMade DEF ChannelLists
<1>3. Edits(views, WithBooks(a, books))
  BY <1>2 DEF WithBooks
<1>. QED  BY <1>3, EditAnswers DEF Becomes

\* It goes on with the sheet of a channel edited, and what the books say of it.
LEMMA SheetAnswers ==
  ASSUME PagesInv, AnswersInv, NEW a \in saves, NEW rows, NEW count, SheetShows(a, rows, count)
  PROVE  AnswersInv'
<1>. DEFINE old == views["detail"]
            sheet == [old EXCEPT !.content = rows, !.count = count]
            vs == IF a.held THEN [views EXCEPT !["detail"] = sheet] ELSE views
            books == SpaceChanged(vs["overview"].content, a.q[2], count)
<1>1. \A v \in DOMAIN views : IsView(views[v])
  BY DEF PagesInv, Tidy, TidyView
<1>2. Becomes(a, [vs EXCEPT !["overview"].content = books], site)
  BY Zenon DEF SheetShows
<1>3. DOMAIN vs = DOMAIN views /\ \A v \in DOMAIN views : vs[v] = IF a.held /\ v = "detail" THEN sheet ELSE views[v]
  OBVIOUS
<1>4. "detail" \in DOMAIN views => IsView(sheet) /\ Edited("detail", old, sheet)
  <2>1. \A w : IsView(w) => LET w2 == [w EXCEPT !.content = rows, !.count = count]
                            IN  IsView(w2) /\ w2.asked = w.asked /\ w2.loading = w.loading /\ w2.failed = w.failed
    BY DEF IsView, HasFields, ViewFields
  <2>2. "detail" \in DOMAIN views => IsView(old)
    BY <1>1
  <2>. HIDE DEF old
  <2>. QED  BY <2>1, <2>2 DEF Edited, ChannelLists
<1>5. SameBooks(vs["overview"].content, books)
  BY BooksSame
<1>. HIDE DEF sheet, vs, books
<1>6. ASSUME NEW v \in DOMAIN views  PROVE IsView(vs[v]) /\ Edited(v, views[v], vs[v])
  BY <1>1, <1>3, <1>4, <1>6 DEF Edited, SameBooks, old
<1>7. Edits(views, vs) /\ \A v \in DOMAIN vs : IsView(vs[v])
  BY <1>3, <1>6 DEF Edits
<1>8. Edits(vs, [vs EXCEPT !["overview"].content = books])
  BY <1>5, <1>7, EditsMade DEF ChannelLists
<1>9. Edits(views, [vs EXCEPT !["overview"].content = books])
  BY <1>7, <1>8, EditsTwice
<1>. QED  BY <1>2, <1>9, EditAnswers DEF Becomes

\* It goes on with one other view edited.
LEMMA ContentAnswers ==
  ASSUME PagesInv, AnswersInv, NEW a \in saves, NEW n, NEW x, NEW s, Becomes(a, [views EXCEPT ![n].content = x], s),
         n \notin {"overview", "spaces"}, n = "bindings" => DOMAIN x \subseteq DOMAIN views[n].content
  PROVE  AnswersInv'
<1>1. \A v \in DOMAIN views : IsView(views[v])
  BY DEF PagesInv, Tidy, TidyView
<1>. DEFINE w == views[n]
<1>2. n \in DOMAIN views => IsView(w)
  BY <1>1
<1>. HIDE DEF w
<1>3. IsView(w) => [w EXCEPT !.content = x].content = x /\ [w EXCEPT !.content = x].asked = w.asked
                   /\ [w EXCEPT !.content = x].loading = w.loading /\ [w EXCEPT !.content = x].failed = w.failed
  BY DEF IsView, HasFields, ViewFields
<1>4. n \in DOMAIN views => Edited(n, w, [w EXCEPT !.content = x])
  BY <1>2, <1>3 DEF Edited, ChannelLists, w
<1>5. Edits(views, [views EXCEPT ![n].content = x])
  BY <1>1, <1>4, EditsMade DEF w
<1>. QED  BY <1>5, EditAnswers DEF Becomes

\* The ranking loads again.
LEMMA RankingsAnswers ==
  ASSUME PagesInv, AnswersInv, NEW a \in saves, RankingsChanged(a)
  PROVE  AnswersInv'
<1>. DEFINE key == a.q[2]
            old == views["rankings"]
            w == Asked(old, key)
            vs == [views EXCEPT !["rankings"] = w]
            rs == Superseded("rankings", reads) \cup {Read("rankings", key)}
<1>1. Show(user, path, selected, vs, rs, saves \ {a}) /\ UNCHANGED <<session, db>>
  BY DEF RankingsChanged
<1>2. (\A r \in reads : IsRead(r)) /\ ("rankings" \in DOMAIN views => IsView(old))
  BY DEF PagesInv, Tidy, TidyRead, TidyView
<1>. HIDE DEF old
<1>3. IsView(old) => w.asked = key
  BY DEF Asked, IsView, HasFields, ViewFields
<1>4. Right(vs, rs, path, Openable)
  <2>1. Right(views, reads, path, Openable)
    BY DEF AnswersInv
  <2>2. "rankings" \in ViewNames \ (ChannelLists \cup {"overview"}) /\ "rankings" \notin ChannelViews
    BY DEF ViewNames, ChannelLists, ChannelViews
  <2>3. "rankings" \in DOMAIN views => w.asked = key
    BY <1>2, <1>3
  <2>. HIDE DEF w, key
  <2>. QED  BY <1>2, <2>1, <2>2, <2>3, AskRight
<1>5. \A r \in rs : IsRead(r)
  BY <1>2, SupersededReads, NewRead DEF ViewNames
<1>6. DOMAIN vs = DOMAIN views /\ vs["overview"] = views["overview"]
  OBVIOUS
<1>. HIDE DEF vs, rs
<1>7. Standing' /\ Heard' /\ Right(views', reads', path', Openable)
  BY <1>1, <1>4, <1>5, <1>6, ShowRightly DEF AnswersInv, Standing
<1>8. \A x \in saves' : IsSave(x)
  BY <1>1, ShowSaves DEF AnswersInv
<1>. QED  BY <1>1, <1>7, <1>8, QuietStep DEF Quiet

\* Joining a channel leads there.
LEMMA JoinedAnswers ==
  ASSUME PagesInv, AnswersInv, NEW a \in saves, SpaceJoined(a)
  PROVE  AnswersInv'
<1>. DEFINE sel == a.told[2]
            p == <<"channels", sel.id>>
<1>1. CASE ScreenNow = "room"
  <2>1. Show(user, p, sel, RoomFollows(sel), RoomAsks(sel), saves \ {a}) /\ UNCHANGED <<session, db>>
    BY <1>1 DEF SpaceJoined
  <2>2. Tidy(RoomFollows(sel), RoomAsks(sel), sel.id) /\ DOMAIN RoomFollows(sel) = DOMAIN views
    BY RoomMoves
  <2>3. \A r \in RoomAsks(sel) : IsRead(r)
    BY <2>2 DEF Tidy, TidyRead
  <2>4. \A overview : NamesOf(ScreenNow, path, overview) = {"about", "tables"}
    BY <1>1 DEF NamesOf, FirstViews
  <2>. HIDE DEF sel, p
  <2>5. DOMAIN RoomFollows(sel) = {"about", "tables"}
    BY <2>2, <2>4 DEF AnswersInv, Standing
  <2>6. Right(RoomFollows(sel), RoomAsks(sel), path, Openable)
    BY <2>5, NothingWrong DEF ChannelLists, ChannelViews
  <2>7. DOMAIN RoomFollows(sel) \subseteq NamesOf(ScreenNow, path, RoomFollows(sel)["overview"])
    BY <2>4, <2>5
  <2>8. Standing' /\ Heard' /\ Right(views', reads', path', Openable)
    BY <1>1, <2>1, <2>2, <2>3, <2>6, <2>7, ShowRightly DEF AnswersInv
  <2>9. \A x \in saves' : IsSave(x)
    BY <2>1, ShowSaves DEF AnswersInv
  <2>. QED  BY <2>1, <2>8, <2>9, QuietStep DEF Quiet
<1>2. CASE ScreenNow # "room"
  <2>1. Show(user, p, sel, views, reads, saves \ {a}) /\ UNCHANGED <<session, db>>
    BY <1>2 DEF SpaceJoined
  <2>2. ParseRoute(p).page = "channel"
    BY DEF ParseRoute, AtChannel
  <2>. HIDE DEF sel, p
  <2>3. ParseRoute(path').page = "channel"
    BY <2>1, <2>2 DEF Show, Redirected
  <2>4. Edits(views, views)
    BY EditsMade DEF PagesInv, Tidy, TidyView
  <2>. QED  BY <2>1, <2>3, <2>4, EditAnswers
<1>. QED  BY <1>1, <1>2

\* Every answer to a request leaves the pages right.
LEMMA SavedAnswers ==
  ASSUME PagesInv, AnswersInv, NEW a \in saves, SaveArrives(a)
  PROVE  AnswersInv'
<1>0. Edits(views, views)
  BY EditsMade DEF PagesInv, Tidy, TidyView
<1>1. CASE SaveRefused(a) \/ PageIsGone(a)
  <2>1. UNCHANGED <<pageVars, session, views, reads, db>> /\ saves' = saves \ {a}
    BY <1>1 DEF SaveRefused, PageIsGone
  <2>2. Standing' /\ Heard' /\ Right(views', reads', path', Openable)
    BY <2>1 DEF AnswersInv, Standing, Heard, pageVars, ScreenNow
  <2>. QED  BY <2>1, <2>2, QuietStep DEF Quiet, AnswersInv
<1>2. CASE RegistrationSaved(a) \/ BrandSaved(a) \/ FaviconReset(a) \/ LoginHeroSaved(a) \/ WeChatLoginSaved(a)
  <2>1. PICK new : SettingArrives(a, new)
    BY <1>2, Zenon DEF RegistrationSaved, BrandSaved, FaviconReset, LoginHeroSaved, WeChatLoginSaved
  <2>2. \E x, s : Becomes(a, WithBooks(a, [Books EXCEPT !.site = x]), s)
    BY <2>1, Zenon DEF SettingArrives
  <2>. QED  BY <2>2, BooksSame, BooksAnswers DEF Books
<1>3. CASE UserSaved(a) \/ UserDeleted(a) \/ RankingToggled(a)
  <2>1. \E x, s : Becomes(a, WithBooks(a, RecalculateOverview(Books, x)), s)
    BY <1>3, Zenon DEF UserSaved, UserDeleted, RankingToggled, WithUser, WithoutUser
  <2>. QED  BY <2>1, BooksSame, BooksAnswers DEF Books
<1>4. CASE RolesSaved(a)
  <2>1. \E x, s : Becomes(a, WithBooks(a, [Books EXCEPT !.roles = x]), s)
    BY <1>4, Zenon DEF RolesSaved
  <2>. QED  BY <2>1, BooksSame, BooksAnswers DEF Books
<1>5. CASE RankingsChanged(a)
  BY <1>5, RankingsAnswers
<1>6. CASE ConnectionSaved(a) \/ SheetTableDeleted(a)
  <2>1. \E rows, count : SheetShows(a, rows, count)
    BY <1>6, Zenon DEF ConnectionSaved, SheetTableDeleted
  <2>. QED  BY <2>1, SheetAnswers
<1>7. ASSUME NEW s, Becomes(a, views, s)  PROVE AnswersInv'
  BY <1>0, <1>7, EditAnswers DEF Becomes
<1>8. CASE SheetTableCleared(a)
  BY <1>7, <1>8 DEF SheetTableCleared
<1>9. ASSUME NEW n \in {"tables", "keys"}, NEW x, NEW s, Becomes(a, [views EXCEPT ![n].content = x], s)  PROVE AnswersInv'
  <2>1. n \notin {"overview", "spaces"} /\ n # "bindings"
    OBVIOUS
  <2>. QED  BY <1>9, <2>1, ContentAnswers
<1>10. CASE TableCreated(a)
  <2>1. Becomes(a, [views EXCEPT !["tables"].content = WithTable(views["tables"].content, a.told[2])], site)
    BY <1>10, Zenon DEF TableCreated
  <2>. QED  BY <1>9, <2>1
<1>11. CASE RoomTableDone(a)
  <2>1. Becomes(a, views, site)
        \/ Becomes(a, [views EXCEPT !["tables"].content = WithoutTable(views["tables"].content, a.q[3])], site)
    BY <1>11, Zenon DEF RoomTableDone
  <2>. QED  BY <1>7, <1>9, <2>1
<1>12. CASE KeyGenerated(a) \/ KeyRevoked(a) \/ AgentSwitched(a)
  <2>1. \E x : Becomes(a, [views EXCEPT !["keys"].content = x], site)
    BY <1>12, Zenon DEF KeyGenerated, KeyRevoked, AgentSwitched, KeysShow
  <2>. QED  BY <1>9, <2>1
<1>13. CASE BindingUpdated(a)
  <2>. DEFINE old == views["bindings"].content
              x == [s \in DOMAIN old |-> old[s] \/ s = a.q[2]]
  <2>1. Becomes(a, [views EXCEPT !["bindings"].content = x], site)
    BY <1>13, Zenon DEF BindingUpdated
  <2>2. DOMAIN x = DOMAIN old
    OBVIOUS
  <2>. HIDE DEF x
  <2>. QED  BY <2>1, <2>2, ContentAnswers
<1>14. CASE ProfileUpdated(a) \/ CredentialsUpdated(a)
  BY <1>0, <1>14, EditAnswers DEF ProfileUpdated, CredentialsUpdated
<1>15. CASE SpaceJoined(a)
  BY <1>15, JoinedAnswers
<1>. QED
  BY <1>1, <1>2, <1>3, <1>4, <1>5, <1>6, <1>8, <1>10, <1>11, <1>12, <1>13, <1>14, <1>15 DEF SaveArrives

-----------------------------------------------------------------------------
(* Signing in and out, and sending *)

\* Somebody signs in or out: the page is left that was shown.
LEMMA SessionAnswers ==
  ASSUME AnswersInv, NEW u, NEW p, NEW sel, NEW rs, NEW ss,
         Show(u, p, sel, views, rs, ss), \A r \in rs : IsRead(r), \A a \in ss : IsSave(a),
         SamePage => ScreenNow \in {"wait", "auth", "admin_auth"},
         IsDatabase(db'), session' \in DOMAIN db'.users \cup {NoUser}
  PROVE  AnswersInv'
<1>1. Standing' /\ Heard' /\ Right(views', reads', path', Openable')
  BY ShowAfresh DEF AnswersInv
<1>2. \A a \in saves' : IsSave(a)
  BY ShowSaves
<1>. QED  BY <1>1, <1>2 DEF AnswersInv

\* What the first effect, the login forms and the logouts do.
LEMMA SessionsAnswer ==
  ASSUME PagesInv, AnswersInv,
         Start \/ LogoutLobby \/ LogoutConsole \/ \E u : Login(u) \/ LoginConsole(u) \/ Register(u)
  PROVE  AnswersInv'
<1>0. (\A r \in reads : IsRead(r)) /\ (\A a \in saves : IsSave(a)) /\ IsDatabase(db)
      /\ session \in DOMAIN db.users \cup {NoUser}
  BY DEF PagesInv, Tidy, TidyRead, AnswersInv
<1>1. CASE Start
  <2>1. ScreenNow = "wait"
    BY <1>1 DEF Start, ScreenNow, Screen, ScreenAt
  <2>. QED  BY <1>0, <1>1, <2>1, SessionAnswers DEF Start
<1>2. ASSUME NEW u, Login(u) \/ LoginConsole(u)  PROVE AnswersInv'
  BY <1>0, <1>2, SessionAnswers DEF Login, LoginConsole, MayLogIn
<1>3. ASSUME NEW u, Register(u)  PROVE AnswersInv'
  <2>. DEFINE us == WithAccount(db.users, u, NewUser("player"))
  <2>1. db' = [db EXCEPT !.users = us] /\ session' = u /\ ScreenNow = "auth"
        /\ Show(TellUser(db', u), path, selected, views, reads, saves)
    BY <1>3, Zenon DEF Register
  <2>2. IsAccount(NewUser("player"))
    BY DEF IsAccount, NewUser, HasFields
  <2>3. HasFields(us, DOMAIN us) /\ u \in DOMAIN us /\ \A y \in DOMAIN us : IsAccount(us[y])
    BY <1>0, <2>2 DEF WithAccount, HasFields, IsDatabase
  <2>. HIDE DEF us
  <2>4. IsDatabase(db') /\ u \in DOMAIN db'.users
    BY <1>0, <2>1, <2>3, OtherUsers
  <2>. QED  BY <1>0, <2>1, <2>4, SessionAnswers
<1>4. CASE LogoutLobby \/ LogoutConsole
  <2>1. PICK p, sel : Show(NoUser, p, sel, views, Refused(reads), Refused(saves))
    BY <1>4 DEF LogoutLobby, LogoutConsole
  <2>2. ~SamePage
    <3>1. \A q, x : Screen(NoUser, q, x) \notin {"lobby", "console"}
      BY DEF Screen, ScreenAt, HasPermission, SignedIn
    <3>2. ScreenNow \in {"lobby", "console"} /\ user' = NoUser
      BY <1>4, <2>1 DEF LogoutLobby, LogoutConsole, Show
    <3>. QED  BY <3>1, <3>2 DEF SamePage
  <2>3. \A r \in Refused(reads) : IsRead(r)
    <3>1. Tidy(views, Refused(reads), ChannelOf(path))
      BY SpoiltReads DEF PagesInv
    <3>. QED  BY <3>1 DEF Tidy, TidyRead
  <2>4. \A a \in Refused(saves) : IsSave(a)
    <3>1. \A a : IsSave(a) => IsSave([a EXCEPT !.phase = "answered"])
      BY DEF IsSave
    <3>. QED  BY <1>0, <3>1 DEF Refused
  <2>5. session' = NoUser /\ db' = db
    BY <1>4 DEF LogoutLobby, LogoutConsole
  <2>. QED  BY <1>0, <2>1, <2>2, <2>3, <2>4, <2>5, SessionAnswers
<1>. QED  BY <1>1, <1>2, <1>3, <1>4

\* What the section of the users sends: an account is edited or deleted by
\* somebody else who may.
LEMMA UsersOffered ==
  ASSUME NEW books, NEW me, NEW q \in UsersSection(books, me)
  PROVE  \/ /\ q[1] = "user_new" /\ "users:manage" \in books.permissions
            /\ "roles:manage" \in books.permissions \/ q[3] = "player"
         \/ q[1] = "user_edit" /\ q[2] \in DOMAIN books.users /\ CanEdit(books, me, q[2])
         \/ /\ q[1] = "user_delete" /\ q[2] \in DOMAIN books.users /\ CanEdit(books, me, q[2])
            /\ q[3] \in BOOLEAN /\ (q[3] => me.role = "super_admin")
<1>1. CASE q \in CreateUserDialog(books)
  <2>1. "users:manage" \in books.permissions
    BY <1>1 DEF CreateUserDialog
  <2>2. PICK x \in Users \ DOMAIN books.users, key \in RoleSelect(books, "player") : q = <<"user_new", x, key>>
    BY <1>1, <2>1 DEF CreateUserDialog
  <2>3. q[1] = "user_new" /\ q[3] = key
    BY <2>2
  <2>. QED  BY <2>1, <2>2, <2>3 DEF RoleSelect
<1>2. CASE q \notin CreateUserDialog(books)
  <2>1. PICK x \in DOMAIN books.users : CanEdit(books, me, x) /\ q \in EditUserDialog(books, x) \cup DeleteUserDialog(me, x)
    BY <1>2 DEF UsersSection
  <2>2. CASE q \in EditUserDialog(books, x)
    <3>. DEFINE given(key) == IF RoleUsesChannelScope(books, key) THEN ChannelScopeField(books, x) ELSE {{}}
    <3>. HIDE DEF given
    <3>0. PICK key \in RoleSelect(books, books.users[x].role) :
            q \in {<<"user_edit", x, key, status, managed>> : status \in {"active", "disabled"}, managed \in given(key)}
      BY <2>2 DEF EditUserDialog, given
    <3>1. \E status, managed : q = <<"user_edit", x, key, status, managed>>
      BY <3>0
    <3>. QED  BY <2>1, <3>1
  <2>3. CASE q \in DeleteUserDialog(me, x)
    <3>1. PICK force \in BOOLEAN : q = <<"user_delete", x, force>> /\ (force => me.role = "super_admin")
      BY <2>3 DEF DeleteUserDialog
    <3>. QED  BY <2>1, <3>1
  <2>. QED  BY <2>1, <2>2, <2>3
<1>. QED  BY <1>1, <1>2

\* What the section of the roles sends: nobody is given more than the editor has.
LEMMA RolesOffered ==
  ASSUME NEW books, NEW q \in RoleManager(books)
  PROVE  q[1] = "role_delete" \/ (q[1] = "role_save" /\ q[3] \subseteq books.permissions)
<1>1. ASSUME NEW key, NEW before, q \in RoleDialog(books, key, before)
      PROVE  q[1] = "role_save" /\ q[3] \subseteq books.permissions
  <2>1. \E ps, new : ps \subseteq books.permissions /\ q = <<"role_save", key, ps, new>>
    BY <1>1, Zenon DEF RoleDialog
  <2>. QED  BY <2>1
<1>. DEFINE free == {k \in DOMAIN books.roles \ {"super_admin"} : books.roles[k].user_count = 0}
            extra == RoleDialog(books, "extra", IF "extra" \in DOMAIN books.roles THEN books.roles["extra"].permissions ELSE {})
            others == UNION {RoleDialog(books, key, books.roles[key].permissions) : key \in DOMAIN books.roles \ {"super_admin"}}
<1>2. RoleManager(books) = extra \cup others \cup {<<"role_delete", key>> : key \in free}
  BY Zenon DEF RoleManager
<1>3. q \in extra => \E key, before : q \in RoleDialog(books, key, before)
  OBVIOUS
<1>4. q \in others => \E key, before : q \in RoleDialog(books, key, before)
  OBVIOUS
<1>. HIDE DEF extra, others, free
<1>5. (\E key, before : q \in RoleDialog(books, key, before)) \/ \E key : q = <<"role_delete", key>>
  BY <1>2, <1>3, <1>4
<1>. QED  BY <1>1, <1>5

\* A channel that a dialog joins exists.
LEMMA OfferedJoins ==
  ASSUME NEW me, NEW p, NEW screen, NEW vs, NEW q \in Offers(me, p, screen, vs), q[1] = "join"
  PROVE  q[2] \in Spaces
<1>1. CASE screen = "lobby"
  BY <1>1 DEF Offers, SpaceDialog
<1>2. CASE screen = "room"
  BY <1>2 DEF Offers, ChannelMain, CreateTableDialog, TableManagement
<1>3. CASE screen = "bindings"
  BY <1>3 DEF Offers, BindingDialog
<1>4. CASE screen = "settings"
  BY <1>4 DEF Offers, ProfileSettings, AccountSecuritySettings, MCPKeySettings
<1>5. CASE screen = "balances"
  BY <1>5 DEF Offers, BalanceManager
<1>6. CASE screen = "console"
  <2>. DEFINE books == vs["overview"].content
              section == ParseRoute(p).section
  <2>1. q \in AdminConsole(me, p, vs)
    BY <1>6 DEF Offers
  <2>2. q \notin UsersSection(books, me)
    BY UsersOffered
  <2>3. q \notin RoleManager(books)
    BY RolesOffered
  <2>4. q \notin RankingManager(books, vs["rankings"])
    BY DEF RankingManager
  <2>5. q \notin ChannelManager(vs["detail"]) /\ q \notin BalanceManager(vs["balances"])
    BY DEF ChannelManager, BalanceManager
  <2>6. q \notin Branding(books) \cup LoginHero(books) \cup WeChatLoginSettings(books) \cup RegistrationPolicy(books)
    BY DEF Branding, LoginHero, WeChatLoginSettings, RegistrationPolicy
  <2>. HIDE DEF books, section
  <2>7. SectionAllowed(books, section) => section \in Sections
    BY DEF SectionAllowed, Sections
  <2>. QED  BY <2>1, <2>2, <2>3, <2>4, <2>5, <2>6, <2>7 DEF AdminConsole, Sections, books, section
<1>. QED  BY <1>1, <1>2, <1>3, <1>4, <1>5, <1>6 DEF Offers

\* A request that is sent spoils answers that are under way.
LEMMA SubmitAnswers ==
  ASSUME PagesInv, AnswersInv, NEW q \in Offers(user, path, ScreenNow, views), Submit(q)
  PROVE  AnswersInv'
<1>1. UNCHANGED <<pageVars, session, db>> /\ saves' = saves \cup {Kept(q)}
      /\ (views' = views \/ views' = Soiled(views))
      /\ reads' = {[r EXCEPT !.pure = r.pure /\ r.phase = "sent"] : r \in reads}
  BY Zenon DEF Submit
<1>2. IsSave(Kept(q))
  BY OfferedJoins DEF IsSave, Kept
<1>3. \A v \in DOMAIN views : IsView(views[v])
  BY DEF PagesInv, Tidy, TidyView
<1>4. Edits(views, views')
  BY <1>1, <1>3, EditsMade
<1>5. ASSUME NEW s \in reads'
      PROVE  \E r \in reads : s.view = r.view /\ s.key = r.key /\ s.current = r.current /\ s.ok = r.ok /\ s.answer = r.answer
  <2>1. PICK r \in reads : s = [r EXCEPT !.pure = r.pure /\ r.phase = "sent"]
    BY <1>1
  <2>. DEFINE pure == r.pure /\ r.phase = "sent"
  <2>2. s = [r EXCEPT !.pure = pure] /\ IsRead(r)
    BY <2>1 DEF PagesInv, Tidy, TidyRead
  <2>. HIDE DEF pure
  <2>. QED  BY <2>2 DEF IsRead, HasFields, ReadFields
<1>6. Right(views, reads', path, Openable) /\ Heard
  BY <1>5 DEF AnswersInv, Right, RightRead
<1>7. Right(views', reads', path, Openable) /\ DOMAIN views' = DOMAIN views
  BY <1>4, <1>6, EditsRight
<1>8. Standing'
  <2>1. DOMAIN views' = NamesOf(ScreenNow, path, views'["overview"])
    BY <1>4, EditsStand DEF AnswersInv
  <2>. QED  BY <2>1, <1>1 DEF Standing, pageVars, ScreenNow
<1>9. Heard'
  BY <1>5, <1>6, <1>7 DEF Heard
<1>. QED  BY <1>1, <1>2, <1>7, <1>8, <1>9, QuietStep DEF Quiet, AnswersInv, pageVars

\* The server handles a request.
LEMMA HandleAnswers ==
  ASSUME AnswersInv, NEW a \in saves, HandleSave(a)
  PROVE  AnswersInv'
<1>. DEFINE granted == session # NoUser /\ Permitted(db, session, a.q) /\ Accepted(db, session, a.q)
            after == IF granted THEN Applied(db, session, a.q) ELSE db
            told == <<a.q[1], IF granted THEN Told(after, session, a.q) ELSE Nothing>>
            answer == [a EXCEPT !.phase = "answered", !.ok = granted, !.told = told]
<1>1. db' = after /\ saves' = (saves \ {a}) \cup {answer} /\ UNCHANGED <<pageVars, session, views, reads>>
  BY Zenon DEF HandleSave
<1>2. IsDatabase(db) /\ session \in DOMAIN db.users \cup {NoUser} /\ IsSave(a)
  BY DEF AnswersInv
<1>3. IsDatabase(after) /\ session \in DOMAIN after.users \cup {NoUser} /\ Within(Openable, OpenTo(after, session))
  <2>1. CASE granted
    <3>1. after = Applied(db, session, a.q) /\ session \in DOMAIN db.users /\ Permitted(db, session, a.q)
          /\ Accepted(db, session, a.q) /\ (a.q[1] = "join" => a.q[2] \in Spaces)
      BY <2>1, <1>2 DEF IsSave
    <3>. HIDE DEF after
    <3>. QED  BY <3>1, <1>2, AppliedDatabase DEF Openable
  <2>2. CASE ~granted
    BY <2>2, <1>2 DEF Openable, Within
  <2>. QED  BY <2>1, <2>2
<1>4. IsSave(answer)
  <2>. HIDE DEF granted, told
  <2>. QED  BY <1>2 DEF IsSave
<1>. HIDE DEF after, answer
<1>5. Within(Openable, Openable')
  BY <1>1, <1>3 DEF Openable
<1>6. Right(views', reads', path', Openable')
  BY <1>1, <1>5, MoreOpen DEF AnswersInv, pageVars
<1>7. Standing' /\ Heard'
  BY <1>1 DEF AnswersInv, Standing, Heard, pageVars, ScreenNow
<1>. QED  BY <1>1, <1>3, <1>4, <1>6, <1>7 DEF AnswersInv

\* Who joins a channel has joined it.
LEMMA JoinedUser ==
  ASSUME NEW d, NEW u, NEW q, IsDatabase(d), u \in DOMAIN d.users, q[1] = "join"
  PROVE  SpaceForUser(Applied(d, u, q), u, q[2])
<1>. DEFINE joined == d.users[u].joined \cup {q[2]}
            account == [d.users[u] EXCEPT !.joined = joined]
            us == [d.users EXCEPT ![u] = account]
            d2 == Applied(d, u, q)
<1>1. d2 = [d EXCEPT !.users = us]
  BY Zenon DEF Applied
<1>2. account.joined = joined
  BY DEF IsDatabase, IsAccount, HasFields
<1>. HIDE DEF account
<1>3. us[u] = account
  OBVIOUS
<1>. HIDE DEF us, d2
<1>4. d2.users = us
  BY <1>1 DEF IsDatabase, HasFields
<1>. QED  BY <1>2, <1>3, <1>4 DEF SpaceForUser, d2

\* An account New API makes is one that is bound.
LEMMA AccountDatabase ==
  ASSUME NEW d, NEW u, NEW s, IsDatabase(d), u \in DOMAIN d.users, SpaceForUser(d, u, s)
  PROVE  LET d2 == WithAccountAt(d, u, s)
         IN  IsDatabase(d2) /\ u \in DOMAIN d2.users /\ Within(OpenTo(d, u), OpenTo(d2, u))
<1>. DEFINE q == <<"bind", s>>
<1>1. Permitted(d, u, q) /\ Accepted(d, u, q) /\ q[1] # "join"
  BY DEF Permitted, Accepted
<1>2. Applied(d, u, q) = WithAccountAt(d, u, s)
  BY Zenon DEF Applied, WithAccountAt
<1>. HIDE DEF q
<1>. QED  BY <1>1, <1>2, AppliedDatabase

\* The server makes an account before it answers a read of a channel.
LEMMA AccountAnswers ==
  ASSUME PagesInv, AnswersInv, NEW r \in reads, AccountMade(r)
  PROVE  AnswersInv'
<1>. DEFINE told == IF r.view = "detail" THEN Tell(db, session, r.view, r.key) ELSE TellMember(db, session, r.key)
            x == [r EXCEPT !.phase = "answered", !.ok = TRUE, !.pure = r.pure /\ saves = {}, !.answer = <<r.view, told>>]
<1>1. /\ db' = WithAccountAt(db, session, r.key) /\ UNCHANGED <<pageVars, session, saves>>
      /\ reads' = {Unaware(s) : s \in reads \ {r}} \cup {x}
      /\ views' = [v \in DOMAIN views |-> IF v = "bindings" THEN [views[v] EXCEPT !.clean = FALSE] ELSE views[v]]
  BY Zenon DEF AccountMade
<1>2. IsDatabase(db) /\ session \in DOMAIN db.users /\ SpaceForUser(db, session, r.key) /\ r.view \in ChannelLookups
  BY DEF AnswersInv, AccountMade
<1>3. IsDatabase(db') /\ session' \in DOMAIN db'.users /\ Within(Openable, Openable')
  BY <1>1, <1>2, AccountDatabase DEF Openable
<1>4. (\A s \in reads : IsRead(s)) /\ \A v \in DOMAIN views : IsView(views[v])
  BY DEF PagesInv, Tidy, TidyRead, TidyView
<1>5. x.view = r.view /\ x.key = r.key /\ x.current = r.current
  <2>. DEFINE pure == r.pure /\ saves = {}
              answer == <<r.view, told>>
  <2>. HIDE DEF pure, answer
  <2>1. x = [r EXCEPT !.phase = "answered", !.ok = TRUE, !.pure = pure, !.answer = answer]
    BY DEF pure, answer
  <2>. HIDE DEF x
  <2>. QED  BY <2>1, <1>4 DEF IsRead, HasFields, ReadFields
<1>. HIDE DEF x
<1>6. ASSUME NEW s \in reads'
      PROVE  \E o \in reads : /\ s.view = o.view /\ s.key = o.key /\ s.current = o.current
                              /\ (s.ok = o.ok /\ s.answer = o.answer) \/ o.view \in ChannelLookups
  <2>1. CASE s = x
    BY <2>1, <1>2, <1>5
  <2>2. CASE s # x
    <3>1. PICK o \in reads : s = Unaware(o)
      BY <2>2, <1>1
    <3>. QED  BY <3>1, <1>4, UnawareRead DEF Like
  <2>. QED  BY <2>1, <2>2
<1>7. \A v \in ChannelLookups : v \notin ChannelLists \cup {"overview"}
  BY DEF ChannelLookups, ChannelLists
<1>8. Right(views, reads', path, Openable)
  <2>1. ASSUME NEW s \in reads'  PROVE RightRead(s, views, path, Openable)
    <3>1. PICK o \in reads : /\ s.view = o.view /\ s.key = o.key /\ s.current = o.current
                             /\ (s.ok = o.ok /\ s.answer = o.answer) \/ o.view \in ChannelLookups
      BY <1>6
    <3>2. RightRead(o, views, path, Openable)
      BY DEF AnswersInv, Right
    <3>. QED  BY <3>1, <3>2, <1>7 DEF RightRead
  <2>. QED  BY <2>1 DEF AnswersInv, Right
<1>9. Edits(views, views')
  <2>1. \A v, w : IsView(w) => Edited(v, w, [w EXCEPT !.clean = FALSE]) /\ Edited(v, w, w)
    BY DEF Edited, SameBooks, IsView, HasFields, ViewFields
  <2>. QED  BY <2>1, <1>1, <1>4 DEF Edits
<1>10. Right(views', reads', path, Openable) /\ DOMAIN views' = DOMAIN views
  BY <1>8, <1>9, EditsRight
<1>11. Right(views', reads', path', Openable')
  BY <1>1, <1>3, <1>10, MoreOpen DEF pageVars
<1>12. Standing'
  <2>1. DOMAIN views' = NamesOf(ScreenNow, path, views'["overview"])
    BY <1>9, EditsStand DEF AnswersInv
  <2>. QED  BY <2>1, <1>1 DEF Standing, pageVars, ScreenNow
<1>13. Heard'
  BY <1>6, <1>10 DEF AnswersInv, Heard
<1>. QED  BY <1>1, <1>3, <1>11, <1>12, <1>13 DEF AnswersInv

\* The server handles a join, and New API makes an account with it.
LEMMA JoinedAtOnce ==
  ASSUME AnswersInv, NEW a \in saves, JoinedWithAccount(a)
  PROVE  AnswersInv'
<1>. DEFINE joined == Applied(db, session, a.q)
            after == WithAccountAt(joined, session, a.q[2])
            told == <<a.q[1], Told(after, session, a.q)>>
            answer == [a EXCEPT !.phase = "answered", !.ok = TRUE, !.told = told]
<1>1. db' = after /\ saves' = (saves \ {a}) \cup {answer} /\ UNCHANGED <<pageVars, session, views, reads>>
  BY Zenon DEF JoinedWithAccount
<1>2. IsDatabase(db) /\ session \in DOMAIN db.users /\ IsSave(a) /\ a.q[1] = "join" /\ a.q[2] \in Spaces
  BY DEF AnswersInv, JoinedWithAccount, IsSave
<1>3. IsDatabase(joined) /\ session \in DOMAIN joined.users /\ Within(Openable, OpenTo(joined, session))
  <2>1. Permitted(db, session, a.q) /\ Accepted(db, session, a.q)
    BY <1>2 DEF Permitted, Accepted
  <2>. QED  BY <2>1, <1>2, AppliedDatabase DEF Openable
<1>4. SpaceForUser(joined, session, a.q[2])
  BY <1>2, JoinedUser DEF SpaceForUser
<1>. HIDE DEF joined
<1>5. IsDatabase(after) /\ session \in DOMAIN after.users /\ Within(OpenTo(joined, session), OpenTo(after, session))
  BY <1>3, <1>4, AccountDatabase
<1>6. IsSave(answer)
  <2>. HIDE DEF told
  <2>. QED  BY <1>2 DEF IsSave
<1>. HIDE DEF after, answer
<1>7. Within(Openable, Openable')
  BY <1>1, <1>3, <1>5 DEF Openable, Within
<1>8. Right(views', reads', path', Openable')
  BY <1>1, <1>7, MoreOpen DEF AnswersInv, pageVars
<1>9. Standing' /\ Heard'
  BY <1>1 DEF AnswersInv, Standing, Heard, pageVars, ScreenNow
<1>. QED  BY <1>1, <1>2, <1>5, <1>6, <1>8, <1>9 DEF AnswersInv

\* An answer to a request gets lost.
LEMMA LostAnswers ==
  ASSUME PagesInv, AnswersInv, NEW a \in saves, LoseReply(a)
  PROVE  AnswersInv'
<1>1. UNCHANGED <<pageVars, session, db, reads>> /\ saves' = saves \ {a}
      /\ (views' = views \/ views' = Soiled(views))
  BY DEF LoseReply
<1>2. Edits(views, views')
  BY <1>1, EditsMade DEF PagesInv, Tidy, TidyView
<1>3. Right(views', reads', path, Openable) /\ DOMAIN views' = DOMAIN views
  BY <1>1, <1>2, EditsRight DEF AnswersInv
<1>4. Standing'
  <2>1. DOMAIN views' = NamesOf(ScreenNow, path, views'["overview"])
    BY <1>2, EditsStand DEF AnswersInv
  <2>. QED  BY <2>1, <1>1 DEF Standing, pageVars, ScreenNow
<1>5. Heard'
  BY <1>1, <1>3 DEF AnswersInv, Heard
<1>. QED  BY <1>1, <1>3, <1>4, <1>5, QuietStep DEF Quiet, AnswersInv, pageVars

\* At first there are no pages, and a database as its story says.
LEMMA InitAnswers == Init => AnswersInv
<1>. SUFFICES ASSUME Init  PROVE AnswersInv
  OBVIOUS
<1>1. DOMAIN views = {} /\ reads = {} /\ saves = {} /\ user = Unknown
  BY DEF Init
<1>2. IsDatabase(db) /\ session \in DOMAIN db.users \cup {NoUser}
  BY StoriesAssumption DEF Init, Story
<1>3. Standing
  BY <1>1 DEF Standing, NamesOf, FirstViews, ScreenNow, Screen, ScreenAt
<1>4. Right(views, reads, path, Openable)
  BY <1>1, NothingWrong
<1>. QED  BY <1>1, <1>2, <1>3, <1>4 DEF AnswersInv, Heard

\* Every step keeps the invariant.
LEMMA NextAnswers ==
  ASSUME PagesInv, AnswersInv, [Next]_vars
  PROVE  AnswersInv'
<1>1. CASE Start \/ LogoutLobby \/ LogoutConsole \/ \E u : Login(u) \/ LoginConsole(u) \/ Register(u)
  BY <1>1, SessionsAnswer
<1>2. CASE \E p : Go(p)
  <2>1. Edits(views, views)
    BY EditsMade DEF PagesInv, Tidy, TidyView
  <2>. QED  BY <1>2, <2>1, EditAnswers DEF Go
<1>3. CASE \E s : OpenSpace(s)
  <2>1. Edits(views, views)
    BY EditsMade DEF PagesInv, Tidy, TidyView
  <2>. QED  BY <1>3, <2>1, EditAnswers DEF OpenSpace
<1>4. CASE ChooseBoard \/ TurnHands \/ TurnFunds \/ ScopeRankings \/ PickBalances \/ RefreshBalances
             \/ RefreshSheet \/ OpenKeys
  BY <1>4, ChoiceAnswers
<1>5. CASE CloseSheet \/ CloseKeys \/ Poll
  BY <1>5, CloseAnswers, PollAnswers
<1>6. ASSUME {"overview", "detail"} \subseteq DOMAIN views,
             NEW s \in ChannelDirectory(views["overview"].content), OpenSheet(s)
      PROVE  AnswersInv'
  BY <1>6, OpenSheetAnswers
<1>7. ASSUME NEW r \in reads, AnswerRead(r) \/ AccountMade(r) \/ ReadArrives(r)  PROVE AnswersInv'
  BY <1>7, ReadAnswers, AccountAnswers, ArrivalAnswers
<1>8. ASSUME NEW q \in Offers(user, path, ScreenNow, views), Submit(q)  PROVE AnswersInv'
  BY <1>8, SubmitAnswers
<1>9. ASSUME NEW a \in saves, HandleSave(a) \/ JoinedWithAccount(a) \/ LoseReply(a) \/ SaveArrives(a)
      PROVE  AnswersInv'
  BY <1>9, HandleAnswers, JoinedAtOnce, LostAnswers, SavedAnswers
<1>10. CASE UNCHANGED vars
  <2>1. UNCHANGED <<pageVars, session, views, reads, saves, db>>
    BY <1>10 DEF vars, pageVars
  <2>. QED  BY <2>1 DEF AnswersInv, Standing, Heard, pageVars, ScreenNow, Openable
<1>. QED
  BY <1>1, <1>2, <1>3, <1>4, <1>5, <1>6, <1>7, <1>8, <1>9, <1>10 DEF Next

\* What was told of the books is what the server would tell now.
LEMMA BooksTold ==
  ASSUME PagesInv, AnswersInv, Fresh, "overview" \in DOMAIN views, Loaded(views["overview"])
  PROVE  /\ Books.permissions = PermissionsForUser(db, session)
         /\ DOMAIN Books.spaces = AdminSpaces(db, session)
         /\ \A x \in DOMAIN Books.users : x \in DOMAIN db.users /\ Books.users[x].role = RoleOf(db, x)
<1>. DEFINE w == views["overview"]
            told == Overview(db, session)
            bare(us) == [x \in DOMAIN us |-> [us[x] EXCEPT !.joined = {}]]
<1>1. w.asked = Everything /\ BookFields \subseteq DOMAIN w.content
  BY DEF AnswersInv, Right, RightView
<1>2. w.shown # Nowhere
  BY <1>1, KeysAssumption DEF PagesInv, Tidy, TidyView
<1>3. Comparable(w.content) = Comparable(told)
  BY <1>2 DEF Fresh
<1>4. /\ DOMAIN told = {"users", "counts", "spaces", "tables", "permissions", "roles", "site"}
      /\ told.permissions = PermissionsForUser(db, session)
      /\ DOMAIN told.spaces = AdminSpaces(db, session)
      /\ DOMAIN told.users \subseteq DOMAIN db.users
      /\ \A x \in DOMAIN told.users : told.users[x] = db.users[x]
  BY DEF Overview
<1>5. Comparable(w.content) = [w.content EXCEPT !.users = bare(w.content.users)]
      /\ Comparable(told) = [told EXCEPT !.users = bare(told.users)]
  BY Zenon DEF Comparable
<1>. HIDE DEF told, bare
<1>6. DOMAIN w.content = DOMAIN told
  BY <1>3, <1>5
<1>7. w.content.permissions = told.permissions /\ w.content.spaces = told.spaces
  BY <1>3, <1>4, <1>5, <1>6, ZenonT(60)
<1>8. bare(w.content.users) = bare(told.users)
  BY <1>3, <1>4, <1>5, <1>6
<1>9. ASSUME NEW x \in DOMAIN Books.users
      PROVE  x \in DOMAIN db.users /\ Books.users[x].role = RoleOf(db, x)
  <2>1. x \in DOMAIN told.users
    <3>1. DOMAIN bare(w.content.users) = DOMAIN w.content.users /\ DOMAIN bare(told.users) = DOMAIN told.users
      BY DEF bare
    <3>. QED  BY <3>1, <1>8, <1>9 DEF Books
  <2>2. [w.content.users[x] EXCEPT !.joined = {}] = [db.users[x] EXCEPT !.joined = {}]
    <3>1. bare(w.content.users)[x] = [w.content.users[x] EXCEPT !.joined = {}]
      BY <1>9 DEF bare, Books
    <3>2. bare(told.users)[x] = [told.users[x] EXCEPT !.joined = {}]
      BY <2>1 DEF bare
    <3>. QED  BY <3>1, <3>2, <1>4, <1>8, <2>1
  <2>3. x \in DOMAIN db.users /\ "role" \in DOMAIN db.users[x]
    BY <2>1, <1>4 DEF AnswersInv, IsDatabase, IsAccount, HasFields
  <2>4. "role" \in DOMAIN w.content.users[x]
    BY <2>2, <2>3
  <2>5. w.content.users[x].role = db.users[x].role
    BY <2>2, <2>3, <2>4
  <2>. QED  BY <2>3, <2>5 DEF RoleOf, Books
<1>. QED  BY <1>4, <1>7, <1>9 DEF Books

\* Whoever has permissions has those they require.
LEMMA RightsClosed ==
  ASSUME NEW qs, NEW ps, ps \subseteq ExpandPermissions(qs)
  PROVE  ExpandPermissions(ps) \subseteq ExpandPermissions(qs)
<1>. DEFINE Once(xs) == xs \cup UNION {Requires(p) : p \in xs}
            all == Once(Once(qs))
<1>1. \A xs : ExpandPermissions(xs) = Once(Once(xs))
  BY DEF ExpandPermissions
<1>2. \A p, q : q \in Requires(p) => q \in {"users:read", "admin:view"}
  BY DEF Requires
<1>3. Requires("users:read") = {"admin:view"} /\ Requires("admin:view") = {}
  BY DEF Requires
<1>4. ASSUME NEW xs, NEW x  PROVE x \in Once(xs) <=> x \in xs \/ \E p \in xs : x \in Requires(p)
  OBVIOUS
<1>. HIDE DEF Once
<1>5. ASSUME NEW p \in all, NEW q \in Requires(p)  PROVE q \in all
  <2>1. CASE p \in Once(qs)
    BY <2>1, <1>4
  <2>2. CASE p \notin Once(qs)
    <3>1. PICK o \in Once(qs) : p \in Requires(o)
      BY <2>2, <1>4
    <3>2. o \notin qs
      BY <2>2, <3>1, <1>4
    <3>3. PICK n \in qs : o \in Requires(n)
      BY <3>1, <3>2, <1>4
    <3>4. o \in {"users:read", "admin:view"}
      BY <3>3, <1>2
    <3>5. p = "admin:view"
      BY <3>1, <3>4, <1>3
    <3>. QED  BY <3>5, <1>3
  <2>. QED  BY <2>1, <2>2
<1>6. Once(ps) \subseteq all
  BY <1>1, <1>4, <1>5
<1>7. Once(Once(ps)) \subseteq all
  BY <1>4, <1>5, <1>6
<1>. QED  BY <1>1, <1>7

\* The channels of the books are those their reader manages with his rights.
LEMMA ManagesToldSpaces ==
  ASSUME NEW d, NEW u, NEW s \in AdminSpaces(d, u), NEW p \in PermissionsForUser(d, u)
  PROVE  ManagesSpace(d, u, s, p)
BY DEF AdminSpaces, ManagesSpace, HasRight

\* Whose user is told by the server has the rights the server gives him.
LEMMA UserTold ==
  ASSUME Fresh, SignedIn(user)
  PROVE  /\ \A p : HasPermission(user, p) <=> HasRight(db, session, p)
         /\ user.id = session /\ (user.role = "super_admin" <=> IsSuper(db, session))
BY DEF Fresh, TellUser, HasPermission, HasRight, IsSuper

\* Nobody sees anything before the first answer, or signed out.
LEMMA SignedOutScreens ==
  ASSUME ~SignedIn(user)
  PROVE  ScreenNow \in {"wait", "auth", "admin_auth"}
BY DEF SignedIn, ScreenNow, Screen, ScreenAt, HasPermission

\* The console is shown to whoever may open it.
LEMMA ConsoleScreen ==
  ASSUME ScreenNow = "console"
  PROVE  SignedIn(user) /\ HasPermission(user, "admin:view")
BY DEF ScreenNow, Screen, ScreenAt, HasPermission

\* A section is shown with the rights its entry asks for.
LEMMA SectionTold ==
  ASSUME PagesInv, AnswersInv, Fresh, ScreenNow = "console", Loaded(views["overview"]),
         NEW section, SectionAllowed(Books, section)
  PROVE  /\ section \in Sections
         /\ section = "users"    => \E p \in {"users:read", "users:manage"} : HasRight(db, session, p)
         /\ section = "roles"    => HasRight(db, session, "roles:manage")
         /\ section = "channels" => HasRight(db, session, "channels:manage")
         /\ section = "balances" => HasRight(db, session, "balances:manage")
         /\ section = "rankings" => HasRight(db, session, "rankings:manage")
<1>1. "overview" \in DOMAIN views
  BY NamedViews DEF AnswersInv, Standing
<1>2. Books.permissions = PermissionsForUser(db, session)
  BY <1>1, BooksTold
<1>. QED  BY <1>2 DEF SectionAllowed, Sections, HasRight

\* A section's view stands in that section alone, once the books have been told.
LEMMA SectionStands ==
  ASSUME AnswersInv, ScreenNow = "console", NEW v \in DOMAIN views, v \in SectionViews
  PROVE  /\ Loaded(views["overview"]) /\ SectionAllowed(Books, SectionOf(path))
         /\ SectionOf(path) = CASE v = "balances" -> "balances" [] v = "rankings" -> "rankings" [] v = "detail" -> "channels"
<1>1. v \in ConsoleViews(path, views["overview"])
  BY DEF AnswersInv, Standing, NamesOf, FirstViews, SectionViews
<1>. QED  BY <1>1 DEF ConsoleViews, SectionViews, SectionOf, Books

\* The channels the console offers to manage are managed by its user.
LEMMA SectionManages ==
  ASSUME PagesInv, AnswersInv, Fresh, ScreenNow = "console", NEW v \in DOMAIN views, v \in ChannelViews,
         NEW s \in Manageable(views, path)
  PROVE  /\ v = "balances" => ManagesSpace(db, session, s, "balances:manage")
         /\ v = "detail"   => CanManage(db, session, s)
<1>1. "overview" \in DOMAIN views
  BY NamedViews DEF AnswersInv, Standing
<1>2. Loaded(views["overview"]) /\ SectionAllowed(Books, SectionOf(path))
      /\ SectionOf(path) = IF v = "balances" THEN "balances" ELSE "channels"
  BY SectionStands DEF ChannelViews, SectionViews
<1>3. s \in AdminSpaces(db, session)
  BY <1>1, <1>2, BooksTold DEF Manageable, Books
<1>4. HasRight(db, session, IF v = "balances" THEN "balances:manage" ELSE "channels:manage")
  BY <1>2, SectionTold
<1>. QED  BY <1>3, <1>4, ManagesToldSpaces DEF HasRight, CanManage, ChannelViews

\* What App and the room were told of a channel, as its members see it or in full.
LEMMA SpaceTold ==
  ASSUME NEW sel, Opens(sel)
  PROVE  /\ SpaceForActor(db, session, sel.id)
         /\ sel.is_owner <=> db.owner[sel.id] = session
         /\ sel.can_manage => CanManage(db, session, sel.id)
<1>. DEFINE s == sel.id
            full == TellSpace(db, session, s)
            told == TellMember(db, session, s)
<1>1. sel = full \/ sel = told
  BY DEF Opens
<1>2. (full.is_owner <=> db.owner[s] = session) /\ (full.can_manage <=> CanManage(db, session, s))
  BY DEF TellSpace
<1>3. told.is_owner = full.is_owner /\ told.can_manage = (db.owner[s] = session)
  BY DEF TellMember, TellSpace
<1>4. db.owner[s] = session => CanManage(db, session, s)
  BY DEF CanManage, ManagesSpace
<1>. HIDE DEF full, told
<1>5. (sel.is_owner <=> db.owner[s] = session) /\ (sel.can_manage => CanManage(db, session, s))
  BY <1>1, <1>2, <1>3, <1>4
<1>. QED  BY <1>5 DEF Opens

\* The balances of a channel are shown to its owner, or to one who manages
\* balances somewhere.
LEMMA BalancesScreen ==
  ASSUME AnswersInv, Fresh, ScreenNow = "balances", NEW s \in Manageable(views, path)
  PROVE  ManagesSpace(db, session, s, "balances:manage") \/ KnownRefusal(<<"adjust", s>>)
<1>1. "overview" \notin DOMAIN views
  BY NamedViews DEF AnswersInv, Standing
<1>2. s = ChannelOf(path)
  BY <1>1 DEF Manageable
<1>3. SignedIn(user) /\ selected.id = s /\ (selected.is_owner \/ HasPermission(user, "balances:manage"))
  BY <1>2 DEF ScreenNow, Screen, ScreenAt, ChannelPages, ChannelOf, SignedIn
<1>4. CASE selected.is_owner
  <2>1. Opens(selected)
    BY DEF Fresh
  <2>2. db.owner[s] = session
    BY <1>3, <1>4, <2>1, SpaceTold
  <2>. QED  BY <2>2 DEF ManagesSpace
<1>5. CASE HasPermission(user, "balances:manage")
  <2>1. HasRight(db, session, "balances:manage")
    BY <1>3, <1>5, UserTold
  <2>. QED  BY <2>1 DEF KnownRefusal
<1>. QED  BY <1>3, <1>4, <1>5

\* What the section of the users offers is permitted, but for the known
\* refusals.
LEMMA UsersPermitted ==
  ASSUME PagesInv, AnswersInv, Fresh, ScreenNow = "console", Loaded(views["overview"]),
         NEW q \in UsersSection(Books, user)
  PROVE  Permitted(db, session, q) \/ KnownRefusal(q)
<1>0. "overview" \in DOMAIN views /\ SignedIn(user)
  BY NamedViews, ConsoleScreen DEF AnswersInv, Standing
<1>1. \A p : p \in Books.permissions <=> HasRight(db, session, p)
  BY <1>0, BooksTold DEF HasRight
<1>2. \A x \in DOMAIN Books.users : x \in DOMAIN db.users /\ Books.users[x].role = RoleOf(db, x)
  BY <1>0, BooksTold
<1>3. user.id = session /\ (user.role = "super_admin" <=> IsSuper(db, session))
  BY <1>0, UserTold
<1>. HIDE DEF Books
<1>4. CASE q[1] = "user_new"
  <2>1. HasRight(db, session, "users:manage") /\ (HasRight(db, session, "roles:manage") \/ q[3] = "player")
    BY <1>4, <1>1, UsersOffered
  <2>. QED  BY <1>4, <2>1 DEF Permitted, PermittedUserChange, RightFor, KnownRefusal
<1>5. CASE q[1] \in {"user_edit", "user_delete"}
  <2>1. q[2] \in DOMAIN Books.users /\ CanEdit(Books, user, q[2])
    BY <1>5, UsersOffered
  <2>2. /\ HasRight(db, session, "users:manage") /\ q[2] # session
        /\ HasRight(db, session, "roles:manage") \/ RoleOf(db, q[2]) = "player"
    BY <2>1, <1>1, <1>2, <1>3 DEF CanEdit
  <2>3. CASE q[1] = "user_edit"
    BY <2>2, <2>3 DEF Permitted, PermittedUserChange, RightFor, KnownRefusal, IsSuper
  <2>4. CASE q[1] = "user_delete"
    <3>1. q[3] \in BOOLEAN /\ (q[3] => IsSuper(db, session))
      BY <2>4, <1>3, UsersOffered
    <3>. QED  BY <2>2, <2>4, <3>1 DEF Permitted, PermittedUserChange, RightFor, KnownRefusal, IsSuper
  <2>. QED  BY <1>5, <2>3, <2>4
<1>. QED  BY <1>4, <1>5, UsersOffered

\* What the section of the roles offers is permitted.
LEMMA RolesPermitted ==
  ASSUME PagesInv, AnswersInv, Fresh, ScreenNow = "console", Loaded(views["overview"]),
         HasRight(db, session, "roles:manage"), NEW q \in RoleManager(Books)
  PROVE  Permitted(db, session, q)
<1>1. Books.permissions = PermissionsForUser(db, session)
  BY BooksTold, NamedViews DEF AnswersInv, Standing
<1>2. q[1] = "role_save" => q[3] \subseteq PermissionsForUser(db, session)
  BY <1>1, RolesOffered
<1>3. q[1] = "role_save" /\ ~IsSuper(db, session) => ExpandPermissions(q[3]) \subseteq PermissionsForUser(db, session)
  BY <1>2, RightsClosed DEF PermissionsForUser
<1>4. q[1] \in {"role_save", "role_delete"}
  BY RolesOffered
<1>. QED  BY <1>3, <1>4 DEF Permitted, RightFor

\* What the console offers is permitted, but for the known refusals.
LEMMA ConsolePermitted ==
  ASSUME PagesInv, AnswersInv, Fresh, ScreenNow = "console", NEW q \in AdminConsole(user, path, views)
  PROVE  Permitted(db, session, q) \/ KnownRefusal(q)
<1>. DEFINE section == SectionOf(path)
<1>1. Loaded(views["overview"]) /\ SectionAllowed(Books, section)
  BY DEF AdminConsole, Books, SectionOf
<1>2. \A p : p \in Books.permissions <=> HasRight(db, session, p)
  BY <1>1, BooksTold, NamedViews DEF AnswersInv, Standing, HasRight
<1>3. SectionViews \cap DOMAIN views = SectionViews \cap ConsoleViews(path, views["overview"])
  BY DEF AnswersInv, Standing, NamesOf, FirstViews, SectionViews
<1>. HIDE DEF section, Books
<1>4. CASE section = "users"
  <2>1. q \in UsersSection(Books, user)
    BY <1>1, <1>4 DEF AdminConsole, Books, section, SectionOf
  <2>. QED  BY <2>1, <1>1, UsersPermitted
<1>5. CASE section = "roles"
  <2>1. q \in RoleManager(Books)
    BY <1>1, <1>5 DEF AdminConsole, Books, section, SectionOf
  <2>. QED  BY <2>1, <1>1, <1>5, SectionTold, RolesPermitted
<1>6. CASE section = "rankings"
  <2>1. q \in RankingManager(Books, views["rankings"])
    BY <1>1, <1>6 DEF AdminConsole, Books, section, SectionOf
  <2>2. q[1] \in {"hide", "reset", "amount"}
    BY <2>1 DEF RankingManager
  <2>3. HasRight(db, session, "rankings:manage")
    BY <1>1, <1>6, SectionTold
  <2>. QED  BY <2>2, <2>3 DEF Permitted, RightFor
<1>7. CASE section = "channels"
  <2>1. q \in ChannelManager(views["detail"])
    BY <1>1, <1>7 DEF AdminConsole, Books, section, SectionOf
  <2>2. views["detail"].asked # Nowhere /\ q[2] = views["detail"].asked
        /\ q[1] \in {"connection", "table_clear", "table_delete"}
    BY <2>1 DEF ChannelManager
  <2>3. "detail" \in DOMAIN views
    BY <1>1, <1>3, <1>7 DEF ConsoleViews, SectionViews, Books, section, SectionOf
  <2>4. q[2] \in Manageable(views, path)
    BY <2>2, <2>3 DEF AnswersInv, Right, RightView, ChannelViews
  <2>5. CanManage(db, session, q[2])
    BY <2>3, <2>4, SectionManages DEF ChannelViews
  <2>. QED  BY <2>2, <2>5 DEF Permitted
<1>8. CASE section = "balances"
  <2>1. q \in BalanceManager(views["balances"])
    BY <1>1, <1>8 DEF AdminConsole, Books, section, SectionOf
  <2>2. views["balances"].asked # Nowhere /\ q[2] = views["balances"].asked /\ q[1] = "adjust"
    BY <2>1 DEF BalanceManager
  <2>3. "balances" \in DOMAIN views
    BY <1>1, <1>3, <1>8 DEF ConsoleViews, SectionViews, Books, section, SectionOf
  <2>4. q[2] \in Manageable(views, path)
    BY <2>2, <2>3 DEF AnswersInv, Right, RightView, ChannelViews
  <2>5. ManagesSpace(db, session, q[2], "balances:manage")
    BY <2>3, <2>4, SectionManages DEF ChannelViews
  <2>. QED  BY <2>2, <2>5 DEF Permitted
<1>9. CASE section = "settings"
  <2>1. q \in Branding(Books) \cup LoginHero(Books) \cup WeChatLoginSettings(Books) \cup RegistrationPolicy(Books)
    BY <1>1, <1>9 DEF AdminConsole, Books, section, SectionOf
  <2>2. CASE q \in Branding(Books) \cup LoginHero(Books)
    <3>1. q[1] \in {"name", "icon", "hero"} /\ HasRight(db, session, "branding:manage")
      BY <2>2, <1>2 DEF Branding, LoginHero
    <3>. QED  BY <3>1 DEF Permitted, RightFor
  <2>3. CASE q \in WeChatLoginSettings(Books)
    <3>1. q[1] = "wechat" /\ HasRight(db, session, "auth_settings:manage")
      BY <2>3, <1>2 DEF WeChatLoginSettings
    <3>. QED  BY <3>1 DEF Permitted, RightFor
  <2>4. CASE q \in RegistrationPolicy(Books)
    <3>1. q[1] = "registration" /\ HasRight(db, session, "registration:manage")
      BY <2>4, <1>2 DEF RegistrationPolicy
    <3>. QED  BY <3>1 DEF Permitted, RightFor
  <2>. QED  BY <2>1, <2>2, <2>3, <2>4
<1>. QED  BY <1>1, <1>4, <1>5, <1>6, <1>7, <1>8, <1>9, SectionTold DEF Sections

\* Whatever a page offers is permitted, but for the known refusals.
LEMMA OffersPermitted ==
  ASSUME PagesInv, AnswersInv, Fresh, NEW q \in Offers(user, path, ScreenNow, views)
  PROVE  Permitted(db, session, q) \/ KnownRefusal(q)
<1>0. Standing
  BY DEF AnswersInv
<1>1. CASE ScreenNow = "lobby"
  <2>1. q[1] = "join"
    BY <1>1 DEF Offers, SpaceDialog
  <2>. QED  BY <2>1 DEF Permitted
<1>2. CASE ScreenNow = "room"
  <2>. DEFINE space == views["about"].content
  <2>1. q \in ChannelMain(views)
    BY <1>2 DEF Offers
  <2>2. q[1] \in {"table_new", "table_clear", "table_delete"} /\ q[2] = space.id /\ space.can_manage
    BY <2>1 DEF ChannelMain, CreateTableDialog, TableManagement
  <2>3. "about" \in DOMAIN views
    BY <1>0, <1>2 DEF Standing, NamesOf, FirstViews
  <2>4. Opens(space)
    BY <2>3 DEF Fresh
  <2>5. CanManage(db, session, q[2])
    BY <2>2, <2>4, SpaceTold
  <2>. QED  BY <2>2, <2>5 DEF Permitted
<1>3. CASE ScreenNow = "bindings"
  <2>1. q[1] = "bind" /\ q[2] \in DOMAIN views["bindings"].content
    BY <1>3 DEF Offers, BindingDialog
  <2>2. "bindings" \in DOMAIN views
    BY <1>0, <1>3 DEF Standing, NamesOf, FirstViews
  <2>3. q[2] \in Openable["bindings"]
    BY <2>1, <2>2 DEF AnswersInv, Right, RightView, ChannelLists
  <2>4. SpaceForUser(db, session, q[2])
    BY <2>3 DEF Openable, OpenTo, ChannelLists
  <2>. QED  BY <2>1, <2>4 DEF Permitted
<1>4. CASE ScreenNow = "settings"
  <2>1. q[1] \in {"profile", "avatar", "credentials", "key", "revoke", "agent"}
    BY <1>4 DEF Offers, ProfileSettings, AccountSecuritySettings, MCPKeySettings
  <2>. QED  BY <2>1 DEF Permitted
<1>5. CASE ScreenNow = "balances"
  <2>1. views["balances"].asked # Nowhere /\ q = <<"adjust", views["balances"].asked>>
    BY <1>5 DEF Offers, BalanceManager
  <2>2. "balances" \in DOMAIN views
    BY <1>0, <1>5 DEF Standing, NamesOf, FirstViews
  <2>3. views["balances"].asked \in Manageable(views, path)
    BY <2>1, <2>2 DEF AnswersInv, Right, RightView, ChannelViews
  <2>4. ManagesSpace(db, session, views["balances"].asked, "balances:manage") \/ KnownRefusal(q)
    BY <1>5, <2>1, <2>3, BalancesScreen
  <2>5. q[1] = "adjust" /\ q[2] = views["balances"].asked
    BY <2>1
  <2>. QED  BY <2>4, <2>5 DEF Permitted
<1>6. CASE ScreenNow = "console"
  <2>1. q \in AdminConsole(user, path, views)
    BY <1>6 DEF Offers
  <2>. QED  BY <1>6, <2>1, ConsolePermitted
<1>. QED  BY <1>1, <1>2, <1>3, <1>4, <1>5, <1>6 DEF Offers

\* Who works with a channel has joined it, or is an outsider.
LEMMA InOrOut ==
  ASSUME NEW s, SpaceForActor(db, session, s)
  PROVE  SpaceForUser(db, session, s) \/ Outsider(s)
BY DEF SpaceForActor, Outsider

\* A page loads by itself nothing the server would refuse, but for the known
\* refusals.
LEMMA ReadsPermitted ==
  ASSUME PagesInv, AnswersInv, Fresh, NEW r \in reads, r.current, r.view # "space"
  PROVE  PermittedRead(db, session, r.view, Subject(r)) \/ KnownReadRefusal(r)
<1>1. r.view \in DOMAIN views /\ RightView(r.view, views[r.view], views, path, Openable)
      /\ RightRead(r, views, path, Openable)
  BY DEF AnswersInv, Heard, Right
<1>2. Standing
  BY DEF AnswersInv
<1>0. r.view \notin {"hands", "funds"} => Subject(r) = r.key
  BY DEF Subject
<1>3. CASE r.view \in {"about", "tables"}
  <2>1. ScreenNow = "room"
    BY <1>1, <1>3, PlacedNames DEF PagesInv, Placed, RoomViews
  <2>2. "about" \in DOMAIN views
    BY <1>2, <2>1 DEF Standing, NamesOf, FirstViews
  <2>3. SpaceForActor(db, session, ChannelOf(path))
    BY <2>2 DEF Fresh, Opens
  <2>. QED  BY <1>0, <1>3, <2>3 DEF PermittedRead, KnownReadRefusal
<1>4. CASE r.view = "board"
  <2>1. r.key = views["board"].asked
    BY <1>1, <1>4 DEF PagesInv, Tidy, TidyRead, RoomViews, Awaited
  <2>2. r.key = Everything \/ r.key \in Openable["spaces"]
    BY <1>1, <1>4, <2>1 DEF RightView
  <2>3. r.key \in Openable["spaces"] => SpaceForActor(db, session, r.key)
    BY DEF Openable, OpenTo, ChannelLists
  <2>. QED  BY <1>0, <1>4, <2>2, <2>3, InOrOut DEF PermittedRead, KnownReadRefusal
<1>8. CASE r.view \in {"hands", "funds"}
  <2>1. ScreenNow = "history"
    BY <1>1, <1>2, <1>8, NamedViews DEF Standing, NamesOf, FirstViews, SectionViews
  <2>2. selected.id = ChannelOf(path)
    BY <2>1 DEF ScreenNow, Screen, ScreenAt, ChannelPages, ChannelOf
  <2>3. SpaceForActor(db, session, ChannelOf(path))
    BY <2>1, <2>2 DEF Fresh, Opens
  <2>. QED  BY <1>8, <2>3, InOrOut DEF PermittedRead, KnownReadRefusal, Subject
<1>5. CASE r.view = "overview"
  <2>1. ScreenNow = "console"
    BY <1>1, <1>2, <1>5, NamedViews DEF Standing
  <2>2. HasRight(db, session, "admin:view")
    BY <2>1, ConsoleScreen, UserTold
  <2>. QED  BY <1>0, <1>5, <2>2 DEF PermittedRead
<1>6. CASE r.view = "rankings"
  <2>1. ScreenNow = "console"
    BY <1>1, <1>2, <1>6, NamedViews DEF Standing, NamesOf
  <2>2. Loaded(views["overview"]) /\ SectionAllowed(Books, SectionOf(path)) /\ SectionOf(path) = "rankings"
    BY <1>1, <1>6, <2>1, SectionStands DEF SectionViews
  <2>3. HasRight(db, session, "rankings:manage")
    BY <2>1, <2>2, SectionTold
  <2>. QED  BY <1>0, <1>6, <2>3 DEF PermittedRead
<1>7. CASE r.view \in ChannelViews
  <2>1. r.key \in Manageable(views, path)
    BY <1>1, <1>7 DEF RightRead
  <2>2. ScreenNow = "console" \/ (ScreenNow = "balances" /\ r.view = "balances")
    BY <1>1, <1>2, <1>7, NamedViews DEF Standing, NamesOf, ChannelViews
  <2>3. CASE ScreenNow = "console"
    <3>1. /\ r.view = "balances" => ManagesSpace(db, session, r.key, "balances:manage")
          /\ r.view = "detail" => CanManage(db, session, r.key)
      BY <1>1, <1>7, <2>1, <2>3, SectionManages
    <3>. QED  BY <1>0, <1>7, <3>1 DEF PermittedRead, ChannelViews
  <2>4. CASE ScreenNow = "balances" /\ r.view = "balances"
    <3>1. ManagesSpace(db, session, r.key, "balances:manage") \/ KnownRefusal(<<"adjust", r.key>>)
      BY <2>1, <2>4, BalancesScreen
    <3>. QED  BY <1>0, <2>4, <3>1 DEF PermittedRead, KnownReadRefusal
  <2>. QED  BY <2>2, <2>3, <2>4
<1>. QED  BY <1>3, <1>4, <1>5, <1>6, <1>7, <1>8 DEF PermittedRead, ChannelViews

\* A page that its user may see.
OpensFor(p) ==
  Screen(user, p, selected) \notin {"auth", "admin_auth", "refused"} /\ ParseRoute(p).page # "not_found"

\* A page of the game opens for whoever is signed in, the console for who may
\* open it, the balances of the selected channel for who may see them.
LEMMA PageOpens ==
  ASSUME SignedIn(user), NEW p, ParseRoute(p).page # "not_found",
         ParseRoute(p).page \in {"admin", "admin_login"} => HasPermission(user, "admin:view"),
         ParseRoute(p).page = "channel_balances" /\ selected # Nothing /\ selected.id = ParseRoute(p).channel =>
           selected.is_owner \/ HasPermission(user, "balances:manage")
  PROVE  OpensFor(p)
BY DEF OpensFor, Screen, ScreenAt, SignedIn, ChannelPages

\* The addresses the pages link to.
LEMMA KnownRoutes ==
  /\ ParseRoute(<< >>).page = "ranking"
  /\ ParseRoute(<<"channels">>).page = "channel_list"
  /\ ParseRoute(<<"settings">>).page = "settings"
  /\ ParseRoute(<<"account", "bindings">>).page = "account_bindings"
  /\ ParseRoute(<<"admin">>).page = "admin"
<1>1. ParseRoute(<< >>).page = "ranking"
  BY DEF ParseRoute, At
<1>2. ParseRoute(<<"channels">>).page = "channel_list"
  BY DEF ParseRoute, At
<1>3. ParseRoute(<<"settings">>).page = "settings"
  BY DEF ParseRoute, At
<1>4. ParseRoute(<<"account", "bindings">>).page = "account_bindings"
  BY DEF ParseRoute, At
<1>5. ParseRoute(<<"admin">>).page = "admin"
  BY DEF ParseRoute, AtSection
<1>. QED  BY <1>1, <1>2, <1>3, <1>4, <1>5

\* The addresses of a channel and of a section.
LEMMA KnownPlaces ==
  ASSUME NEW s
  PROVE  /\ ParseRoute(<<"channels", s>>).page = "channel"
         /\ ParseRoute(<<"channels", s, "history">>).page = "channel_history"
         /\ ParseRoute(<<"channels", s, "balances">>) = AtChannel("channel_balances", s)
         /\ s \in Sections => ParseRoute(<<"admin", s>>).page = "admin"
<1>1. ParseRoute(<<"channels", s>>).page = "channel"
  BY DEF ParseRoute, AtChannel
<1>2. ParseRoute(<<"channels", s, "history">>).page = "channel_history"
  BY DEF ParseRoute, AtChannel
<1>3. ParseRoute(<<"channels", s, "balances">>) = AtChannel("channel_balances", s)
  BY DEF ParseRoute
<1>4. s \in Sections => ParseRoute(<<"admin", s>>).page = "admin"
  BY DEF ParseRoute, AtSection, Sections
<1>. QED  BY <1>1, <1>2, <1>3, <1>4

\* Every link of a page leads to a page its user may see.
LEMMA LinksOpen ==
  ASSUME AnswersInv, Fresh, SignedIn(user), NEW p \in Links(user, path, ScreenNow, views)
  PROVE  OpensFor(p)
<1>0. Standing
  BY DEF AnswersInv
<1>1. ASSUME NEW s, p = <<"channels", s>> \/ p = <<"channels", s, "history">>  PROVE OpensFor(p)
  BY <1>1, KnownPlaces, PageOpens
<1>2. ASSUME p \in {<< >>, <<"channels">>, <<"account", "bindings">>, <<"settings">>}  PROVE OpensFor(p)
  BY <1>2, KnownRoutes, PageOpens
<1>3. ASSUME HasPermission(user, "admin:view"),
             p = <<"admin">> \/ \E section \in Sections : p = <<"admin", section>>
      PROVE  OpensFor(p)
  BY <1>3, KnownRoutes, KnownPlaces, PageOpens
<1>4. CASE ScreenNow = "lobby"
  BY <1>2, <1>3, <1>4 DEF Links, GameHeader
<1>5. CASE ScreenNow = "room"
  <2>. DEFINE space == views["about"].content
  <2>1. "about" \in DOMAIN views
    BY <1>0, <1>5 DEF Standing, NamesOf, FirstViews
  <2>2. Opens(space) /\ Opens(selected)
    BY <1>5, <2>1 DEF Fresh
  <2>5. (space.is_owner <=> db.owner[space.id] = session) /\ (selected.is_owner <=> db.owner[selected.id] = session)
    BY <2>2, SpaceTold
  <2>. HIDE DEF space
  <2>3. p \in ChannelHeader(user, space)
    BY <1>5 DEF Links, space
  <2>4. CASE p = <<"channels", space.id, "balances">> /\ (space.is_owner \/ HasPermission(user, "balances:manage"))
    <3>1. ParseRoute(p) = AtChannel("channel_balances", space.id)
      BY <2>4, KnownPlaces
    <3>2. selected.id = space.id => selected.is_owner \/ HasPermission(user, "balances:manage")
      BY <2>4, <2>5
    <3>. QED  BY <3>1, <3>2, PageOpens DEF AtChannel
  <2>. QED  BY <1>1, <1>2, <2>3, <2>4 DEF ChannelHeader
<1>6. CASE ScreenNow = "console"
  <2>1. HasPermission(user, "admin:view")
    BY <1>6, ConsoleScreen
  <2>2. p \in AppSidebar(user) \cup NavUser
    BY <1>6 DEF Links
  <2>3. p \in {<<"channels">>, <<"settings">>} \/ p = <<"admin">> \/ \E section \in Sections : p = <<"admin", section>>
    BY <2>2 DEF AppSidebar, NavUser, MenuSections
  <2>. QED  BY <1>2, <1>3, <2>1, <2>3
<1>7. CASE ScreenNow = "bindings"
  BY <1>1, <1>2, <1>7 DEF Links, AccountBindings
<1>8. CASE ScreenNow \in {"balances", "refused"}
  BY <1>1, <1>8 DEF Links
<1>. QED  BY <1>4, <1>5, <1>6, <1>7, <1>8 DEF Links

\* The console shows every section its menu lists.
LEMMA MenuShown ==
  ASSUME PagesInv, AnswersInv, Fresh, SignedIn(user), "overview" \in DOMAIN views, Loaded(views["overview"]),
         NEW section \in MenuSections(user)
  PROVE  SectionAllowed(Books, section)
<1>1. \A p : HasPermission(user, p) <=> p \in Books.permissions
  BY UserTold, BooksTold DEF HasRight
<1>. HIDE DEF Books
<1>2. section \in Sections /\ \E p \in MenuPermissions(section) : p \in Books.permissions
  BY <1>1 DEF MenuSections
<1>. QED  BY <1>2 DEF MenuPermissions, SectionAllowed, Sections

\* The two invariants say that what a page that is up to date offers, loads,
\* links to and lists is permitted.
LEMMA AnswersInvPermitted == PagesInv /\ AnswersInv => OfferedIsPermitted
<1>. SUFFICES ASSUME PagesInv, AnswersInv, Fresh
              PROVE  OfferedIsPermitted
  BY DEF OfferedIsPermitted
<1>1. \A q \in Offers(user, path, ScreenNow, views) : Permitted(db, session, q) \/ KnownRefusal(q)
  BY OffersPermitted
<1>2. ASSUME NEW r \in reads, r.current, r.view # "space"
      PROVE  PermittedRead(db, session, r.view, Subject(r)) \/ KnownReadRefusal(r)
  BY <1>2, ReadsPermitted
<1>3. CASE ~SignedIn(user)
  <2>1. ScreenNow \in {"wait", "auth", "admin_auth"}
    BY <1>3, SignedOutScreens
  <2>2. Links(user, path, ScreenNow, views) = {} /\ "overview" \notin DOMAIN views
    BY <2>1, NamedViews DEF Links, AnswersInv, Standing
  <2>. QED  BY <1>1, <1>2, <2>2 DEF OfferedIsPermitted
<1>4. CASE SignedIn(user)
  <2>1. \A p \in Links(user, path, ScreenNow, views) :
          Screen(user, p, selected) \notin {"auth", "admin_auth", "refused"} /\ ParseRoute(p).page # "not_found"
    BY <1>4, LinksOpen DEF OpensFor
  <2>2. "overview" \in DOMAIN views /\ Loaded(views["overview"]) =>
          \A section \in MenuSections(user) : SectionAllowed(views["overview"].content, section)
    BY <1>4, MenuShown DEF Books
  <2>. QED  BY <1>1, <1>2, <2>1, <2>2 DEF OfferedIsPermitted
<1>. QED  BY <1>3, <1>4

\* In every reachable state a page that has been told the truth offers, loads
\* by itself and links to nothing the server would refuse its user, but for the
\* known refusals, and the console lists no section that it does not show: for
\* every set of users, channels and stories (Screen, the sections of AdminConsole,
\* permissionsForUser and userCanManageSpace).
THEOREM WebOffersArePermitted == Spec => []OfferedIsPermitted
<1>1. Init => PagesInv /\ AnswersInv
  BY InitPages, InitAnswers
<1>2. (PagesInv /\ AnswersInv) /\ [Next]_vars => (PagesInv /\ AnswersInv)'
  BY NextPages, NextAnswers
<1>3. PagesInv /\ AnswersInv => OfferedIsPermitted
  BY AnswersInvPermitted
<1>. QED  BY <1>1, <1>2, <1>3, PTL DEF Spec
=============================================================================
