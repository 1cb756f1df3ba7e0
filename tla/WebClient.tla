----------------------------- MODULE WebClient -----------------------------
(***************************************************************************)
(* The requests the pages of src/web/src send, the handlers of             *)
(* src/internal/app that serve them, and what each answer does to the page *)
(* that is shown by then: every list, sum and setting is edited in place,  *)
(* none is loaded again.                                                   *)
(***************************************************************************)
EXTENDS WebApp

-----------------------------------------------------------------------------
(* Sending and serving.                                                    *)

\* A dialog that cannot be left while it waits blocks what is behind it; a
\* button that waits is disabled.
KeyKinds == {"key", "revoke", "agent"}
PageBusyKinds == {"name", "icon", "hero", "registration"}
SectionBusyKinds == {"user_new", "table_new", "hide", "wechat"}
ModalKinds == {"role_delete", "table_clear", "table_delete", "amount", "reset", "adjust", "bind"}

Blocked(q) ==
  \E a \in saves :
    \/ a.held /\ a.q[1] \in ModalKinds
    \/ a.held /\ a.q[1] = "connection" /\ q[1] \notin {"table_clear", "table_delete"}
    \/ a.held /\ {a.q[1], q[1]} \subseteq KeyKinds
    \/ a.held /\ a.q[1] = q[1] /\ q[1] \in SectionBusyKinds
    \/ a.mine /\ a.q[1] = q[1] /\ q[1] \in PageBusyKinds
    \/ a.mine /\ a.q[1] = "user_delete" /\ q[1] \in {"user_new", "user_edit", "user_delete"}

\* Requests that spoil each other's answers when they overlap: the later answer
\* was made, or is put together, from what the earlier one has changed.
RoleKinds == {"role_save", "role_delete"}
UserKinds == {"user_new", "user_edit", "user_delete", "hide"}
Overlap(p, q) ==
  \/ p[1] \in RoleKinds /\ q[1] \in RoleKinds \cup UserKinds
  \/ q[1] \in RoleKinds /\ p[1] \in UserKinds
  \/ {p[1], q[1]} \subseteq UserKinds /\ p[2] = q[2]
  \/ {p[1], q[1]} \subseteq {"name", "icon"}
  \/ {p[1], q[1]} \subseteq {"wechat"}
  \/ {p[1], q[1]} \subseteq {"connection", "table_delete"} /\ p[2] = q[2]

\* What the handler that waits for the answer has kept of the page it was
\* drawn with: the roles, the tables of the opened channel, the site's name.
Kept(q) ==
  [q |-> q, phase |-> "sent", mine |-> TRUE, held |-> TRUE, ok |-> FALSE, told |-> <<q[1], Nothing>>,
   roles |-> IF q[1] \in RoleKinds THEN views["overview"].content.roles ELSE Nothing,
   count |-> IF "detail" \in DOMAIN views THEN views["detail"].count ELSE 0,
   brand |-> IF q[1] = "icon" THEN views["overview"].content.site.name ELSE "none"]

\* A room that a late join has taken over may still manage the channel it left.
Astray(q) == ScreenNow = "room" /\ q[2] # ChannelOf(path)

Submit(q) ==
  /\ q[1] \in Story.kinds
  /\ left.saves > 0
  /\ Cardinality(saves) < 2       \* a bound
  /\ \A a \in saves : a.q # q   \* a bound
  /\ ~Blocked(q)
  /\ saves' = saves \cup {Kept(q)}
  /\ views' = IF Astray(q) \/ \E a \in saves : Overlap(a.q, q) THEN Soiled(views) ELSE views
  /\ reads' = {[r EXCEPT !.pure = @ /\ r.phase = "sent"] : r \in reads}
  /\ left' = [left EXCEPT !.saves = @ - 1]
  /\ UNCHANGED <<pageVars, session, site, db, story>>

HandleSave(a) ==
  /\ a.phase = "sent"
  /\ LET granted == session # NoUser /\ Permitted(db, session, a.q) /\ Accepted(db, session, a.q)
         after   == IF granted THEN Applied(db, session, a.q) ELSE db
         answer  == [a EXCEPT !.phase = "answered", !.ok = granted,
                              !.told = <<a.q[1], IF granted THEN Told(after, session, a.q) ELSE Nothing>>]
     IN  /\ db' = after
         /\ saves' = (saves \ {a}) \cup {answer}
  /\ UNCHANGED <<pageVars, session, views, reads, site, left, story>>

\* A join for which New API also makes an account.
JoinedWithAccount(a) ==
  /\ a.phase = "sent" /\ a.q[1] = "join"
  /\ left.accounts > 0
  /\ session # NoUser
  /\ LET after == WithAccountAt(Applied(db, session, a.q), session, a.q[2])
     IN  /\ db' = after
         /\ saves' = (saves \ {a}) \cup
              {[a EXCEPT !.phase = "answered", !.ok = TRUE, !.told = <<a.q[1], Told(after, session, a.q)>>]}
  /\ left' = [left EXCEPT !.accounts = @ - 1]
  /\ UNCHANGED <<pageVars, session, views, reads, site, story>>

\* The page is told that the request failed; the server may have done it.
LoseReply(a) ==
  /\ left.fails > 0
  /\ left' = [left EXCEPT !.fails = @ - 1]
  /\ saves' = saves \ {a}
  /\ views' = IF a.ok THEN Soiled(views) ELSE views
  /\ UNCHANGED <<pageVars, session, reads, site, db, story>>

\* A request that was refused is told so, and nothing else happens.
SaveRefused(a) ==
  /\ a.phase = "answered" /\ ~a.ok
  /\ saves' = saves \ {a}
  /\ UNCHANGED <<pageVars, session, views, reads, site, db, left, story>>

-----------------------------------------------------------------------------
(* What the answers do to the page.                                        *)

Succeeds(a, kinds) == a.phase = "answered" /\ a.ok /\ a.q[1] \in kinds

\* The page goes on with the views vs and the settings s.
Becomes(a, vs, s) ==
  /\ Show(user, path, selected, vs, reads, saves \ {a})
  /\ site' = s
  /\ UNCHANGED <<session, db, left, story>>

\* The console's books, if the console that asked is still there.
HasBooks(a) == a.mine /\ "overview" \in DOMAIN views /\ views["overview"].shown # Nowhere
Books == views["overview"].content
WithBooks(a, books) == IF HasBooks(a) THEN [views EXCEPT !["overview"].content = books] ELSE views

\* The settings with those fields replaced that "new" has.
Altered(old, new) == [f \in DOMAIN old |-> IF f \in DOMAIN new THEN new[f] ELSE old[f]]

\* App is told of a setting in any case, the books if they are still there.
SettingArrives(a, new) ==
  Becomes(a, WithBooks(a, [Books EXCEPT !.site = Altered(@, new)]), Altered(site, new))

RegistrationSaved(a) ==
  /\ Succeeds(a, {"registration"})
  /\ SettingArrives(a, [registration |-> a.q[2]])

\* applyBrandingUpdate: the server tells of the whole brand.
BrandSaved(a) ==
  /\ Succeeds(a, {"name", "icon"}) /\ a.q # <<"icon", "default">>
  /\ SettingArrives(a, [name |-> a.told[2].name, icon |-> a.told[2].icon])

\* resetFavicon puts back the name it was drawn with.
FaviconReset(a) ==
  /\ Succeeds(a, {"icon"}) /\ a.q = <<"icon", "default">>
  /\ SettingArrives(a, [icon |-> "default", name |-> a.brand])

LoginHeroSaved(a) ==
  /\ Succeeds(a, {"hero"})
  /\ SettingArrives(a, [hero |-> a.q[2]])

WeChatLoginSaved(a) ==
  /\ Succeeds(a, {"wechat"})
  /\ SettingArrives(a, [wechat |-> a.q[2]])

UserSaved(a) ==
  /\ Succeeds(a, {"user_new", "user_edit"}) /\ a.mine
  /\ Becomes(a, WithBooks(a, WithUser(Books, a.q[2], a.told[2])), site)

UserDeleted(a) ==
  /\ Succeeds(a, {"user_delete"}) /\ a.mine
  /\ Becomes(a, WithBooks(a, WithoutUser(Books, a.q[2])), site)

RankingToggled(a) ==
  /\ Succeeds(a, {"hide"}) /\ a.mine
  /\ Becomes(a, WithBooks(a, WithUser(Books, a.q[2], a.told[2])), site)

\* The list the dialog was drawn with takes the place of the one there is.
RolesSaved(a) ==
  /\ Succeeds(a, RoleKinds) /\ a.mine
  /\ LET roles == IF a.q[1] = "role_save" THEN RoleSaved(a.roles, a.q[2], a.told[2])
                  ELSE RoleDeleted(a.roles, a.q[2])
     IN  Becomes(a, WithBooks(a, [Books EXCEPT !.roles = roles]), site)

\* saveAmount and resetAmounts load the scope they were drawn with again.
RankingsChanged(a) ==
  /\ Succeeds(a, {"amount", "reset"}) /\ a.held
  /\ Show(user, path, selected, [views EXCEPT !["rankings"] = Asked(@, a.q[2])],
          Superseded("rankings", reads) \cup {Read("rankings", a.q[2])}, saves \ {a})
  /\ UNCHANGED <<session, site, db, left, story>>

WithTable(rows, t) ==
  [x \in DOMAIN rows \cup {t} |-> (IF x \in DOMAIN rows THEN rows[x] ELSE 0) + (IF x = t THEN 1 ELSE 0)]
WithoutTable(rows, t) == [x \in DOMAIN rows \ {t} |-> rows[x]]

\* The sheet of a channel in the console: the summary of the channel is put
\* together from the one the handler was drawn with.
SheetShows(a, rows, count) ==
  LET sheet == [views["detail"] EXCEPT !.content = rows, !.count = count]
      vs    == IF a.held THEN [views EXCEPT !["detail"] = sheet] ELSE views
  IN  Becomes(a, [vs EXCEPT !["overview"].content = SpaceChanged(@, a.q[2], count)], site)

InSheet(a) == a.mine /\ ScreenNow = "console"

ConnectionSaved(a) ==
  Succeeds(a, {"connection"}) /\ InSheet(a) /\ SheetShows(a, views["detail"].content, a.count)

SheetTableCleared(a) ==
  Succeeds(a, {"table_clear"}) /\ InSheet(a) /\ Becomes(a, views, site)

SheetTableDeleted(a) ==
  /\ Succeeds(a, {"table_delete"}) /\ InSheet(a)
  /\ SheetShows(a, WithoutTable(views["detail"].content, a.q[3]), IF a.count = 0 THEN 0 ELSE a.count - 1)

\* The tables of the channel page.
InRoom(a) == a.mine /\ ScreenNow = "room"

TableCreated(a) ==
  /\ Succeeds(a, {"table_new"}) /\ InRoom(a)
  /\ Becomes(a, [views EXCEPT !["tables"].content = WithTable(@, a.told[2])], site)

RoomTableDone(a) ==
  /\ Succeeds(a, {"table_clear", "table_delete"}) /\ InRoom(a)
  /\ Becomes(a, IF a.q[1] = "table_clear" THEN views
                ELSE [views EXCEPT !["tables"].content = WithoutTable(@, a.q[3])], site)

KeysShow(a, keys) == a.held /\ Becomes(a, [views EXCEPT !["keys"].content = keys], site)

KeyGenerated(a)  == Succeeds(a, {"key"}) /\ KeysShow(a, [views["keys"].content EXCEPT !.exists = TRUE])
KeyRevoked(a)    == Succeeds(a, {"revoke"}) /\ KeysShow(a, NoKey)
AgentSwitched(a) == Succeeds(a, {"agent"}) /\ KeysShow(a, [views["keys"].content EXCEPT !.enabled = a.q[2]])

\* The list the dialog belongs to may be an older one than the server's.
BindingUpdated(a) ==
  /\ Succeeds(a, {"bind"}) /\ a.mine
  /\ Becomes(a, [views EXCEPT !["bindings"].content = [s \in DOMAIN @ |-> @[s] \/ s = a.q[2]]], site)

\* The profile is believed whoever is signed in by then.
ProfileUpdated(a) ==
  /\ Succeeds(a, {"profile", "avatar"})
  /\ Show(a.told[2], path, selected, views, reads, saves \ {a})
  /\ UNCHANGED <<session, site, db, left, story>>

CredentialsUpdated(a) ==
  /\ Succeeds(a, {"credentials"})
  /\ Show(a.told[2], path, selected, views, reads, saves \ {a})
  /\ UNCHANGED <<session, site, db, left, story>>

\* The room that is shown stays, and reads what it can of its new channel:
\* not what a read of the old one is under way for.
RoomFollows(sel) ==
  LET told == [views EXCEPT !["about"].content = sel]
  IN  IF sel.id = ChannelOf(path) THEN told
      ELSE Soiled(IF Reading("tables") THEN told ELSE [told EXCEPT !["tables"] = Asked(@, sel.id)])

RoomAsks(sel) ==
  IF sel.id = ChannelOf(path) THEN reads
  ELSE {[r EXCEPT !.pure = FALSE] : r \in reads} \cup
       {Read(v, sel.id) : v \in {w \in {"about", "tables"} : ~Reading(w)}}

\* The answer of the dialog that joins a channel leads there from wherever
\* the page is by then.
SpaceJoined(a) ==
  /\ Succeeds(a, {"join"})
  /\ LET sel  == a.told[2]
         room == ScreenNow = "room"
     IN  Show(user, <<"channels", sel.id>>, sel,
              IF room THEN RoomFollows(sel) ELSE views, IF room THEN RoomAsks(sel) ELSE reads, saves \ {a})
  /\ UNCHANGED <<session, site, db, left, story>>

\* An answer nobody waits for any more, or that changes an amount alone.
PageIsGone(a) ==
  /\ \/ Succeeds(a, {"adjust"})
     \/ Succeeds(a, KeyKinds \cup {"amount", "reset"}) /\ ~a.held
     \/ Succeeds(a, UserKinds \cup RoleKinds \cup {"connection", "table_new", "table_clear", "table_delete", "bind"}) /\ ~a.mine
  /\ saves' = saves \ {a}
  /\ UNCHANGED <<pageVars, session, views, reads, site, db, left, story>>

SaveArrives(a) ==
  \/ SaveRefused(a) \/ PageIsGone(a)
  \/ RegistrationSaved(a) \/ BrandSaved(a) \/ FaviconReset(a) \/ LoginHeroSaved(a) \/ WeChatLoginSaved(a)
  \/ UserSaved(a) \/ UserDeleted(a) \/ RankingToggled(a) \/ RolesSaved(a) \/ RankingsChanged(a)
  \/ ConnectionSaved(a) \/ SheetTableCleared(a) \/ SheetTableDeleted(a) \/ TableCreated(a) \/ RoomTableDone(a)
  \/ KeyGenerated(a) \/ KeyRevoked(a) \/ AgentSwitched(a) \/ BindingUpdated(a)
  \/ ProfileUpdated(a) \/ CredentialsUpdated(a) \/ SpaceJoined(a)

-----------------------------------------------------------------------------

Next ==
  \/ Start
  \/ \E u \in Story.people : Login(u) \/ LoginConsole(u) \/ Register(u)
  \/ LogoutLobby
  \/ LogoutConsole
  \/ \E p \in Story.reach : Go(p)
  \/ \E s \in Spaces : OpenSpace(s)
  \/ ChooseBoard \/ TurnHands \/ TurnFunds \/ ScopeRankings \/ PickBalances \/ RefreshBalances
  \/ CloseSheet \/ RefreshSheet \/ OpenKeys \/ CloseKeys \/ Poll
  \/ {"overview", "detail"} \subseteq DOMAIN views /\
       \E s \in ChannelDirectory(views["overview"].content) : OpenSheet(s)
  \/ \E r \in reads : AnswerRead(r) \/ AccountMade(r) \/ ReadArrives(r)
  \/ \E q \in Offers(user, path, ScreenNow, views) : Submit(q)
  \/ \E a \in saves : HandleSave(a) \/ JoinedWithAccount(a) \/ LoseReply(a) \/ SaveArrives(a)

Spec == Init /\ [][Next]_vars

-----------------------------------------------------------------------------
(* What should be true of the pages.                                       *)

\* A spinner is waiting for something, and what is shown without one is what
\* was asked for last, whatever order the answers came in.  (The room a late
\* join took over is excepted until its next own answer: SpaceJoined.)
PagesAreHonest ==
  /\ \A v \in DOMAIN views :
       views[v].asked # Nowhere =>
         /\ views[v].loading => \E r \in reads : r.view = v /\ r.current /\ r.key = views[v].asked
         /\ Loaded(views[v]) => views[v].shown = views[v].asked
  /\ \A v \in {"about", "tables"} \cap DOMAIN views :
       Loaded(views[v]) /\ views[v].clean => views[v].shown = ChannelOf(path)

\* Where no two requests or loads that overlap have spoilt it and nothing is
\* under way, the copy the page keeps in hand, edited answer by answer, is what
\* the server would tell it now: the console's books with their sums, App's
\* settings, the tables of a channel, each once, the state of
\* the keys, the accounts of the channels.  (The
\* channels a user has joined are excepted: withoutUser does not tell of those
\* a forced deletion hands over.)
Comparable(books) == [books EXCEPT !.users = [x \in DOMAIN @ |-> [@[x] EXCEPT !.joined = {}]]]

Current(view) == Loaded(view) /\ view.clean /\ view.shown # Nowhere

BooksFollow(books) ==
  books.permissions = PermissionsForUser(db, session) =>
    /\ Comparable(books) = Comparable(Overview(db, session))
    /\ site = db.site

OpenedFollows(view) ==
  /\ view.content = Tell(db, session, "detail", view.shown)
  /\ view.shown = view.asked /\ views["overview"].clean => view.count = Cardinality(DOMAIN view.content)

BooksMatchServer ==
  saves = {} /\ SignedIn(user) /\ user.id = session =>
    \A v \in {"overview", "tables", "keys", "detail", "bindings"} \cap DOMAIN views :
      Current(views[v]) =>
        CASE v = "overview" -> BooksFollow(views[v].content)
          [] v = "detail"   -> OpenedFollows(views[v])
          [] OTHER          -> views[v].content = Tell(db, session, v, views[v].shown)

\* What the page was told of its user, its channel and the books still stands.
Opens(sel) ==
  /\ SpaceForActor(db, session, sel.id)
  /\ sel \in {TellSpace(db, session, sel.id), TellMember(db, session, sel.id)}

Fresh ==
  /\ session \in DOMAIN db.users /\ user = TellUser(db, session)
  /\ ScreenNow \in {"room", "history", "balances"} => Opens(selected)
  /\ "about" \in DOMAIN views => views["about"].content.id = ChannelOf(path) /\ Opens(views["about"].content)
  /\ "overview" \in DOMAIN views /\ views["overview"].shown # Nowhere =>
       Comparable(views["overview"].content) = Comparable(Overview(db, session))

\* What the pages offer all the same: the account or the role of a super
\* administrator to other managers of roles, the edit dialog (which always
\* sends the managed channels) to managers of users who do not manage roles,
\* the balances of a channel to whoever manages balances elsewhere.
KnownRefusal(q) ==
  \/ ~IsSuper(db, session) /\ q[1] \in {"user_new", "user_edit"} /\ q[3] = "super_admin"
  \/ ~IsSuper(db, session) /\ q[1] \in {"user_edit", "user_delete"} /\ IsSuper(db, q[2])
  \/ q[1] = "user_edit" /\ ~HasRight(db, session, "roles:manage")
  \/ q[1] = "adjust" /\ ScreenNow = "balances" /\ HasRight(db, session, "balances:manage")

\* A page reads the balances like that, and, for those who work with a channel they
\* have not joined (a super administrator sees every channel), its ranking, its hands
\* and its operations; a room a late join has taken over may read what it left.
Outsider(s) == CanManage(db, session, s) /\ ~SpaceForUser(db, session, s)
KnownReadRefusal(r) ==
  \/ r.view \in {"about", "tables"} /\ r.key # ChannelOf(path)
  \/ r.view = "balances" /\ KnownRefusal(<<"adjust", r.key>>)
  \/ r.view \in {"board", "hands", "funds"} /\ Outsider(Subject(r))

\* A page that has been told the truth offers and loads by itself nothing the
\* server would refuse its user, but for the known refusals; it links to no page
\* that would turn him away; and the console lists no section that it then does
\* not show.
OfferedIsPermitted ==
  Fresh =>
    /\ \A q \in Offers(user, path, ScreenNow, views) : Permitted(db, session, q) \/ KnownRefusal(q)
    /\ \A r \in reads : r.current /\ r.phase = "sent" /\ r.view # "space" =>
         PermittedRead(db, session, r.view, Subject(r)) \/ KnownReadRefusal(r)
    /\ \A p \in Links(user, path, ScreenNow, views) :
         Screen(user, p, selected) \notin {"auth", "admin_auth", "refused"} /\ ParseRoute(p).page # "not_found"
    /\ "overview" \in DOMAIN views /\ Loaded(views["overview"]) =>
         \A section \in MenuSections(user) : SectionAllowed(views["overview"].content, section)
=============================================================================
