------------------------------- MODULE WebApp -------------------------------
(***************************************************************************)
(* App.tsx of src/web/src in a browser: the page an address leads to, the  *)
(* lists that page loads, and the reads under way for them.  Answers come  *)
(* in any order, some after the component that asked is gone, some never;  *)
(* the session may meanwhile have ended or belong to someone else.         *)
(* WebClient adds the requests the buttons send.                           *)
(*                                                                         *)
(* The browser is the only one to change the database: what is shown may   *)
(* be out of date through the page's own doing only.  One story, chosen at *)
(* the start, says who may sign in, which addresses are visited and which  *)
(* kinds of request are sent.                                              *)
(***************************************************************************)
EXTENDS WebPages

CONSTANTS
  Stories,   \* by name: [people, reach, kinds, db, bounds]: bounds on the requests sent
             \* (saves), the answers lost (fails), the pages opened (moves), the accounts New
             \* API makes for users by itself (accounts)
  MaxReads   \* bound: reads in flight when a choice, refresh or poll starts one more

ASSUME MaxReadsAssumption == MaxReads \in Nat \ {0}
ASSUME StoriesAssumption == \A name \in DOMAIN Stories : IsDatabase(Stories[name].db)
ASSUME RowsAssumption ==
  \A name \in DOMAIN Stories : HasRows(Stories[name].db) /\ Stories[name].people \subseteq Users
ASSUME SetsAssumption == IsFiniteSet(Spaces) /\ IsFiniteSet(Tables)
ASSUME KeysAssumption == Everything # Nowhere /\ Nowhere \notin Spaces

VARIABLES
  user, session,   \* who the page and who the server's cookie say is signed in
  path, selected,  \* the address; App's selectedSpace
  views,           \* of the views mounted now
  reads, saves,    \* in flight
  site,            \* App's copy of the platform settings
  db,              \* the server's database
  left, story      \* what is left of the bounds; the story's name

Story == Stories[story]

pageVars == <<user, path, selected>>
vars == <<user, session, path, selected, views, reads, saves, site, db, left, story>>

DefaultSite == [registration |-> TRUE, name |-> "PokerNode", icon |-> "default", hero |-> "default", wechat |-> FALSE]

Init ==
  /\ story \in DOMAIN Stories
  /\ db = Story.db
  /\ session \in (Story.people \cap DOMAIN db.users) \cup {NoUser}
  /\ path \in Story.reach
  /\ user = Unknown
  /\ selected = Nothing
  /\ views = [v \in {} |-> Nothing]
  /\ reads = {}
  /\ saves = {}
  /\ site = DefaultSite
  /\ left = Story.bounds

-----------------------------------------------------------------------------
(* Reads and views.                                                        *)

\* A read in flight: is it the last its view asked for (current), was it
\* answered (phase, ok, answer), and was no request under way since the server
\* answered it (pure).
Read(v, key) == [view |-> v, key |-> key, current |-> TRUE, phase |-> "sent",
                 ok |-> FALSE, pure |-> TRUE, answer |-> <<v, Nothing>>]

Reading(v) == \E r \in reads : r.view = v /\ r.current

\* loadSequence moves on, or the effect that asked is cleaned up.
Superseded(v, rs) == {IF r.view = v THEN [r EXCEPT !.current = FALSE] ELSE r : r \in rs}

\* Only the last answer asked for is shown.
\* Mutant: every answer that comes is.
AcceptsAny(r) == TRUE
Accepts(r)    == r.current

Asked(view, key) ==
  [view EXCEPT !.asked = key, !.loading = TRUE, !.failed = FALSE]

\* The room reads its channel, and its tables again, without showing that it
\* does: they count as asked for when they land.
Landed(view, r) ==
  IF ~r.ok THEN [view EXCEPT !.loading = FALSE, !.failed = r.view # "about"]
  ELSE [view EXCEPT !.loading = FALSE, !.failed = FALSE, !.shown = r.key, !.clean = r.pure,
                    !.asked   = IF r.view \in {"about", "tables"} THEN r.key ELSE @,
                    !.content = IF r.view = "space" THEN @ ELSE r.answer[2]]

Soiled(vs) == [v \in DOMAIN vs |-> [vs[v] EXCEPT !.clean = FALSE]]

-----------------------------------------------------------------------------
(* What App shows next.                                                    *)

ScreenNow == Screen(user, path, selected)
ChannelOf(p) == ParseRoute(p).channel
SectionOf(p) == ParseRoute(p).section

\* React keeps the page's component, and the console's section in it.
SamePage ==
  /\ Screen(user', path', selected') = ScreenNow
  /\ ScreenNow = "opening" => path' = path /\ user' = user

SameSection == SamePage /\ SectionOf(path') = SectionOf(path)

SectionViews == {"balances", "rankings", "detail"}

\* The reads that look a channel up.
ChannelLookups == {"space", "about", "detail"}
Matters(r) == r.view = "overview" \/ (r.view \in ChannelLookups /\ r.phase = "sent")

\* A component that goes away forgets its reads.  The server may still act on
\* those of a channel (AccountMade), and the console's overview tells App of the
\* settings whenever it comes.  A request in flight still has
\* the page that sent it (mine), or the very section and dialog of it (held), or
\* nobody who waits.
Remounts(screen, same, section, vs, rs, ss) ==
  LET Stays(v) == v \in DOMAIN vs /\ (IF v \in SectionViews THEN section ELSE same)
      overview == IF Stays("overview") THEN vs["overview"] ELSE Mounted("overview", Everything, selected')
      names    == FirstViews(screen) \cup (IF screen = "console" THEN ConsoleViews(path', overview) ELSE {})
      kept     == {r \in rs : Stays(r.view)}
      late     == {[r EXCEPT !.current = FALSE] : r \in {x \in rs \ kept : Matters(x)}}
  IN  /\ views' = [v \in names |-> IF Stays(v) THEN vs[v]
                                   ELSE Mounted(v, FirstKey(v, path', overview.content), selected')]
      /\ reads' = kept \cup late \cup
           {Read(v, views'[v].asked) : v \in {w \in names : ~Stays(w) /\ views'[w].asked # Nowhere}}
      /\ saves' = {[a EXCEPT !.mine = @ /\ same, !.held = @ /\ section] : a \in ss}

\* App is rendered again, with the views vs, the reads rs and the requests ss.
Show(u, p, sel, vs, rs, ss) ==
  /\ user' = u
  /\ path' = Redirected(u, p)
  /\ selected' = sel
  /\ Remounts(Screen(u, path', sel), SamePage, SameSection, vs, rs, ss)

-----------------------------------------------------------------------------
(* Signing in and out, moving about.                                       *)

Moves == left.moves > 0 /\ left' = [left EXCEPT !.moves = @ - 1]

\* The first effect of App: who is signed in, and the settings.
Start ==
  /\ user = Unknown
  /\ \E ok \in BOOLEAN :
       /\ ok \/ left.fails > 0
       /\ site' = IF ok THEN db.site ELSE site
       /\ left' = IF ok THEN left ELSE [left EXCEPT !.fails = @ - 1]
  /\ Show(IF session = NoUser THEN NoUser ELSE TellUser(db, session),
          path, selected, views, reads, saves)
  /\ UNCHANGED <<session, db, story>>

MayLogIn(u) == u \in DOMAIN db.users /\ db.users[u].status = "active"

Login(u) ==
  /\ Moves
  /\ ScreenNow = "auth"
  /\ MayLogIn(u)
  /\ session' = u
  /\ Show(TellUser(db, u), path, selected, views, reads, saves)
  /\ UNCHANGED <<site, db, story>>

\* The console has a door of its own.
LoginConsole(u) ==
  /\ Moves
  /\ ScreenNow = "admin_auth"
  /\ MayLogIn(u)
  /\ HasRight(db, u, "admin:view")
  /\ session' = u
  /\ Show(TellUser(db, u), <<"admin">>, selected, views, reads, saves)
  /\ UNCHANGED <<site, db, story>>

\* The form offers it by App's copy of the settings, the server goes by its own.
Register(u) ==
  /\ Moves
  /\ ScreenNow = "auth"
  /\ site.registration /\ db.site.registration
  /\ u \notin DOMAIN db.users
  /\ db' = [db EXCEPT !.users = WithAccount(@, u, NewUser("player"))]
  /\ session' = u
  /\ Show(TellUser(db', u), path, selected, views, reads, saves)
  /\ UNCHANGED <<site, story>>

\* The session is gone for everything the server has not handled yet.  The
\* console leaves selectedSpace as it is.
Refused(requests) == {IF r.phase = "sent" THEN [r EXCEPT !.phase = "answered"] ELSE r : r \in requests}

LogoutLobby ==
  /\ Moves
  /\ ScreenNow = "lobby"
  /\ session' = NoUser
  /\ Show(NoUser, << >>, Nothing, views, Refused(reads), Refused(saves))
  /\ UNCHANGED <<site, db, story>>

LogoutConsole ==
  /\ Moves
  /\ ScreenNow = "console"
  /\ session' = NoUser
  /\ Show(NoUser, <<"admin", "login">>, selected, views, Refused(reads), Refused(saves))
  /\ UNCHANGED <<site, db, story>>

\* A link, a menu entry, the browser's back and forward.
Go(p) ==
  /\ Moves
  /\ user # Unknown
  /\ p # path
  /\ Show(user, p, selected, views, reads, saves)
  /\ UNCHANGED <<session, site, db, story>>

OpenSpace(s) ==
  /\ Moves
  /\ ScreenNow = "lobby"
  /\ s \in DOMAIN views["spaces"].content
  /\ Show(user, <<"channels", s>>, views["spaces"].content[s], views, reads, saves)
  /\ UNCHANGED <<session, site, db, story>>

-----------------------------------------------------------------------------
(* What is chosen on a page, and read for it.                              *)

Holding(kinds) == \E a \in saves : a.held /\ a.q[1] \in kinds

\* The view asks anew, and waits for this answer alone.
Asks(v, view) ==
  /\ Cardinality(reads) < MaxReads
  /\ views' = [views EXCEPT ![v] = Asked(view, view.asked)]
  /\ reads' = Superseded(v, reads) \cup {Read(v, view.asked)}
  /\ UNCHANGED <<pageVars, session, saves, site, db, left, story>>

AsksFor(v, key) == key # views[v].asked /\ Asks(v, [views[v] EXCEPT !.asked = key])

ChooseBoard ==
  ScreenNow = "lobby" /\ \E key \in ChannelRankingFilter(views["spaces"]) : AsksFor("board", key)

TurnHands ==
  ScreenNow = "history" /\ \E n \in RecordPagination(views["hands"]) : AsksFor("hands", n)

TurnFunds ==
  ScreenNow = "history" /\ \E n \in RecordPagination(views["funds"]) : AsksFor("funds", n)

\* The dialogs of an amount and of the reset cannot be left while they wait.
ScopeRankings ==
  /\ "rankings" \in DOMAIN views
  /\ ~Holding({"amount", "reset"})
  /\ \E key \in RankingScopes(views["overview"].content) : AsksFor("rankings", key)

\* The balances of the other channel are taken away at once.
PickBalances ==
  /\ {"overview", "balances"} \subseteq DOMAIN views
  /\ ~Holding({"adjust"})
  /\ \E s \in ChannelDirectory(views["overview"].content) :
       s # views["balances"].asked /\ Asks("balances", [views["balances"] EXCEPT !.asked = s, !.shown = Nowhere])

RefreshBalances ==
  /\ "balances" \in DOMAIN views
  /\ views["balances"].asked # Nowhere /\ ~views["balances"].loading
  /\ ~Holding({"adjust"})
  /\ Asks("balances", views["balances"])

\* A sheet takes the number of tables the books have as it opens.
OpenSheet(s) ==
  LET late == \E a \in saves : a.q[1] \in {"connection", "table_delete"}
      vs   == IF late THEN Soiled(views) ELSE views
  IN  /\ vs["detail"].asked = Nowhere
      /\ Cardinality(reads) < MaxReads
      /\ views' = [vs EXCEPT !["detail"] = [Asked(@, s) EXCEPT !.count = vs["overview"].content.spaces[s]]]
      /\ reads' = Superseded("detail", reads) \cup {Read("detail", s)}
      /\ UNCHANGED <<pageVars, session, saves, site, db, left, story>>

\* A sheet that is closed forgets the channel, not that it waits for it.
CloseSheet ==
  /\ "detail" \in DOMAIN views
  /\ views["detail"].asked # Nowhere
  /\ ~Holding({"connection", "table_clear", "table_delete"})
  /\ views' = [views EXCEPT !["detail"] = [@ EXCEPT !.asked = Nowhere, !.shown = Nowhere,
                                                   !.content = NoRows, !.failed = FALSE]]
  /\ UNCHANGED <<pageVars, session, reads, saves, site, db, left, story>>

RefreshSheet ==
  /\ "detail" \in DOMAIN views
  /\ views["detail"].asked # Nowhere /\ views["detail"].shown # Nowhere /\ ~views["detail"].loading
  /\ ~Holding({"table_clear", "table_delete"})
  /\ Asks("detail", views["detail"])

\* The keys are on a tab of the settings that exists while it is shown.
OpenKeys ==
  ScreenNow = "settings" /\ AsksFor("keys", Everything)

CloseKeys ==
  /\ ScreenNow = "settings"
  /\ views["keys"].asked # Nowhere
  /\ views' = [views EXCEPT !["keys"] = [Mounted("keys", Nowhere, Nothing) EXCEPT !.clean = views["keys"].clean]]
  /\ reads' = {r \in reads : r.view # "keys"}
  /\ saves' = {[a EXCEPT !.held = @ /\ a.q[1] \notin {"key", "revoke", "agent"}] : a \in saves}
  /\ UNCHANGED <<pageVars, session, site, db, left, story>>

\* The timer of the channel page.
Poll ==
  /\ ScreenNow = "room"
  /\ ~Reading("tables")
  /\ Cardinality(reads) < MaxReads
  /\ reads' = reads \cup {Read("tables", ChannelOf(path))}
  /\ UNCHANGED <<pageVars, session, views, saves, site, db, left, story>>

-----------------------------------------------------------------------------
(* Answers to reads.                                                       *)

\* The channel or the like a read is about; one of a page of a history, which is
\* forgotten with its screen, is about the channel of the address.
Subject(r) == IF r.view \in {"hands", "funds"} THEN ChannelOf(path) ELSE r.key

AnswerRead(r) ==
  /\ r.phase = "sent"
  /\ LET granted == session # NoUser /\ PermittedRead(db, session, r.view, Subject(r))
         answer  == [r EXCEPT !.phase = "answered"]
     IN  \/ /\ granted
            /\ reads' = (reads \ {r}) \cup
                 {[answer EXCEPT !.ok = TRUE, !.pure = @ /\ saves = {},
                                 !.answer = <<r.view, Tell(db, session, r.view, r.key)>>]}
            /\ UNCHANGED left
         \/ /\ ~granted \/ left.fails > 0
            /\ reads' = (reads \ {r}) \cup {answer}
            /\ left' = IF granted THEN [left EXCEPT !.fails = @ - 1] ELSE left
  /\ UNCHANGED <<pageVars, session, views, saves, site, db, story>>

\* handleGetSpace: a member without an account in the channel is made one before the
\* answer, which then tells of the channel as its members see it.  A list of accounts
\* that is shown, or on its way, does not hear of it.
Unaware(x) == IF x.view = "bindings" /\ x.phase = "answered" THEN [x EXCEPT !.pure = FALSE] ELSE x

AccountMade(r) ==
  /\ r.phase = "sent" /\ r.view \in ChannelLookups
  /\ left.accounts > 0
  /\ session # NoUser /\ PermittedRead(db, session, r.view, r.key)
  /\ SpaceForUser(db, session, r.key) /\ r.key \notin db.bound[session]
  /\ db' = WithAccountAt(db, session, r.key)
  /\ LET told == IF r.view = "detail" THEN Tell(db, session, r.view, r.key) ELSE TellMember(db, session, r.key)
     IN  reads' = {Unaware(x) : x \in reads \ {r}} \cup
           {[r EXCEPT !.phase = "answered", !.ok = TRUE, !.pure = @ /\ saves = {}, !.answer = <<r.view, told>>]}
  /\ views' = [v \in DOMAIN views |-> IF v = "bindings" THEN [views[v] EXCEPT !.clean = FALSE] ELSE views[v]]
  /\ left' = [left EXCEPT !.accounts = @ - 1]
  /\ UNCHANGED <<pageVars, session, saves, site, story>>

Shown(r) ==
  IF r.view \in DOMAIN views /\ Accepts(r) THEN [views EXCEPT ![r.view] = Landed(@, r)] ELSE views

\* An answer comes; nothing but its own view takes note of it.
Arrives(v, r) ==
  /\ r.view = v /\ r.phase = "answered"
  /\ Show(user, path, selected, Shown(r), reads \ {r}, saves)
  /\ UNCHANGED <<session, site, db, left, story>>

SpacesArrive(r)   == Arrives("spaces", r)
BoardArrives(r)   == Arrives("board", r)
AboutArrives(r)   == Arrives("about", r)
TablesArrive(r)   == Arrives("tables", r)
HandsArrive(r)    == Arrives("hands", r)
FundsArrive(r)    == Arrives("funds", r)
BindingsArrive(r) == Arrives("bindings", r)
RankingsArrive(r) == Arrives("rankings", r)
BalancesArrive(r) == Arrives("balances", r)
DetailArrives(r)  == Arrives("detail", r)
KeysArrive(r)     == Arrives("keys", r)

\* The channel of the address: App selects it, and its page opens.
SpaceArrives(r) ==
  /\ r.view = "space" /\ r.phase = "answered"
  /\ Show(user, path, IF "space" \in DOMAIN views /\ Accepts(r) /\ r.ok THEN r.answer[2] ELSE selected,
          Shown(r), reads \ {r}, saves)
  /\ UNCHANGED <<session, site, db, left, story>>

\* The console tells App of the settings, also when it is gone by then.
OverviewArrives(r) ==
  /\ r.view = "overview" /\ r.phase = "answered"
  /\ LET missed == Shown(r) = views /\ ~r.pure
     IN  Show(user, path, selected, IF missed THEN Soiled(views) ELSE Shown(r), reads \ {r}, saves)
  /\ site' = IF r.ok THEN r.answer[2].site ELSE site
  /\ UNCHANGED <<session, db, left, story>>

ReadArrives(r) ==
  \/ SpaceArrives(r) \/ SpacesArrive(r) \/ BoardArrives(r) \/ AboutArrives(r) \/ TablesArrive(r)
  \/ HandsArrive(r) \/ FundsArrive(r) \/ BindingsArrive(r) \/ OverviewArrives(r) \/ RankingsArrive(r)
  \/ BalancesArrive(r) \/ DetailArrives(r) \/ KeysArrive(r)
=============================================================================
