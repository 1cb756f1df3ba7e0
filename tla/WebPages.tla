------------------------------ MODULE WebPages ------------------------------
(***************************************************************************)
(* The pages of src/web/src as functions of what they were told: the page  *)
(* an address leads to, the views a page loads, what each of its buttons   *)
(* and dialogs would ask the server for, and what the console does with    *)
(* its copy of the platform's books when a request went through.           *)
(*                                                                         *)
(* A view is a list or a record that a component loads and shows: [asked,  *)
(* the key it was last loaded for; shown, the key its content belongs to;  *)
(* loading, failed; content; count, the tables the opened channel sheet    *)
(* believes in; clean, FALSE once something may have changed unheard].     *)
(***************************************************************************)
EXTENDS WebRights

CONSTANTS Unknown, NoUser   \* the user before the first answer; nobody signed in

(***************************************************************************)
(* Addresses and pages.                                                    *)
(***************************************************************************)
Sections == {"users", "roles", "channels", "balances", "rankings", "settings"}

At(page)               == [page |-> page, channel |-> Nowhere, section |-> "none"]
AtChannel(page, s)     == [page |-> page, channel |-> s, section |-> "none"]
AtSection(section)     == [page |-> "admin", channel |-> Nowhere, section |-> section]

ParseRoute(path) ==
  LET n == Len(path)
  IN  CASE n = 0                                       -> At("ranking")
        [] path = <<"channels">>                       -> At("channel_list")
        [] path = <<"settings">>                       -> At("settings")
        [] path = <<"account", "bindings">>            -> At("account_bindings")
        [] path = <<"admin">>                          -> AtSection("overview")
        [] path = <<"admin", "login">>                 -> At("admin_login")
        [] n = 2 /\ path[1] = "admin" /\ path[2] \in Sections -> AtSection(path[2])
        [] n = 2 /\ path[1] = "channels"               -> AtChannel("channel", path[2])
        [] n = 3 /\ path[1] = "channels" /\ path[3] = "balances" -> AtChannel("channel_balances", path[2])
        [] n = 3 /\ path[1] = "channels" /\ path[3] = "history"  -> AtChannel("channel_history", path[2])
        [] n = 4 /\ path[1] = "channels" /\ path[3] = "tables"   -> AtChannel("channel", path[2])
        [] OTHER                                       -> At("not_found")

SignedIn(user) == user \notin {Unknown, NoUser}
HasPermission(user, p) == SignedIn(user) /\ p \in user.permissions

\* The two addresses nobody stays at.
Redirected(user, path) ==
  CASE ParseRoute(path).page = "not_found" -> << >>
    [] ParseRoute(path).page = "admin_login" /\ HasPermission(user, "admin:view") -> <<"admin">>
    [] OTHER -> path

ChannelPages == {"channel", "channel_balances", "channel_history"}

ScreenAt(user, route, selected) ==
  IF user = Unknown THEN "wait"
  ELSE IF route.page \in {"admin", "admin_login"} THEN
         IF HasPermission(user, "admin:view") THEN "console" ELSE "admin_auth"
  ELSE IF user = NoUser THEN "auth"
  ELSE IF route.page \in ChannelPages /\ (selected = Nothing \/ selected.id # route.channel) THEN "opening"
  ELSE CASE route.page = "settings"         -> "settings"
         [] route.page = "account_bindings" -> "bindings"
         [] route.page = "channel_history"  -> "history"
         [] route.page = "channel_balances" ->
              IF selected.is_owner \/ HasPermission(user, "balances:manage") THEN "balances" ELSE "refused"
         [] route.page = "channel"          -> "room"
         [] OTHER                           -> "lobby"

Screen(user, path, selected) == ScreenAt(user, ParseRoute(path), selected)

\* The entries of the console's menu, and the sections it agrees to show.
MenuPermissions(section) ==
  CASE section = "users"    -> {"users:read", "users:manage"}
    [] section = "roles"    -> {"roles:manage"}
    [] section = "channels" -> {"channels:manage"}
    [] section = "balances" -> {"balances:manage"}
    [] section = "rankings" -> {"rankings:manage"}
    [] section = "settings" -> {"registration:manage", "auth_settings:manage", "branding:manage"}

MenuSections(user) == {s \in Sections : \E p \in MenuPermissions(s) : HasPermission(user, p)}

SectionAllowed(books, section) ==
  CASE section = "users"    -> "users:read" \in books.permissions \/ "users:manage" \in books.permissions
    [] section = "roles"    -> "roles:manage" \in books.permissions
    [] section = "channels" -> "channels:manage" \in books.permissions
    [] section = "balances" -> "balances:manage" \in books.permissions
    [] section = "rankings" -> "rankings:manage" \in books.permissions
    [] section = "settings" -> \E p \in {"registration:manage", "auth_settings:manage", "branding:manage"} :
                                 p \in books.permissions
    [] OTHER                -> FALSE

(***************************************************************************)
(* Which views a page has, what for they are loaded first, and what they   *)
(* hold until then.                                                        *)
(***************************************************************************)
Loaded(view) == ~view.loading /\ ~view.failed

\* The console shows nothing but its error when the overview failed, and a
\* section only while it is allowed.
ConsoleViews(path, overview) ==
  LET section == ParseRoute(path).section
  IN  IF ~Loaded(overview) \/ ~SectionAllowed(overview.content, section) THEN {}
      ELSE CASE section = "balances" -> {"balances"}
             [] section = "rankings" -> {"rankings"}
             [] section = "channels" -> {"detail"}
             [] OTHER                -> {}

FirstViews(screen) ==
  CASE screen = "opening"  -> {"space"}
    [] screen = "lobby"    -> {"spaces", "board"}
    [] screen = "room"     -> {"about", "tables"}
    [] screen = "history"  -> {"hands", "funds"}
    [] screen = "bindings" -> {"bindings"}
    [] screen = "balances" -> {"balances"}
    [] screen = "settings" -> {"keys"}
    [] screen = "console"  -> {"overview"}
    [] OTHER               -> {}

\* The channel of the address, or the first one of the books.
FirstBalances(path, books) ==
  IF ParseRoute(path).page = "channel_balances" THEN ParseRoute(path).channel
  ELSE IF DOMAIN books.spaces = {} THEN Nowhere
  ELSE CHOOSE s \in DOMAIN books.spaces : TRUE

FirstKey(v, path, books) ==
  CASE v \in {"space", "about", "tables"} -> ParseRoute(path).channel
    [] v \in {"hands", "funds"}           -> 1
    [] v = "balances"                     -> FirstBalances(path, books)
    [] v \in {"detail", "keys"}           -> Nowhere
    [] OTHER                              -> Everything

NoRows == [t \in {} |-> 0]
NoKey  == [exists |-> FALSE, enabled |-> FALSE]

Blank(v) == CASE v \in {"tables", "detail"} -> NoRows
              [] v \in {"spaces", "bindings"} -> [s \in {} |-> Nothing]
              [] v = "keys"                 -> NoKey
              [] OTHER                      -> Nothing

\* A component that just appeared: it asks at once, unless nothing is chosen
\* yet.  The room starts with the channel it was opened with.
Mounted(v, key, selected) ==
  [asked |-> key, shown |-> IF v = "about" THEN key ELSE Nowhere,
   loading |-> key # Nowhere /\ v # "about", failed |-> FALSE,
   content |-> IF v = "about" THEN selected ELSE Blank(v), count |-> 0, clean |-> TRUE]

(***************************************************************************)
(* What the components offer: the pages they link to ...                   *)
(***************************************************************************)
GameHeader(user) ==
  {<< >>, <<"channels">>, <<"account", "bindings">>, <<"settings">>} \cup
  {p \in {<<"admin">>} : HasPermission(user, "admin:view")}

ChannelHeader(user, space) ==
  {<<"channels">>, <<"account", "bindings">>, <<"channels", space.id, "history">>} \cup
  {p \in {<<"channels", space.id, "balances">>} : space.is_owner \/ HasPermission(user, "balances:manage")}

AppSidebar(user) == {<<"admin">>} \cup {<<"admin", section>> : section \in MenuSections(user)}
NavUser == {<<"channels">>, <<"settings">>}
AccountBindings(bindings) == {<<"channels">>} \cup {<<"channels", s>> : s \in DOMAIN bindings}

Links(user, path, screen, vs) ==
  CASE screen = "lobby"    -> GameHeader(user)
    [] screen = "room"     -> ChannelHeader(user, vs["about"].content)
    [] screen = "console"  -> AppSidebar(user) \cup NavUser
    [] screen = "bindings" -> AccountBindings(vs["bindings"].content)
    [] screen \in {"balances", "refused"} -> {<<"channels", ParseRoute(path).channel>>}
    [] OTHER               -> {}

(***************************************************************************)
(* ... the reads a choice of theirs would start ...                        *)
(***************************************************************************)
ChannelRankingFilter(view) == {Everything} \cup DOMAIN view.content
RecordPagination(view)     == IF Loaded(view) THEN {view.asked - 1, view.asked + 1} \cap 1..LastPage ELSE {}
RankingScopes(books)       == {Everything} \cup DOMAIN books.spaces
ChannelDirectory(books)    == DOMAIN books.spaces

(***************************************************************************)
(* ... and the requests their buttons would send.                          *)
(***************************************************************************)
SpaceDialog == {<<"join", s>> : s \in Spaces}
BindingDialog(bindings) == {<<"bind", s>> : s \in DOMAIN bindings}

\* Rows and tiles of the channel page; creating and managing is for managers.
CreateTableDialog(space) == {<<"table_new", space.id>>}
TableManagement(space, rows) == {<<kind, space.id, t>> : kind \in {"table_clear", "table_delete"}, t \in DOMAIN rows}

ChannelMain(vs) ==
  IF vs["tables"].loading \/ ~vs["about"].content.can_manage THEN {}
  ELSE CreateTableDialog(vs["about"].content) \cup TableManagement(vs["about"].content, vs["tables"].content)

MCPKeySettings(view) ==
  IF view.asked = Nowhere \/ view.loading THEN {}
  ELSE {<<"key">>} \cup (IF view.content.exists
                         THEN {<<"revoke">>, <<"agent", ~view.content.enabled>>} ELSE {})

ProfileSettings == {<<"profile">>, <<"avatar">>}
AccountSecuritySettings == {<<"credentials">>}

RoleUsesChannelScope(books, key) == key # "super_admin" /\ AllowsAssignments(books.roles[key].permissions)

\* Mutant: whoever manages users may open the dialog for anybody else.
CanEditAnyone(books, me, x) == "users:manage" \in books.permissions /\ x # me.id

CanEdit(books, me, x) ==
  /\ "users:manage" \in books.permissions
  /\ x # me.id
  /\ "roles:manage" \in books.permissions \/ books.users[x].role = "player"

RoleSelect(books, role) == IF "roles:manage" \in books.permissions THEN DOMAIN books.roles ELSE {role}

CreateUserDialog(books) ==
  IF "users:manage" \notin books.permissions THEN {}
  ELSE {<<"user_new", x, key>> : x \in Users \ DOMAIN books.users, key \in RoleSelect(books, "player")}

\* The channels a user may be given: those he joined and the editor sees;
\* what the editor does not see stays as it was.
ChannelScopeField(books, x) ==
  LET joined == books.users[x].joined \cap DOMAIN books.spaces
      unseen == (books.users[x].managed \cap books.users[x].joined) \ joined
  IN  {unseen \cup chosen : chosen \in SUBSET joined}

EditUserDialog(books, x) ==
  UNION {{<<"user_edit", x, key, status, managed>> :
            status  \in {"active", "disabled"},
            managed \in IF RoleUsesChannelScope(books, key) THEN ChannelScopeField(books, x) ELSE {{}}}
         : key \in RoleSelect(books, books.users[x].role)}

DeleteUserDialog(me, x) ==
  {<<"user_delete", x, force>> : force \in IF me.role = "super_admin" THEN BOOLEAN ELSE {FALSE}}

UsersSection(books, me) ==
  CreateUserDialog(books) \cup
  UNION {EditUserDialog(books, x) \cup DeleteUserDialog(me, x) : x \in {y \in DOMAIN books.users : CanEdit(books, me, y)}}

\* Switching a permission off takes those along that need it.
RemovePermissionAndDependents(ps, removed) ==
  {p \in ps : removed \notin ExpandPermissions({p})}

\* At most one switch is touched before the dialog is saved (a bound); only
\* what the editor may grant can be switched, or saved.
RoleDialog(books, key, before) ==
  LET start  == ExpandPermissions(before)
      chosen == {start} \cup {ExpandPermissions(start \cup {p}) : p \in books.permissions}
                        \cup {RemovePermissionAndDependents(start, p) : p \in books.permissions}
  IN  {<<"role_save", key, ps, key \notin DOMAIN books.roles>> : ps \in {c \in chosen : c \subseteq books.permissions}}

RoleManager(books) ==
  RoleDialog(books, "extra", IF "extra" \in DOMAIN books.roles THEN books.roles["extra"].permissions ELSE {}) \cup
  (UNION {RoleDialog(books, key, books.roles[key].permissions) : key \in DOMAIN books.roles \ {"super_admin"}}) \cup
  {<<"role_delete", key>> : key \in {k \in DOMAIN books.roles \ {"super_admin"} : books.roles[k].user_count = 0}}

RankingManager(books, view) ==
  {<<"hide", x, ~books.users[x].hidden>> : x \in DOMAIN books.users} \cup
  (IF view.loading THEN {} ELSE {<<"reset", view.asked>>}) \cup
  (IF Loaded(view) THEN {<<"amount", view.asked>>} ELSE {})

Brands == {"PokerNode", "Club"}
Branding(books) ==
  IF "branding:manage" \notin books.permissions THEN {}
  ELSE {<<"name", v>> : v \in Brands \ {books.site.name}} \cup {<<"icon", "custom">>} \cup
       (IF books.site.icon = "default" THEN {} ELSE {<<"icon", "default">>})

LoginHero(books) ==
  IF "branding:manage" \notin books.permissions THEN {}
  ELSE {<<"hero", "custom">>} \cup
       (IF books.site.hero = "default" THEN {} ELSE {<<"hero", "moved">>, <<"hero", "default">>})

WeChatLoginSettings(books) ==
  IF "auth_settings:manage" \in books.permissions THEN {<<"wechat", b>> : b \in BOOLEAN} ELSE {}

RegistrationPolicy(books) ==
  IF "registration:manage" \in books.permissions THEN {<<"registration", ~books.site.registration>>} ELSE {}

ChannelManager(view) ==
  IF view.asked = Nowhere \/ view.loading \/ view.shown = Nowhere THEN {}
  ELSE {<<"connection", view.asked>>} \cup
       {<<kind, view.asked, t>> : kind \in {"table_clear", "table_delete"}, t \in DOMAIN view.content}

BalanceManager(view) ==
  IF view.asked = Nowhere \/ view.loading \/ view.shown = Nowhere THEN {} ELSE {<<"adjust", view.asked>>}

AdminConsole(me, path, vs) ==
  LET books   == vs["overview"].content
      section == ParseRoute(path).section
  IN  IF ~Loaded(vs["overview"]) \/ ~SectionAllowed(books, section) THEN {}
      ELSE CASE section = "users"    -> UsersSection(books, me)
             [] section = "roles"    -> RoleManager(books)
             [] section = "rankings" -> RankingManager(books, vs["rankings"])
             [] section = "channels" -> ChannelManager(vs["detail"])
             [] section = "balances" -> BalanceManager(vs["balances"])
             [] section = "settings" -> Branding(books) \cup LoginHero(books) \cup
                                        WeChatLoginSettings(books) \cup RegistrationPolicy(books)

Offers(me, path, screen, vs) ==
  CASE screen = "lobby"    -> SpaceDialog
    [] screen = "room"     -> ChannelMain(vs)
    [] screen = "bindings" -> BindingDialog(vs["bindings"].content)
    [] screen = "settings" -> IF vs["keys"].asked = Nowhere THEN ProfileSettings \cup AccountSecuritySettings
                              ELSE MCPKeySettings(vs["keys"])
    [] screen = "balances" -> BalanceManager(vs["balances"])
    [] screen = "console"  -> AdminConsole(me, path, vs)
    [] OTHER               -> {}

(***************************************************************************)
(* The console's copy of the books after a request went through: changed   *)
(* in place, not loaded again.                                             *)
(***************************************************************************)
\* Mutant: the number of users of each role is left as it was.
RecalculateUsersOnly(books, us) == [books EXCEPT !.users = us, !.counts = CountsOf(us)]

RecalculateOverview(books, us) ==
  [books EXCEPT !.users = us,
                !.counts = CountsOf(us),
                !.roles = [key \in DOMAIN @ |-> [@[key] EXCEPT !.user_count = UsersWith(us, key)]]]

WithUser(books, x, told) ==
  RecalculateOverview(books, WithAccount(books.users, x, told))

WithoutUser(books, x) ==
  RecalculateOverview(books, [y \in DOMAIN books.users \ {x} |-> books.users[y]])

SpaceChanged(books, s, tables) ==
  LET before == IF s \in DOMAIN books.spaces THEN books.spaces[s] ELSE 0
      total  == books.tables + tables - before
  IN  [books EXCEPT !.spaces = [x \in DOMAIN @ |-> IF x = s THEN tables ELSE @[x]],
                    !.tables = IF total < 0 THEN 0 ELSE total]

\* The dialogs of RoleManager edit the list of roles it was drawn with.
RoleSaved(roles, key, told) ==
  [k \in DOMAIN roles \cup {key} |-> IF k = key THEN told ELSE roles[k]]
RoleDeleted(roles, key) == [k \in DOMAIN roles \ {key} |-> roles[k]]
=============================================================================
