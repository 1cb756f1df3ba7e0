----------------------------- MODULE WebRights -----------------------------
(***************************************************************************)
(* Who may do what on the web side of PokerNode: what the handlers of      *)
(* src/internal/app answer the signed-in user from the database.           *)
(*                                                                         *)
(* A request is a tuple, what it does and then its arguments; a read is a  *)
(* view of the pages and the key it is loaded for.  Names, passwords,      *)
(* pictures and texts are left out; a setting with such a value has a few  *)
(* abstract ones.  The database db is a record: users (role, status,       *)
(* managed and joined channels, hidden from the ranking), roles (their     *)
(* permissions), owner (of each channel), tables (of each channel), made   *)
(* (the tables there ever were, in order, no id being used twice), site    *)
(* (the platform settings), bound (the channels where a user has given his *)
(* account), mcp (of each user: is there a key, does the agent play), ghost *)
(* (an account was deleted by force: its row stays, as a deleted player).  *)
(***************************************************************************)
EXTENDS Integers, FiniteSets, FiniteSetsExt, Sequences

CONSTANTS
  Users,       \* every account there may ever be
  Spaces,      \* every channel
  Tables,      \* every table there may ever be
  LastPage,    \* the number of pages of records a user has
  Everything,  \* the key of a read that names no channel or page
  Nowhere,     \* no channel
  Nothing      \* a request or a read with nothing else to tell

Permissions == {"admin:view", "users:read", "users:manage", "channels:manage",
                "balances:manage", "rankings:manage", "roles:manage",
                "registration:manage", "auth_settings:manage", "branding:manage"}

Requires(p) == CASE p = "admin:view"   -> {}
                 [] p = "users:manage" -> {"users:read"}
                 [] OTHER              -> {"admin:view"}

\* The longest chain of requirements has three permissions, so two rounds
\* reach the fixpoint the loop of the code looks for.
ExpandPermissions(ps) ==
  LET Once(qs) == qs \cup UNION {Requires(p) : p \in qs}
  IN  Once(Once(ps))

\* The rows of the database that the pages are about.
HasFields(r, fields) == DOMAIN r = fields /\ r = [f \in fields |-> r[f]]

IsAccount(x) ==
  HasFields(x, {"role", "status", "managed", "joined", "hidden"}) /\ x.joined \subseteq Spaces

IsDatabase(db) ==
  /\ HasFields(db, {"users", "roles", "owner", "tables", "site", "bound", "mcp", "made", "ghost"})
  /\ HasFields(db.users, DOMAIN db.users)
  /\ \A x \in DOMAIN db.users : IsAccount(db.users[x])

\* The tables there are were made, each for one channel; every user may have
\* accounts bound and a key.
SiteFields == {"registration", "name", "icon", "hero", "wechat"}
Made(db)   == {db.made[i] : i \in DOMAIN db.made}

HasRows(db) ==
  /\ DOMAIN db.users \subseteq Users
  /\ HasFields(db.bound, Users)
  /\ HasFields(db.mcp, Users) /\ \A x \in Users : HasFields(db.mcp[x], {"exists", "enabled"})
  /\ HasFields(db.site, SiteFields)
  /\ db.made \in Seq(Tables)
  /\ HasFields(db.tables, Spaces) /\ \A s \in Spaces : db.tables[s] \subseteq Made(db)
  /\ \A s, x \in Spaces : db.tables[s] \cap db.tables[x] # {} => s = x

RoleOf(db, u)  == db.users[u].role
IsSuper(db, u) == RoleOf(db, u) = "super_admin"

PermissionsForUser(db, u) ==
  IF IsSuper(db, u) THEN Permissions
  ELSE ExpandPermissions(db.roles[RoleOf(db, u)])

HasRight(db, u, p) == p \in PermissionsForUser(db, u)

Assigned(db, u, s) == s \in db.users[u].managed \cap db.users[u].joined

ManagesSpace(db, u, s, permission) ==
  \/ IsSuper(db, u)
  \/ db.owner[s] = u
  \/ HasRight(db, u, permission) /\ Assigned(db, u, s)

CanManage(db, u, s) == ManagesSpace(db, u, s, "channels:manage")

\* Some handlers let in whoever works with the channel, others only who joined it.
SpaceForUser(db, u, s)  == s \in db.users[u].joined
SpaceForActor(db, u, s) == s \in Spaces /\ (CanManage(db, u, s) \/ SpaceForUser(db, u, s))

\* What a session is told of its user and of a channel: by a handler that looks the
\* channel up for whoever joined it, its owner alone is told to manage it.
TellUser(db, u) == [id |-> u, role |-> RoleOf(db, u), permissions |-> PermissionsForUser(db, u)]
TellSpace(db, u, s) == [id |-> s, is_owner |-> db.owner[s] = u, can_manage |-> CanManage(db, u, s)]
TellMember(db, u, s) == [TellSpace(db, u, s) EXCEPT !.can_manage = db.owner[s] = u]

AllowsAssignments(permissions) == permissions \cap {"channels:manage", "balances:manage"} # {}

AdminSpaces(db, u) ==
  IF IsSuper(db, u) THEN Spaces
  ELSE IF ~AllowsAssignments(PermissionsForUser(db, u)) THEN {}
  ELSE {s \in Spaces : db.owner[s] = u \/ Assigned(db, u, s)}

UsersWith(us, key) == Cardinality({u \in DOMAIN us : us[u].role = key})

RoleKeys == {"super_admin", "player", "operator", "channel_manager", "extra"}

CountsOf(us) == [total  |-> Cardinality(DOMAIN us),
                 active |-> Cardinality({u \in DOMAIN us : us[u].status = "active"}),
                 byRole |-> [key \in RoleKeys |-> UsersWith(us, key)]]

\* GET /api/admin/overview.  Every role and setting is told to whoever may
\* open the console; users and channels only to those who work with them.
Overview(db, u) ==
  LET rights == PermissionsForUser(db, u)
      told   == IF rights \cap {"users:read", "users:manage"} = {} THEN {} ELSE DOMAIN db.users
      us     == [x \in told |-> db.users[x]]
      count  == [s \in AdminSpaces(db, u) |-> Cardinality(db.tables[s])]
  IN  [users       |-> us,
       counts      |-> CountsOf(us),
       spaces      |-> count,
       tables      |-> MapThenSumSet(LAMBDA s : count[s], DOMAIN count),
       permissions |-> rights,
       roles       |-> [key \in DOMAIN db.roles |->
                          [permissions |-> db.roles[key], user_count |-> UsersWith(db.users, key)]],
       site        |-> db.site]

(***************************************************************************)
(* Reads: which are answered, and with what.                               *)
(***************************************************************************)
PermittedRead(db, u, v, k) ==
  CASE v = "overview"                 -> HasRight(db, u, "admin:view")
    [] v = "rankings"                 -> HasRight(db, u, "rankings:manage")
    [] v = "balances"                 -> ManagesSpace(db, u, k, "balances:manage")
    [] v = "detail"                   -> CanManage(db, u, k)
    [] v \in {"space", "about", "tables"} -> SpaceForActor(db, u, k)
    [] v = "board" /\ k # Everything  -> SpaceForUser(db, u, k)
    [] v \in {"hands", "funds"}       -> SpaceForUser(db, u, k)
    [] OTHER                          -> TRUE

Tell(db, u, v, k) ==
  CASE v = "overview"              -> Overview(db, u)
    [] v = "spaces"                -> [s \in {x \in Spaces : SpaceForActor(db, u, x)} |-> TellSpace(db, u, s)]
    [] v \in {"space", "about"}    -> TellSpace(db, u, k)
    [] v \in {"tables", "detail"}  -> [t \in db.tables[k] |-> 1]
    [] v = "keys"                  -> db.mcp[u]
    [] v = "bindings"              -> [s \in db.users[u].joined |-> s \in db.bound[u]]
    [] OTHER                       -> Nothing

(***************************************************************************)
(* Requests: the rights a handler asks for before it looks at the request  *)
(* in detail (401, 403), the state it asks for (400, 404, 409), and what   *)
(* it does.                                                                *)
(***************************************************************************)
RightFor(kind) ==
  CASE kind \in {"user_new", "user_edit", "user_delete"} -> "users:manage"
    [] kind \in {"hide", "amount", "reset"}              -> "rankings:manage"
    [] kind \in {"role_save", "role_delete"}             -> "roles:manage"
    [] kind = "registration"                             -> "registration:manage"
    [] kind = "wechat"                                   -> "auth_settings:manage"
    [] kind \in {"name", "icon", "hero"}                 -> "branding:manage"

PermittedUserChange(db, u, q) ==
  LET roles == HasRight(db, u, "roles:manage")
  IN  CASE q[1] = "user_new" ->
             /\ roles \/ q[3] = "player"
             /\ q[3] = "super_admin" => IsSuper(db, u)
        [] q[1] = "user_edit" ->
             /\ q[2] # u
             /\ roles  \* the pages always send the managed channels
             /\ "super_admin" \in {RoleOf(db, q[2]), q[3]} => IsSuper(db, u)
        [] q[1] = "user_delete" /\ q[3] -> q[2] # u /\ IsSuper(db, u)
        [] OTHER ->
             /\ q[2] # u
             /\ roles \/ RoleOf(db, q[2]) = "player"
             /\ RoleOf(db, q[2]) = "super_admin" => IsSuper(db, u)

Permitted(db, u, q) ==
  LET kind == q[1]
  IN  CASE kind \in {"join", "profile", "avatar", "credentials", "key", "revoke", "agent"} -> TRUE
        [] kind = "bind" -> SpaceForUser(db, u, q[2])
        [] kind \in {"table_new", "table_clear", "table_delete", "connection"} -> CanManage(db, u, q[2])
        [] kind = "adjust" -> ManagesSpace(db, u, q[2], "balances:manage")
        [] OTHER ->
             /\ HasRight(db, u, RightFor(kind))
             /\ kind \in {"user_new", "user_edit", "user_delete"} /\ (kind # "user_new" => q[2] \in DOMAIN db.users)
                   => PermittedUserChange(db, u, q)
             /\ kind = "role_save" => IsSuper(db, u) \/ ExpandPermissions(q[3]) \subseteq PermissionsForUser(db, u)

\* Without another active super administrator u's account has to stay one.
LastSuperAdmin(db, u) ==
  {x \in DOMAIN db.users : IsSuper(db, x) /\ db.users[x].status = "active"} = {u}

Accepted(db, u, q) ==
  CASE q[1] = "user_new"     -> q[2] \notin DOMAIN db.users /\ q[3] \in DOMAIN db.roles
    [] q[1] = "user_edit"    -> /\ q[2] \in DOMAIN db.users
                                /\ q[3] \in DOMAIN db.roles
                                /\ AllowsAssignments(db.roles[q[3]]) => q[5] \subseteq db.users[q[2]].joined
                                /\ LastSuperAdmin(db, q[2]) => q[3] = "super_admin" /\ q[4] = "active"
    [] q[1] = "user_delete"  -> /\ q[2] \in DOMAIN db.users
                                /\ ~LastSuperAdmin(db, q[2])
                                /\ q[3] \/ \A s \in Spaces : db.owner[s] # q[2]
    [] q[1] = "role_save"    -> q[2] # "super_admin" /\ q[4] = (q[2] \notin DOMAIN db.roles)
    [] q[1] = "role_delete"  -> /\ q[2] \in DOMAIN db.roles \ {"super_admin"}
                                /\ UsersWith(db.users, q[2]) = 0
                                /\ ~(q[2] = "player" /\ db.ghost)
    [] q[1] = "hide"         -> q[2] \in DOMAIN db.users
    [] q[1] = "table_new"    -> Len(db.made) < Cardinality(Tables)  \* a bound
    [] q[1] \in {"table_clear", "table_delete"} -> q[3] \in db.tables[q[2]]
    [] q[1] = "hero"         -> q[2] = "moved" => db.site.hero # "default"
    [] q[1] = "agent"        -> q[2] => db.mcp[u].exists
    [] OTHER                 -> TRUE

NewTable(db)  == CHOOSE t \in Tables : \A i \in 1..Len(db.made) : db.made[i] # t
WithAccount(us, x, account) == [y \in DOMAIN us \cup {x} |-> IF y = x THEN account ELSE us[y]]
NewUser(role) == [role |-> role, status |-> "active", managed |-> {}, joined |-> {}, hidden |-> FALSE]

\* A forced deletion hands the channels over to the super administrator who
\* ordered it.
DeleteUser(db, u, gone, force) ==
  LET others == [x \in DOMAIN db.users \ {gone} |-> db.users[x]]
      given  == {s \in Spaces : db.owner[s] = gone}
  IN  [db EXCEPT !.users = IF force THEN [others EXCEPT ![u].joined = @ \cup given] ELSE others,
                 !.owner = [s \in Spaces |-> IF s \in given THEN u ELSE db.owner[s]],
                 !.bound[gone] = {},
                 !.ghost = @ \/ force]

Applied(db, u, q) ==
  CASE q[1] = "join"         -> [db EXCEPT !.users[u].joined = @ \cup {q[2]}]
    [] q[1] = "bind"         -> [db EXCEPT !.bound[u] = @ \cup {q[2]}]
    [] q[1] = "key"          -> [db EXCEPT !.mcp[u].exists = TRUE]
    [] q[1] = "revoke"       -> [db EXCEPT !.mcp[u] = [exists |-> FALSE, enabled |-> FALSE]]
    [] q[1] = "agent"        -> [db EXCEPT !.mcp[u].enabled = q[2]]
    [] q[1] = "table_new"    -> [db EXCEPT !.tables[q[2]] = @ \cup {NewTable(db)}, !.made = Append(@, NewTable(db))]
    [] q[1] = "table_delete" -> [db EXCEPT !.tables[q[2]] = @ \ {q[3]}]
    [] q[1] = "user_new"     -> [db EXCEPT !.users = WithAccount(@, q[2], NewUser(q[3]))]
    [] q[1] = "user_edit"    -> [db EXCEPT !.users[q[2]].role = q[3], !.users[q[2]].status = q[4],
                                           !.users[q[2]].managed =
                                              IF AllowsAssignments(db.roles[q[3]]) THEN q[5] ELSE {}]
    [] q[1] = "user_delete"  -> DeleteUser(db, u, q[2], q[3])
    [] q[1] = "role_save"    -> [db EXCEPT !.roles = [key \in DOMAIN @ \cup {q[2]} |->
                                                        IF key = q[2] THEN ExpandPermissions(q[3]) ELSE @[key]]]
    [] q[1] = "role_delete"  -> [db EXCEPT !.roles = [key \in DOMAIN @ \ {q[2]} |-> @[key]]]
    [] q[1] = "hide"         -> [db EXCEPT !.users[q[2]].hidden = q[3]]
    [] q[1] \in {"registration", "name", "icon", "hero", "wechat"} -> [db EXCEPT !.site[q[1]] = q[2]]
    [] OTHER                 -> db

\* autoProvisionMember: New API makes the user an account of his own.
WithAccountAt(db, u, s) == [db EXCEPT !.bound[u] = @ \cup {s}]

\* The body of the answer to a request that went through, db being the
\* database after it.
Told(db, u, q) ==
  CASE q[1] = "join"                              -> TellMember(db, u, q[2])
    [] q[1] \in {"profile", "avatar", "credentials"} -> TellUser(db, u)
    [] q[1] = "table_new"                         -> db.made[Len(db.made)]
    [] q[1] \in {"user_new", "user_edit", "hide"} -> db.users[q[2]]
    [] q[1] = "role_save"                         -> [permissions |-> db.roles[q[2]],
                                                      user_count  |-> UsersWith(db.users, q[2])]
    [] q[1] \in {"name", "icon"}                  -> [name |-> db.site.name, icon |-> db.site.icon]
    [] OTHER                                      -> Nothing
=============================================================================
