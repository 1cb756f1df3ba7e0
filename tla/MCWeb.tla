------------------------------- MODULE MCWeb -------------------------------
(* Two channels of root's; op has joined both, pat the first.  op has the       *)
(* rights of a seeded operator, or more, and in some stories a channel assigned. *)
EXTENDS WebClient

CONSTANTS root, op, pat, spare, A, B, t1, t2

Account(role, managed, joined) ==
  [role |-> role, status |-> "active", managed |-> managed, joined |-> joined, hidden |-> FALSE]

\* The roles of a new database; channel_manager is left out where no story needs it.
OperatorRights == {"admin:view", "users:read", "users:manage", "balances:manage"}

Database(rights, managed) ==
  [users  |-> [x \in {root, op, pat} |->
                 CASE x = root -> Account("super_admin", {}, {A, B})
                   [] x = op   -> Account("operator", managed, {A, B})
                   [] x = pat  -> Account("player", {}, {A})],
   roles  |-> [key \in {"super_admin", "operator", "player"} |->
                 CASE key = "super_admin" -> Permissions
                   [] key = "operator"    -> rights
                   [] key = "player"      -> {}],
   owner  |-> [s \in Spaces |-> root],
   tables |-> [s \in Spaces |-> IF s = A THEN {t1} ELSE {}],
   site   |-> DefaultSite,
   bound  |-> [x \in Users |-> IF x = root THEN {A} ELSE {}],
   mcp    |-> [x \in Users |-> [exists |-> FALSE, enabled |-> FALSE]],
   made   |-> <<t1>>,
   ghost  |-> FALSE]

Bounds(requests, losses, moves) == [saves |-> requests, fails |-> losses, moves |-> moves, accounts |-> 0]
MakesAccounts(n, bounds) == [bounds EXCEPT !.accounts = n]

Tale(people, reach, kinds, base, bounds) ==
  [people |-> people, reach |-> reach, kinds |-> kinds, db |-> base, bounds |-> bounds]

\* The lobby, joining and the pages of a channel.
LobbyStory == Tale({root, pat}, {<< >>, <<"channels", A>>, <<"channels", B>>, <<"channels", A, "history">>, <<"elsewhere">>},
                    {"join"}, Database(OperatorRights, {}), Bounds(1, 0, 2))
ChannelStory == Tale({root, pat}, {<<"channels">>, <<"channels", A>>},
                      {"table_new", "table_clear", "table_delete"}, Database(OperatorRights, {}), Bounds(2, 0, 2))
BalanceStory == Tale({root, op, pat}, {<<"channels", A, "balances">>, <<"channels", B, "balances">>,
                                   <<"account", "bindings">>, <<"admin">>}, {"adjust", "bind"}, Database(OperatorRights, {A}), Bounds(1, 1, 3))
\* The same pages when New API makes an account of one who has none.
BindingStory == [BalanceStory EXCEPT !.bounds = MakesAccounts(1, Bounds(1, 1, 2))]
\* One leaves the console and another signs in, the first one's channel chosen.
StrangerStory == Tale({root, pat, spare}, {<<"channels", A>>, <<"channels">>, <<"admin", "login">>}, {},
                       Database(OperatorRights, {}), Bounds(0, 1, 5))
SettingsStory == Tale({pat}, {<<"settings">>, <<"channels">>}, {"profile", "avatar", "credentials", "key", "revoke", "agent"},
                       Database(OperatorRights, {}), Bounds(2, 1, 2))
UsersStory == Tale({root, op}, {<<"admin", "users">>, <<"admin", "roles">>},
                    {"user_new", "user_edit", "user_delete"}, Database(OperatorRights, {}), Bounds(2, 0, 3))
RolesStory == Tale({root, op}, {<<"admin", "roles">>, <<"admin", "users">>},
                    {"role_save", "role_delete", "user_new"},
                    Database(OperatorRights \cup {"roles:manage"}, {}), Bounds(2, 0, 2))
SheetStory == Tale({root, op}, {<<"admin", "channels">>, <<"admin", "balances">>},
                    {"table_clear", "table_delete", "connection"}, Database(OperatorRights \cup {"channels:manage"}, {A}), Bounds(2, 1, 1))
RankingStory == Tale({root}, {<<"admin", "rankings">>, <<"admin">>}, {"hide", "amount", "reset"},
                      Database(OperatorRights, {}), Bounds(2, 0, 1))
SiteStory == Tale({root}, {<<"admin", "settings">>, <<"channels">>}, {"registration", "name", "icon", "hero", "wechat"},
                   Database(OperatorRights, {}), Bounds(2, 0, 1))
\* The settings are left and opened again while a request is under way.
ReopenStory == Tale({root}, {<<"admin", "settings">>, <<"admin">>}, {"wechat"},
                     Database(OperatorRights, {}), Bounds(2, 0, 2))
\* An answer to a join comes when another channel is shown, where tables are made.
LateJoinStory == Tale({root}, {<<"channels">>, <<"channels", A>>}, {"join", "table_new"},
                       Database(OperatorRights, {}), Bounds(2, 0, 2))
\* op is a super administrator who has joined the first channel alone.
OutsiderBase == [Database(OperatorRights, {}) EXCEPT !.users[op].role = "super_admin", !.users[op].joined = {A}]
OutsiderStory == Tale({op}, {<< >>, <<"account", "bindings">>, <<"channels", B>>, <<"channels", A, "history">>, <<"channels", B, "history">>},
                       {"join", "bind"}, OutsiderBase, MakesAccounts(1, Bounds(1, 0, 2)))

AllStories ==
  [Lobby |-> LobbyStory, Channel |-> ChannelStory, Balance |-> BalanceStory, Stranger |-> StrangerStory,
   Settings |-> SettingsStory, Users |-> UsersStory, Roles |-> RolesStory, Sheet |-> SheetStory,
   Ranking |-> RankingStory, Site |-> SiteStory, Reopen |-> ReopenStory, LateJoin |-> LateJoinStory,
   Outsider |-> OutsiderStory, Binding |-> BindingStory]
=============================================================================
