--------------------------- MODULE WebBooks_proofs ---------------------------
(***************************************************************************)
(* Proofs about what the pages of the web client keep in hand: what they   *)
(* edit answer by answer is what the server would tell.                    *)
(*                                                                         *)
(* BooksInv says what the lists that the pages edit themselves have to do  *)
(* with the database while requests are under way: where a good answer is  *)
(* still to edit a list, the database is what it tells; elsewhere the two  *)
(* agree.  Each part of it is shown to survive that a request is sent,     *)
(* handled, lost or refused, and that its answer edits the list.           *)
(***************************************************************************)
EXTENDS WebPages_proofs

-----------------------------------------------------------------------------
(* The rows stay what they are *)

\* While there are tables left, the next one is new.
LEMMA NewTableIsNew ==
  ASSUME NEW d, d.made \in Seq(Tables), Len(d.made) < Cardinality(Tables)
  PROVE  /\ NewTable(d) \in Tables \ Made(d)
         /\ Append(d.made, NewTable(d)) \in Seq(Tables)
         /\ {Append(d.made, NewTable(d))[i] : i \in DOMAIN Append(d.made, NewTable(d))} = Made(d) \cup {NewTable(d)}
<1>. DEFINE S == 1..Len(d.made)
            T == {d.made[i] : i \in S}
            f == [i \in S |-> d.made[i]]
<1>1. Len(d.made) \in Nat /\ DOMAIN d.made = S /\ \A i \in S : d.made[i] \in Tables
  OBVIOUS
<1>2. IsFiniteSet(S) /\ Cardinality(S) = Len(d.made)
  BY <1>1, FS_Interval
<1>3. f \in Surjection(S, T)
  BY DEF Surjection
<1>4. Cardinality(T) <= Len(d.made)
  BY <1>2, <1>3, FS_Surjection
<1>5. T # Tables
  <2>1. Cardinality(Tables) \in Nat
    BY SetsAssumption, FS_CardinalityType
  <2>2. Cardinality(T) \in Nat
    BY <1>2, <1>3, FS_Surjection, FS_CardinalityType
  <2>. HIDE DEF T
  <2>. QED  BY <1>1, <1>4, <2>1, <2>2
<1>6. \E t \in Tables : t \notin T
  BY <1>1, <1>5
<1>7. \E t \in Tables : \A i \in 1..Len(d.made) : d.made[i] # t
  BY <1>6
<1>8. NewTable(d) \in Tables /\ \A i \in S : d.made[i] # NewTable(d)
  BY <1>7 DEF NewTable
<1>9. NewTable(d) \in Tables \ Made(d)
  BY <1>1, <1>8 DEF Made
<1>. DEFINE t == NewTable(d)
            more == Append(d.made, t)
<1>. HIDE DEF t
<1>10. more \in Seq(Tables) /\ DOMAIN more = 1..Len(d.made) + 1
       /\ \A i \in 1..Len(d.made) + 1 : more[i] = IF i = Len(d.made) + 1 THEN t ELSE d.made[i]
  BY <1>1, <1>9 DEF t
<1>. HIDE DEF more
<1>11. {more[i] : i \in DOMAIN more} = Made(d) \cup {t}
  BY <1>1, <1>10 DEF Made
<1>. QED  BY <1>9, <1>10, <1>11 DEF more, t

\* A key stays one.
LEMMA KeyAfterFields ==
  ASSUME NEW keys, HasFields(keys, {"exists", "enabled"}), NEW q, q[1] \in KeyKinds
  PROVE  HasFields(KeyAfter(keys, q), {"exists", "enabled"})
<1>1. q[1] = "key" => KeyAfter(keys, q) = [keys EXCEPT !.exists = TRUE]
  BY DEF KeyAfter
<1>2. q[1] = "revoke" => KeyAfter(keys, q) = NoKey
  BY DEF KeyAfter
<1>3. q[1] = "agent" => KeyAfter(keys, q) = [keys EXCEPT !.enabled = q[2]]
  BY DEF KeyAfter
<1>4. HasFields([keys EXCEPT !.exists = TRUE], {"exists", "enabled"})
  BY DEF HasFields
<1>5. HasFields(NoKey, {"exists", "enabled"})
  BY DEF HasFields, NoKey
<1>6. HasFields([keys EXCEPT !.enabled = q[2]], {"exists", "enabled"})
  BY DEF HasFields
<1>. QED  BY <1>1, <1>2, <1>3, <1>4, <1>5, <1>6 DEF KeyKinds

\* The rows stay what they are.
LEMMA AppliedRows ==
  ASSUME NEW d, IsDatabase(d), HasRows(d), NEW u, u \in DOMAIN d.users, NEW q,
         Permitted(d, u, q), Accepted(d, u, q), q[1] = "user_new" => q[2] \in Users,
         NEW d2, d2 = Applied(d, u, q)
  PROVE  HasRows(d2)
<1>1. DOMAIN d2.users \subseteq Users
  <2>1. q[1] \in UserKinds => /\ DOMAIN d2.users \subseteq DOMAIN d.users \cup {q[2]}
                              /\ q[1] # "user_new" => q[2] \in DOMAIN d.users \/ DOMAIN d2.users \subseteq DOMAIN d.users
    <3>1. q[1] \in UserKinds => DOMAIN d2.users \subseteq DOMAIN d.users \cup {q[2]}
      BY AppliedUsers
    <3>2. q[1] \in UserKinds /\ q[1] # "user_new" => q[2] \in DOMAIN d.users
      BY DEF Accepted, UserKinds
    <3>. QED  BY <3>1, <3>2
  <2>2. q[1] = "join" => DOMAIN d2.users = DOMAIN d.users
    BY AppliedElse
  <2>3. q[1] \notin UserKinds \cup {"join"} => d2.users = d.users
    BY AppliedKeeps
  <2>. QED  BY <2>1, <2>2, <2>3 DEF HasRows
<1>2. HasFields(d2.bound, Users)
  <2>1. q[1] = "bind" => d2.bound = Put(d.bound, u, More(d.bound[u], q[2]))
    BY AppliedBinding
  <2>2. q[1] = "user_delete" => d2.bound = Put(d.bound, q[2], {})
    BY AppliedUsers DEF UserKinds
  <2>3. q[1] \notin {"bind", "user_delete"} => d2.bound = d.bound
    BY AppliedKeeps
  <2>4. HasFields(d.bound, Users) /\ DOMAIN d.bound = Users
    BY DEF HasRows, HasFields
  <2>5. HasFields(Put(d.bound, u, More(d.bound[u], q[2])), Users) /\ HasFields(Put(d.bound, q[2], {}), Users)
    BY <2>4, PutIs
  <2>. QED  BY <2>1, <2>2, <2>3, <2>4, <2>5
<1>3. HasFields(d2.mcp, Users) /\ \A x \in Users : HasFields(d2.mcp[x], {"exists", "enabled"})
  <2>. DEFINE key == KeyAfter(d.mcp[u], q)
  <2>1. HasFields(d.mcp, Users) /\ DOMAIN d.mcp = Users /\ (\A x \in Users : HasFields(d.mcp[x], {"exists", "enabled"})) /\ u \in Users
    BY DEF HasRows, HasFields
  <2>2. q[1] \in KeyKinds => HasFields(key, {"exists", "enabled"}) /\ d2.mcp = Put(d.mcp, u, key)
    BY <2>1, KeyAfterFields, AppliedKey
  <2>. HIDE DEF key
  <2>3. HasFields(Put(d.mcp, u, key), Users) /\ \A x \in Users : Put(d.mcp, u, key)[x] = IF x = u THEN key ELSE d.mcp[x]
    BY <2>1, PutIs
  <2>4. q[1] \notin KeyKinds => d2.mcp = d.mcp
    BY AppliedKeeps
  <2>. QED  BY <2>1, <2>2, <2>3, <2>4
<1>4. HasFields(d2.site, SiteFields)
  <2>1. q[1] \in SiteKinds => d2.site = Put(d.site, q[1], q[2])
    BY AppliedSite
  <2>2. q[1] \notin SiteKinds => d2.site = d.site
    BY AppliedKeeps
  <2>3. HasFields(d.site, SiteFields) /\ DOMAIN d.site = SiteFields
    BY DEF HasRows, HasFields
  <2>4. HasFields(Put(d.site, q[1], q[2]), SiteFields)
    BY <2>3, PutIs
  <2>. QED  BY <2>1, <2>2, <2>3, <2>4
<1>5. /\ d2.made \in Seq(Tables) /\ HasFields(d2.tables, Spaces)
      /\ \A s \in Spaces : d2.tables[s] \subseteq Made(d2)
      /\ \A s, x \in Spaces : d2.tables[s] \cap d2.tables[x] # {} => s = x
  <2>0. /\ d.made \in Seq(Tables) /\ HasFields(d.tables, Spaces) /\ DOMAIN d.tables = Spaces
        /\ \A s \in Spaces : d.tables[s] \subseteq Made(d)
        /\ \A s, x \in Spaces : d.tables[s] \cap d.tables[x] # {} => s = x
    BY DEF HasRows, HasFields
  <2>1. CASE q[1] = "table_new"
    <3>. DEFINE t == NewTable(d)
                more == More(d.tables[q[2]], t)
    <3>1. d2.tables = Put(d.tables, q[2], more) /\ d2.made = Append(d.made, t)
      BY <2>1, AppliedTables
    <3>2. t \notin Made(d) /\ d2.made \in Seq(Tables) /\ Made(d2) = Made(d) \cup {t}
      BY <2>0, <2>1, <3>1, NewTableIsNew, SMTT(60) DEF Accepted, Made
    <3>. HIDE DEF more, t
    <3>3. HasFields(d2.tables, Spaces) /\ \A s \in Spaces : d2.tables[s] = IF s = q[2] THEN more ELSE d.tables[s]
      BY <2>0, <3>1, PutIs
    <3>4. more = d.tables[q[2]] \cup {t}
      BY DEF more, More
    <3>5. \A s, x \in Spaces : d2.tables[s] \cap d2.tables[x] # {} => s = x
      BY <2>0, <3>2, <3>3, <3>4
    <3>. QED  BY <2>0, <3>2, <3>3, <3>4, <3>5
  <2>2. CASE q[1] = "table_delete"
    <3>. DEFINE less == Less(d.tables[q[2]], q[3])
    <3>1. d2.tables = Put(d.tables, q[2], less) /\ d2.made = d.made
      BY <2>2, AppliedTables, AppliedKeeps
    <3>. HIDE DEF less
    <3>2. HasFields(d2.tables, Spaces) /\ \A s \in Spaces : d2.tables[s] = IF s = q[2] THEN less ELSE d.tables[s]
      BY <2>0, <3>1, PutIs
    <3>3. Made(d2) = Made(d)
      BY <3>1 DEF Made
    <3>4. \A s \in Spaces : d2.tables[s] \subseteq d.tables[s]
      BY <3>2 DEF less, Less
    <3>. QED  BY <2>0, <3>1, <3>2, <3>3, <3>4
  <2>3. CASE q[1] \notin {"table_new", "table_delete"}
    <3>1. d2.tables = d.tables /\ d2.made = d.made
      BY <2>3, AppliedKeeps
    <3>2. Made(d2) = Made(d)
      BY <3>1 DEF Made
    <3>. QED  BY <2>0, <3>1, <3>2
  <2>. QED  BY <2>1, <2>2, <2>3
<1>. QED  BY <1>1, <1>2, <1>3, <1>4, <1>5 DEF HasRows

-----------------------------------------------------------------------------
(* What the page keeps in hand, and what is still under way for it *)

\* A request in flight and what its handler has kept of the page.
SaveFields == {"q", "phase", "mine", "held", "ok", "told", "roles", "count", "brand"}

\* An answer that is good has come; a request to add an account names a user.
IsKept(a) ==
  /\ HasFields(a, SaveFields)
  /\ {a.mine, a.held, a.ok} \subseteq BOOLEAN
  /\ a.ok => a.phase = "answered"
  /\ a.q[1] = "user_new" => a.q[2] \in Users

\* The server handles a, which has then its answer a2: refused, or done to the database d.
Serves(a, a2, d, d2, u) ==
  /\ \A f \in {"q", "mine", "held", "roles", "count", "brand"} : a2[f] = a[f]
  /\ IsKept(a) /\ IsKept(a2) /\ ~a.ok
  /\ \/ ~a2.ok /\ d2 = d
     \/ /\ a2.ok /\ Permitted(d, u, a.q) /\ Accepted(d, u, a.q)
        /\ d2 = Applied(d, u, a.q)
        /\ a2.told[2] = Told(d2, u, a.q)

\* The requests after that.
Answered(ss, a, a2) == (ss \ {a}) \cup {a2}

\* What handling a request leaves as it is.
LEMMA ServesKeeps ==
  ASSUME NEW d, IsDatabase(d), NEW u, u \in DOMAIN d.users, NEW a, NEW a2, NEW d2, Serves(a, a2, d, d2, u)
  PROVE  /\ a.q[1] \notin KeyKinds => d2.mcp = d.mcp
         /\ a.q[1] \notin {"bind", "user_delete"} => d2.bound = d.bound
         /\ a.q[1] \notin {"table_new", "table_delete"} => d2.tables = d.tables
         /\ a.q[1] # "table_new" => d2.made = d.made
         /\ a.q[1] \notin UserKinds \cup {"join"} => d2.users = d.users
         /\ a.q[1] \notin RoleKinds => d2.roles = d.roles
         /\ a.q[1] \notin SiteKinds => d2.site = d.site
         /\ a.q[1] # "user_delete" => d2.owner = d.owner
<1>1. CASE d2 = d
  BY <1>1
<1>2. CASE Permitted(d, u, a.q) /\ Accepted(d, u, a.q) /\ d2 = Applied(d, u, a.q)
  <2>. DEFINE q == a.q
  <2>1. Permitted(d, u, q) /\ Accepted(d, u, q) /\ d2 = Applied(d, u, q)
    BY <1>2
  <2>. HIDE DEF q
  <2>. SUFFICES /\ q[1] \notin KeyKinds => d2.mcp = d.mcp
                /\ q[1] \notin {"bind", "user_delete"} => d2.bound = d.bound
                /\ q[1] \notin {"table_new", "table_delete"} => d2.tables = d.tables
                /\ q[1] # "table_new" => d2.made = d.made
                /\ q[1] \notin UserKinds \cup {"join"} => d2.users = d.users
                /\ q[1] \notin RoleKinds => d2.roles = d.roles
                /\ q[1] \notin SiteKinds => d2.site = d.site
                /\ q[1] # "user_delete" => d2.owner = d.owner
    BY DEF q
  <2>. QED  BY <2>1, AppliedKeeps
<1>. QED  BY <1>1, <1>2 DEF Serves

\* The keys: one change at a time, the last one handled perhaps not shown yet.
KeysFollow(w, ss, d, u) ==
  /\ HasFields(w.content, {"exists", "enabled"})
  /\ \A a \in ss : a.mine /\ (a.q[1] \in KeyKinds => a.held)
  /\ \A a, c \in ss : a.q[1] \in KeyKinds /\ c.q[1] \in KeyKinds => a = c
  /\ (\A a \in ss : a.ok => a.q[1] \notin KeyKinds) => d.mcp[u] = w.content
  /\ \A a \in ss : a.ok /\ a.q[1] \in KeyKinds => d.mcp[u] = KeyAfter(w.content, a.q)

\* The server changes the key as the page will.
LEMMA KeysServed ==
  ASSUME NEW w, NEW ss, NEW d, NEW u, KeysFollow(w, ss, d, u), IsDatabase(d), HasRows(d), u \in DOMAIN d.users,
         NEW a \in ss, NEW a2, NEW d2, Serves(a, a2, d, d2, u)
  PROVE  KeysFollow(w, Answered(ss, a, a2), d2, u)
<1>. DEFINE ss2 == Answered(ss, a, a2)
<1>0. a2.q = a.q /\ a2.mine = a.mine /\ a2.held = a.held /\ ~a.ok
  BY DEF Serves
<1>1. \A c \in ss2 : c \in ss \/ c = a2
  BY DEF Answered
<1>2. \A c \in ss2 : c.mine /\ (c.q[1] \in KeyKinds => c.held)
  BY <1>0, <1>1 DEF KeysFollow
<1>3. \A c, e \in ss2 : c.q[1] \in KeyKinds /\ e.q[1] \in KeyKinds => c = e
  BY <1>0 DEF KeysFollow, Answered
<1>4. CASE a.q[1] \notin KeyKinds
  <2>1. d2.mcp = d.mcp
    BY <1>4, ServesKeeps
  <2>2. \A c \in ss2 : c.q[1] \in KeyKinds => c \in ss
    BY <1>0, <1>1, <1>4
  <2>3. \A c \in ss : c.q[1] \in KeyKinds => c \in ss2
    BY <1>4 DEF Answered
  <2>. HIDE DEF ss2
  <2>. QED  BY <1>2, <1>3, <2>1, <2>2, <2>3 DEF KeysFollow, ss2
<1>5. CASE a.q[1] \in KeyKinds
  <2>1. d.mcp[u] = w.content
    BY <1>0, <1>5 DEF KeysFollow
  <2>2. \A c \in ss2 : c.q[1] \in KeyKinds => c = a2
    BY <1>0, <1>5 DEF KeysFollow, Answered
  <2>3. a2 \in ss2
    BY DEF Answered
  <2>. HIDE DEF ss2
  <2>4. CASE ~a2.ok /\ d2 = d
    BY <1>2, <1>3, <2>1, <2>2, <2>4 DEF KeysFollow, ss2
  <2>5. CASE a2.ok /\ d2 = Applied(d, u, a.q)
    <3>. DEFINE q == a.q
                key == KeyAfter(w.content, q)
    <3>1. q[1] \in KeyKinds /\ d2 = Applied(d, u, q)
      BY <1>5, <2>5
    <3>. HIDE DEF q
    <3>2. d2.mcp = Put(d.mcp, u, key)
      BY <2>1, <3>1, AppliedKey
    <3>3. u \in DOMAIN d.mcp
      BY DEF HasRows, HasFields
    <3>4. d2.mcp[u] = key
      BY <3>2, <3>3, PutIs
    <3>5. \A c \in ss2 : c.q[1] \in KeyKinds => d2.mcp[u] = KeyAfter(w.content, c.q)
      BY <1>0, <2>2, <3>4 DEF q
    <3>6. ~ \A c \in ss2 : c.ok => c.q[1] \notin KeyKinds
      BY <1>0, <1>5, <2>3, <2>5
    <3>7. HasFields(w.content, {"exists", "enabled"})
      BY DEF KeysFollow
    <3>. QED  BY <1>2, <1>3, <3>5, <3>6, <3>7 DEF KeysFollow, ss2
  <2>. QED  BY <2>4, <2>5 DEF Serves
<1>. QED  BY <1>4, <1>5

\* A request goes that has changed no key.
LEMMA KeysDrop ==
  ASSUME NEW w, NEW ss, NEW d, NEW u, KeysFollow(w, ss, d, u), NEW a \in ss, ~a.ok \/ a.q[1] \notin KeyKinds
  PROVE  KeysFollow(w, ss \ {a}, d, u)
BY DEF KeysFollow

\* The page makes the change it asked for.
LEMMA KeysShown ==
  ASSUME NEW w, NEW ss, NEW d, NEW u, KeysFollow(w, ss, d, u), NEW a \in ss, a.ok, a.q[1] \in KeyKinds,
         NEW w2, w2.content = KeyAfter(w.content, a.q)
  PROVE  KeysFollow(w2, ss \ {a}, d, u)
<1>. DEFINE q == a.q
<1>1. HasFields(w.content, {"exists", "enabled"}) /\ q[1] \in KeyKinds
  BY DEF KeysFollow
<1>. HIDE DEF q
<1>2. HasFields(KeyAfter(w.content, q), {"exists", "enabled"})
  BY <1>1, KeyAfterFields
<1>3. HasFields(w2.content, {"exists", "enabled"})
  BY <1>2 DEF q
<1>4. \A c \in ss \ {a} : c.q[1] \notin KeyKinds
  BY DEF KeysFollow
<1>5. d.mcp[u] = w2.content
  BY DEF KeysFollow
<1>6. \A c \in ss \ {a} : c.mine
  BY DEF KeysFollow
<1>. QED  BY <1>3, <1>4, <1>5, <1>6 DEF KeysFollow

\* A request is sent.
LEMMA KeysSent ==
  ASSUME NEW w, NEW ss, NEW d, NEW u, KeysFollow(w, ss, d, u), NEW a, a.mine, a.held, ~a.ok,
         a.q[1] \in KeyKinds => \A c \in ss : c.q[1] \notin KeyKinds
  PROVE  KeysFollow(w, ss \cup {a}, d, u)
<1>1. \A c \in ss \cup {a} : c \in ss \/ c = a
  OBVIOUS
<1>. QED  BY <1>1 DEF KeysFollow

\* The accounts of the channels joined: some bound, some about to be shown as such.
BindingsFollow(w, ss, d, u) ==
  /\ \A a \in ss : a.mine /\ a.q[1] = "bind"
  /\ HasFields(w.content, d.users[u].joined)
  /\ \A s \in d.users[u].joined :
       /\ w.content[s] \in BOOLEAN
       /\ s \in d.bound[u] <=> w.content[s] \/ \E a \in ss : a.ok /\ a.q[2] = s

\* The server binds what the page will show as bound.
LEMMA BindingsServed ==
  ASSUME NEW w, NEW ss, NEW d, NEW u, BindingsFollow(w, ss, d, u), IsDatabase(d), HasRows(d), u \in DOMAIN d.users,
         NEW a \in ss, NEW a2, NEW d2, Serves(a, a2, d, d2, u)
  PROVE  BindingsFollow(w, Answered(ss, a, a2), d2, u)
<1>. DEFINE ss2 == Answered(ss, a, a2)
            q == a.q
<1>0. a2.q = q /\ a2.mine = a.mine /\ ~a.ok /\ q[1] = "bind" /\ a2 \in ss2
  BY DEF Serves, BindingsFollow, Answered
<1>1. \A c \in ss2 : c \in ss \/ c = a2
  BY DEF Answered
<1>2. \A c \in ss2 : c.mine /\ c.q[1] = "bind"
  BY <1>0, <1>1 DEF BindingsFollow
<1>3. d2.users = d.users
  BY <1>0, ServesKeeps DEF UserKinds
<1>4. \A c \in ss : c.ok => c \in ss2
  BY <1>0 DEF Answered
<1>. HIDE DEF ss2
<1>5. CASE ~a2.ok /\ d2 = d
  BY <1>1, <1>2, <1>3, <1>4, <1>5 DEF BindingsFollow, ss2
<1>6. CASE a2.ok /\ d2 = Applied(d, u, q)
  <2>. HIDE DEF q
  <2>1. d2.bound = Put(d.bound, u, More(d.bound[u], q[2]))
    BY <1>0, <1>6, AppliedBinding
  <2>2. u \in DOMAIN d.bound
    BY DEF HasRows, HasFields
  <2>3. d2.bound[u] = More(d.bound[u], q[2])
    BY <2>1, <2>2, PutIs
  <2>4. \A s : s \in d2.bound[u] <=> s \in d.bound[u] \/ s = q[2]
    BY <2>3 DEF More
  <2>5. \A s : (\E c \in ss2 : c.ok /\ c.q[2] = s) <=> (\E c \in ss : c.ok /\ c.q[2] = s) \/ s = q[2]
    BY <1>0, <1>1, <1>4, <1>6
  <2>. QED  BY <1>2, <1>3, <2>4, <2>5 DEF BindingsFollow, ss2
<1>. QED  BY <1>5, <1>6 DEF Serves

\* A request goes that has bound nothing.
LEMMA BindingsDrop ==
  ASSUME NEW w, NEW ss, NEW d, NEW u, BindingsFollow(w, ss, d, u), NEW a \in ss, ~a.ok
  PROVE  BindingsFollow(w, ss \ {a}, d, u)
BY DEF BindingsFollow

\* The page shows one more as bound.
LEMMA BindingsShown ==
  ASSUME NEW w, NEW ss, NEW d, NEW u, BindingsFollow(w, ss, d, u), NEW a \in ss, a.ok,
         NEW w2, w2.content = [s \in DOMAIN w.content |-> w.content[s] \/ s = a.q[2]]
  PROVE  BindingsFollow(w2, ss \ {a}, d, u)
<1>1. DOMAIN w.content = d.users[u].joined
  BY DEF BindingsFollow, HasFields
<1>2. HasFields(w2.content, d.users[u].joined) /\ \A s \in d.users[u].joined : w2.content[s] = (w.content[s] \/ s = a.q[2])
  BY <1>1 DEF HasFields
<1>3. \A s \in d.users[u].joined : w2.content[s] \in BOOLEAN
  BY <1>2 DEF BindingsFollow
<1>4. \A c \in ss \ {a} : c.mine /\ c.q[1] = "bind"
  BY DEF BindingsFollow
<1>5. ASSUME NEW s \in d.users[u].joined
      PROVE  s \in d.bound[u] <=> w2.content[s] \/ \E c \in ss \ {a} : c.ok /\ c.q[2] = s
  <2>1. w2.content[s] <=> w.content[s] \/ s = a.q[2]
    BY <1>2
  <2>2. s \in d.bound[u] <=> w.content[s] \/ \E c \in ss : c.ok /\ c.q[2] = s
    BY DEF BindingsFollow
  <2>3. (\E c \in ss : c.ok /\ c.q[2] = s) <=> s = a.q[2] \/ \E c \in ss \ {a} : c.ok /\ c.q[2] = s
    OBVIOUS
  <2>. QED  BY <2>1, <2>2, <2>3
<1>. QED  BY <1>2, <1>3, <1>4, <1>5 DEF BindingsFollow

\* A request to bind is sent.
LEMMA BindingsSent ==
  ASSUME NEW w, NEW ss, NEW d, NEW u, BindingsFollow(w, ss, d, u), NEW a, a.mine, ~a.ok, a.q[1] = "bind"
  PROVE  BindingsFollow(w, ss \cup {a}, d, u)
<1>1. \A c \in ss \cup {a} : c \in ss \/ c = a
  OBVIOUS
<1>. QED  BY <1>1 DEF BindingsFollow

\* The tables of the channel page: those shown, those made that are not shown
\* yet, without those deleted that are.
RoomKinds == {"table_new", "table_clear", "table_delete"}
NewIn(ss) == {a \in ss : a.ok /\ a.q[1] = "table_new"}
Deleted(ss) == {a.q[3] : a \in {c \in ss : c.ok /\ c.q[1] = "table_delete"}}
Rows(content) == content = [t \in DOMAIN content |-> 1]

\* The list of the channel page is of the channel whose page it is; a table made is
\* shown only by the answer that tells of it, and none is deleted before it is shown.
TablesFollow(w, ss, d, channel) ==
  /\ w.shown = channel /\ w.shown \in Spaces
  /\ \A a \in ss : a.mine /\ a.q[1] \in RoomKinds /\ a.q[2] = w.shown
  /\ Rows(w.content)
  /\ DOMAIN w.content \subseteq Made(d)
  /\ d.tables[w.shown] = (DOMAIN w.content \cup {a.told[2] : a \in NewIn(ss)}) \ Deleted(ss)
  /\ \A a \in ss : a.q[1] = "table_delete" => a.q[3] \in Made(d)
  /\ \A a \in NewIn(ss) : a.told[2] \in Made(d) \ DOMAIN w.content
  /\ \A a \in NewIn(ss), c \in ss : c.q[1] = "table_delete" => a.told[2] # c.q[3]
  /\ \A a, c \in NewIn(ss) : a.told[2] = c.told[2] => a = c

\* The server makes, or takes away, the table the page will.
LEMMA TablesServed ==
  ASSUME NEW w, NEW ss, NEW d, NEW u, NEW channel, TablesFollow(w, ss, d, channel),
         IsDatabase(d), HasRows(d), u \in DOMAIN d.users,
         NEW a \in ss, NEW a2, NEW d2, Serves(a, a2, d, d2, u)
  PROVE  TablesFollow(w, Answered(ss, a, a2), d2, channel)
<1>. DEFINE ss2 == Answered(ss, a, a2)
            q == a.q
            s == w.shown
<1>0. a2.q = q /\ a2.mine = a.mine /\ ~a.ok /\ q[1] \in RoomKinds /\ q[2] = s /\ s \in Spaces /\ a2 \in ss2
  BY DEF Serves, TablesFollow, Answered
<1>1. \A c : c \in ss2 <=> (c \in ss /\ c # a) \/ c = a2
  BY DEF Answered
<1>2. \A c \in ss2 : c.mine /\ c.q[1] \in RoomKinds /\ c.q[2] = s
  BY <1>0, <1>1 DEF TablesFollow
<1>3. \A c \in ss2 : c.q[1] = "table_delete" => \E e \in ss : e.q = c.q
  BY <1>0, <1>1
<1>. HIDE DEF ss2
<1>4. CASE q[1] # "table_new" \/ ~a2.ok
  <2>1. NewIn(ss2) = NewIn(ss)
    BY <1>0, <1>1, <1>4 DEF NewIn
  <2>2. d2.made = d.made
    BY <1>4, ServesKeeps DEF Serves
  <2>3. Made(d2) = Made(d)
    BY <2>2 DEF Made
  <2>4. d2.tables[s] = (DOMAIN w.content \cup {c.told[2] : c \in NewIn(ss)}) \ Deleted(ss2)
    <3>1. CASE ~a2.ok \/ q[1] # "table_delete"
      <4>1. Deleted(ss2) = Deleted(ss)
        BY <1>0, <1>1, <3>1 DEF Deleted
      <4>2. d2.tables = d.tables
        BY <1>4, <3>1, ServesKeeps DEF Serves
      <4>. QED  BY <4>1, <4>2 DEF TablesFollow
    <3>2. CASE a2.ok /\ q[1] = "table_delete"
      <4>1. \A t : t \in Deleted(ss2) <=> t \in Deleted(ss) \/ t = q[3]
        BY <1>0, <1>1, <3>2 DEF Deleted
      <4>2. d2 = Applied(d, u, q)
        BY <3>2 DEF Serves
      <4>. HIDE DEF q
      <4>3. d2.tables = Put(d.tables, q[2], Less(d.tables[q[2]], q[3]))
        BY <3>2, <4>2, AppliedTables
      <4>4. d2.tables[s] = Less(d.tables[s], q[3])
        BY <1>0, <4>3, PutIs DEF HasRows, HasFields
      <4>5. d2.tables[s] = d.tables[s] \ {q[3]}
        BY <4>4 DEF Less
      <4>. QED  BY <4>1, <4>5 DEF TablesFollow
    <3>. QED  BY <3>1, <3>2
  <2>. QED  BY <1>2, <1>3, <2>1, <2>3, <2>4 DEF TablesFollow, ss2
<1>5. CASE q[1] = "table_new" /\ a2.ok
  <2>. DEFINE t == NewTable(d)
  <2>1. d2 = Applied(d, u, q) /\ Accepted(d, u, q) /\ a2.told[2] = Told(d2, u, q)
    BY <1>5 DEF Serves
  <2>. HIDE DEF q
  <2>2. d2.tables = Put(d.tables, q[2], More(d.tables[q[2]], t)) /\ d2.made = Append(d.made, t)
    BY <1>5, <2>1, AppliedTables
  <2>3. d.made \in Seq(Tables) /\ Len(d.made) < Cardinality(Tables)
    BY <1>5, <2>1 DEF HasRows, Accepted
  <2>4. t \notin Made(d) /\ Made(d2) = Made(d) \cup {t}
    BY <2>2, <2>3, NewTableIsNew DEF Made
  <2>5. a2.told[2] = t
    <3>1. a2.told[2] = d2.made[Len(d2.made)]
      BY <1>5, <2>1 DEF Told
    <3>. HIDE DEF t
    <3>. QED  BY <2>2, <2>3, <3>1
  <2>. HIDE DEF t
  <2>6. d2.tables[s] = d.tables[s] \cup {t}
    <3>1. d2.tables[s] = More(d.tables[s], t)
      BY <1>0, <2>2, PutIs DEF HasRows, HasFields
    <3>. QED  BY <3>1 DEF More
  <2>7. \A c : c \in NewIn(ss2) <=> c \in NewIn(ss) \/ c = a2
    BY <1>0, <1>1, <1>5 DEF NewIn, q
  <2>8. Deleted(ss2) = Deleted(ss)
    BY <1>0, <1>1, <1>5 DEF Deleted, q
  <2>9. t \notin Deleted(ss)
    BY <2>4 DEF Deleted, TablesFollow
  <2>10. \A x : x \in {c.told[2] : c \in NewIn(ss2)} <=> x \in {c.told[2] : c \in NewIn(ss)} \/ x = t
    BY <2>5, <2>7
  <2>11. d2.tables[s] = (DOMAIN w.content \cup {c.told[2] : c \in NewIn(ss2)}) \ Deleted(ss2)
    BY <2>6, <2>8, <2>9, <2>10 DEF TablesFollow
  <2>12. DOMAIN w.content \subseteq Made(d2) /\ \A c \in ss2 : c.q[1] = "table_delete" => c.q[3] \in Made(d)
    BY <1>3, <2>4 DEF TablesFollow
  <2>13. \A c \in NewIn(ss2) : c.told[2] \in Made(d2) \ DOMAIN w.content
    BY <2>4, <2>5, <2>7 DEF TablesFollow
  <2>14. \A c \in NewIn(ss) : c.told[2] \in Made(d)
    BY DEF TablesFollow
  <2>15. \A c, e \in NewIn(ss2) : c.told[2] = e.told[2] => c = e
    BY <2>4, <2>5, <2>7, <2>14 DEF TablesFollow
  <2>16. \A c \in NewIn(ss2), e \in ss2 : e.q[1] = "table_delete" => c.told[2] # e.q[3]
    BY <1>3, <2>4, <2>5, <2>7, <2>12 DEF TablesFollow
  <2>. QED  BY <1>2, <2>4, <2>11, <2>12, <2>13, <2>15, <2>16 DEF TablesFollow, ss2
<1>. QED  BY <1>4, <1>5

\* A request goes that has changed no row.
LEMMA TablesDrop ==
  ASSUME NEW w, NEW ss, NEW d, NEW channel, TablesFollow(w, ss, d, channel),
         NEW a \in ss, ~a.ok \/ a.q[1] \notin {"table_new", "table_delete"}
  PROVE  TablesFollow(w, ss \ {a}, d, channel)
<1>1. NewIn(ss \ {a}) = NewIn(ss) /\ Deleted(ss \ {a}) = Deleted(ss)
  BY DEF NewIn, Deleted
<1>. QED  BY <1>1 DEF TablesFollow

\* The page shows the table that was made.
LEMMA TablesGrow ==
  ASSUME NEW w, NEW ss, NEW d, NEW channel, TablesFollow(w, ss, d, channel),
         NEW a \in ss, a.ok, a.q[1] = "table_new",
         NEW w2, w2.content = WithTable(w.content, a.told[2]), w2.shown = w.shown
  PROVE  TablesFollow(w2, ss \ {a}, d, channel)
<1>. DEFINE t == a.told[2]
            S == DOMAIN w.content
            rest == ss \ {a}
<1>1. a \in NewIn(ss) /\ \A c : c \in NewIn(ss) <=> c \in NewIn(rest) \/ c = a
  BY DEF NewIn
<1>2. t \notin S /\ t \in Made(d) /\ \A x \in S : w.content[x] = 1
  BY <1>1 DEF TablesFollow, Rows
<1>3. DOMAIN w2.content = S \cup {t} /\ Rows(w2.content)
  <2>1. w2.content = [x \in S \cup {t} |-> 1]
    BY <1>2 DEF WithTable
  <2>. QED  BY <2>1 DEF Rows
<1>4. Deleted(rest) = Deleted(ss)
  BY DEF Deleted
<1>5. \A c \in NewIn(rest) : c.told[2] # t
  BY <1>1 DEF TablesFollow, NewIn
<1>6. \A x : x \in {c.told[2] : c \in NewIn(ss)} <=> x \in {c.told[2] : c \in NewIn(rest)} \/ x = t
  BY <1>1
<1>7. d.tables[w.shown] = ((S \cup {t}) \cup {c.told[2] : c \in NewIn(rest)}) \ Deleted(rest)
  BY <1>4, <1>6 DEF TablesFollow
<1>8. \A c \in NewIn(rest) : c.told[2] \in Made(d) \ (S \cup {t})
  BY <1>1, <1>5 DEF TablesFollow
<1>. HIDE DEF t, S
<1>9. \A c, e \in NewIn(rest) : c.told[2] = e.told[2] => c = e
  BY <1>1 DEF TablesFollow
<1>10. \A c \in NewIn(rest), e \in rest : e.q[1] = "table_delete" => c.told[2] # e.q[3]
  BY <1>1 DEF TablesFollow
<1>11. S \cup {t} \subseteq Made(d)
  BY <1>2 DEF TablesFollow, S
<1>. QED  BY <1>3, <1>7, <1>8, <1>9, <1>10, <1>11 DEF TablesFollow

\* The page takes the table away that was deleted.
LEMMA TablesShrink ==
  ASSUME NEW w, NEW ss, NEW d, NEW channel, TablesFollow(w, ss, d, channel),
         NEW a \in ss, a.ok, a.q[1] = "table_delete",
         NEW w2, w2.content = WithoutTable(w.content, a.q[3]), w2.shown = w.shown
  PROVE  TablesFollow(w2, ss \ {a}, d, channel)
<1>. DEFINE t == a.q[3]
            S == DOMAIN w.content
            rest == ss \ {a}
            told == {c.told[2] : c \in NewIn(ss)}
<1>1. NewIn(rest) = NewIn(ss)
  BY DEF NewIn
<1>2. \A x : x \in Deleted(ss) <=> x \in Deleted(rest) \/ x = t
  BY DEF Deleted
<1>3. DOMAIN w2.content = S \ {t} /\ Rows(w2.content)
  <2>1. \A x \in S : w.content[x] = 1
    BY DEF TablesFollow, Rows
  <2>2. w2.content = [x \in S \ {t} |-> 1]
    BY <2>1 DEF WithoutTable
  <2>. QED  BY <2>2 DEF Rows
<1>4. t \notin told
  BY DEF TablesFollow
<1>. HIDE DEF told
<1>5. d.tables[w.shown] = ((S \ {t}) \cup told) \ Deleted(rest)
  <2>1. d.tables[w.shown] = (S \cup told) \ Deleted(ss)
    BY DEF TablesFollow, told
  <2>. QED  BY <1>2, <1>4, <2>1
<1>6. S \ {t} \subseteq Made(d) /\ \A c \in NewIn(ss) : c.told[2] \in Made(d) \ (S \ {t})
  BY DEF TablesFollow
<1>. HIDE DEF t, S
<1>. QED  BY <1>1, <1>3, <1>5, <1>6 DEF TablesFollow, told

\* A request about a row that is shown, or for a new one, is sent.
LEMMA TablesSent ==
  ASSUME NEW w, NEW ss, NEW d, NEW channel, TablesFollow(w, ss, d, channel),
         NEW a, a.mine, ~a.ok, a.q[1] \in RoomKinds, a.q[2] = w.shown,
         a.q[1] = "table_delete" => a.q[3] \in DOMAIN w.content
  PROVE  TablesFollow(w, ss \cup {a}, d, channel)
<1>1. NewIn(ss \cup {a}) = NewIn(ss) /\ Deleted(ss \cup {a}) = Deleted(ss)
  BY DEF NewIn, Deleted
<1>2. \A c \in ss \cup {a} : c \in ss \/ c = a
  OBVIOUS
<1>3. \A c \in ss \cup {a} : c.q[1] = "table_delete" => c.q[3] \in Made(d)
  BY <1>2 DEF TablesFollow
<1>4. \A c \in NewIn(ss), e \in ss \cup {a} : e.q[1] = "table_delete" => c.told[2] # e.q[3]
  BY <1>2 DEF TablesFollow
<1>5. \A c \in ss \cup {a} : c.mine /\ c.q[1] \in RoomKinds /\ c.q[2] = w.shown
  BY <1>2 DEF TablesFollow
<1>. QED  BY <1>1, <1>3, <1>4, <1>5 DEF TablesFollow

\* The sheet of a channel in the console: its tables, without one deleted that is still shown.
SheetKinds == {"connection", "table_clear", "table_delete"}

\* Every request of the sheet disables it, so one deletion is under way at most; one
\* of another channel than is shown has come to nothing.
SheetFollows(w, ss, d) ==
  /\ w.shown \in Spaces
  /\ \A a \in ss : a.mine /\ a.held /\ a.q[1] \in SheetKinds
  /\ \A a, c \in ss : a.q[1] = "table_delete" /\ c.q[1] = "table_delete" => a = c
  /\ \A a \in ss : a.q[1] = "table_delete" =>
       /\ a.q[2] \in Spaces
       /\ a.q[2] # w.shown => ~a.ok /\ a.q[3] \notin d.tables[a.q[2]]
  /\ Rows(w.content)
  /\ d.tables[w.shown] = DOMAIN w.content \ Deleted(ss)

\* The server takes away the table the sheet will.
LEMMA SheetServed ==
  ASSUME NEW w, NEW ss, NEW d, NEW u, SheetFollows(w, ss, d),
         IsDatabase(d), HasRows(d), u \in DOMAIN d.users,
         NEW a \in ss, NEW a2, NEW d2, Serves(a, a2, d, d2, u)
  PROVE  SheetFollows(w, Answered(ss, a, a2), d2)
<1>. DEFINE ss2 == Answered(ss, a, a2)
            q == a.q
            s == w.shown
<1>0. a2.q = q /\ a2.mine = a.mine /\ a2.held = a.held /\ ~a.ok /\ q[1] \in SheetKinds /\ s \in Spaces
  BY DEF Serves, SheetFollows
<1>1. \A c : c \in ss2 <=> (c \in ss /\ c # a) \/ c = a2
  BY DEF Answered
<1>2. \A c \in ss2 : c.mine /\ c.held /\ c.q[1] \in SheetKinds
  BY <1>0, <1>1 DEF SheetFollows
<1>. HIDE DEF ss2
<1>3. \A c, e \in ss2 : c.q[1] = "table_delete" /\ e.q[1] = "table_delete" => c = e
  BY <1>0, <1>1 DEF SheetFollows
<1>4. a2.ok /\ q[1] = "table_delete" => q[2] = s /\ q[3] \in d.tables[q[2]]
  <2>1. a2.ok /\ q[1] = "table_delete" => q[3] \in d.tables[q[2]]
    BY DEF Serves, Accepted
  <2>. QED  BY <2>1 DEF SheetFollows
<1>5. d2.tables[s] = DOMAIN w.content \ Deleted(ss2) /\ \A x \in Spaces : d2.tables[x] \subseteq d.tables[x]
  <2>1. CASE ~a2.ok \/ q[1] # "table_delete"
    <3>1. Deleted(ss2) = Deleted(ss)
      BY <1>0, <1>1, <2>1 DEF Deleted
    <3>2. d2.tables = d.tables
      BY <1>0, <2>1, ServesKeeps DEF Serves, SheetKinds
    <3>. QED  BY <3>1, <3>2 DEF SheetFollows
  <2>2. CASE a2.ok /\ q[1] = "table_delete"
    <3>1. \A t : t \in Deleted(ss2) <=> t \in Deleted(ss) \/ t = q[3]
      BY <1>0, <1>1, <2>2 DEF Deleted
    <3>2. d2 = Applied(d, u, q) /\ q[2] = s
      BY <1>4, <2>2 DEF Serves
    <3>. HIDE DEF q
    <3>. DEFINE less == Less(d.tables[s], q[3])
    <3>3. d2.tables = Put(d.tables, s, less)
      BY <2>2, <3>2, AppliedTables
    <3>. HIDE DEF less
    <3>4. \A x \in Spaces : d2.tables[x] = IF x = s THEN less ELSE d.tables[x]
      BY <3>3, PutIs DEF HasRows, HasFields
    <3>5. less = d.tables[s] \ {q[3]}
      BY DEF less, Less
    <3>6. d2.tables[s] = d.tables[s] \ {q[3]} /\ \A x \in Spaces : d2.tables[x] \subseteq d.tables[x]
      BY <1>0, <3>4, <3>5
    <3>. QED  BY <3>1, <3>6 DEF SheetFollows
  <2>. QED  BY <2>1, <2>2
<1>6. \A c \in ss2 : c.q[1] = "table_delete" =>
        /\ c.q[2] \in Spaces
        /\ c.q[2] # w.shown => ~c.ok /\ c.q[3] \notin d2.tables[c.q[2]]
  <2>. SUFFICES ASSUME NEW c \in ss2, c.q[1] = "table_delete"
                PROVE  c.q[2] \in Spaces /\ (c.q[2] # w.shown => ~c.ok /\ c.q[3] \notin d2.tables[c.q[2]])
    OBVIOUS
  <2>1. PICK e \in ss : e.q = c.q /\ (c = e \/ (e = a /\ c = a2))
    BY <1>0, <1>1
  <2>2. e.q[2] \in Spaces /\ (e.q[2] # w.shown => ~e.ok /\ e.q[3] \notin d.tables[e.q[2]])
    BY <2>1 DEF SheetFollows
  <2>. QED  BY <1>0, <1>4, <1>5, <2>1, <2>2
<1>. QED  BY <1>0, <1>2, <1>3, <1>5, <1>6 DEF SheetFollows, ss2

\* A request goes that has deleted nothing.
LEMMA SheetDrop ==
  ASSUME NEW w, NEW ss, NEW d, SheetFollows(w, ss, d), NEW a \in ss, ~a.ok \/ a.q[1] # "table_delete",
         NEW w2, w2.content = w.content, w2.shown = w.shown
  PROVE  SheetFollows(w2, ss \ {a}, d)
<1>1. Deleted(ss \ {a}) = Deleted(ss)
  BY DEF Deleted
<1>. QED  BY <1>1 DEF SheetFollows

\* The sheet takes the table away.
LEMMA SheetShrinks ==
  ASSUME NEW w, NEW ss, NEW d, SheetFollows(w, ss, d), NEW a \in ss, a.ok, a.q[1] = "table_delete",
         NEW w2, w2.content = WithoutTable(w.content, a.q[3]), w2.shown = w.shown
  PROVE  SheetFollows(w2, ss \ {a}, d)
<1>. DEFINE t == a.q[3]
            S == DOMAIN w.content
            rest == ss \ {a}
<1>1. Deleted(rest) = {} /\ \A x : x \in Deleted(ss) <=> x = t
  BY DEF Deleted, SheetFollows
<1>2. DOMAIN w2.content = S \ {t} /\ Rows(w2.content)
  <2>1. \A x \in S : w.content[x] = 1
    BY DEF SheetFollows, Rows
  <2>2. w2.content = [x \in S \ {t} |-> 1]
    BY <2>1 DEF WithoutTable
  <2>. QED  BY <2>2 DEF Rows
<1>3. d.tables[w.shown] = (S \ {t}) \ Deleted(rest)
  BY <1>1 DEF SheetFollows
<1>. HIDE DEF t, S
<1>4. w.shown \in Spaces /\ \A c \in rest : c.mine /\ c.held /\ c.q[1] \in SheetKinds /\ c.q[1] # "table_delete"
  BY DEF SheetFollows
<1>. QED  BY <1>2, <1>3, <1>4 DEF SheetFollows

\* A request of the sheet is sent, about a table that is shown.
LEMMA SheetSent ==
  ASSUME NEW w, NEW ss, NEW d, HasRows(d), SheetFollows(w, ss, d), NEW a, a.mine, a.held, ~a.ok,
         a.q[1] \in SheetKinds, \A c \in ss : c.q[1] # "table_delete",
         a.q[1] = "table_delete" => a.q[2] \in Spaces /\ a.q[3] \in DOMAIN w.content
  PROVE  SheetFollows(w, ss \cup {a}, d)
<1>1. Deleted(ss \cup {a}) = Deleted(ss) /\ Deleted(ss) = {}
  BY DEF Deleted
<1>2. \A c \in ss \cup {a} : c \in ss \/ c = a
  OBVIOUS
<1>3. a.q[1] = "table_delete" /\ a.q[2] # w.shown => a.q[3] \notin d.tables[a.q[2]]
  BY <1>1 DEF SheetFollows, HasRows
<1>4. \A c \in ss \cup {a} : c.mine /\ c.held /\ c.q[1] \in SheetKinds
  BY <1>2 DEF SheetFollows
<1>5. \A c \in ss \cup {a} : c.q[1] = "table_delete" => c = a
  BY <1>2
<1>6. w.shown \in Spaces /\ Rows(w.content) /\ d.tables[w.shown] = DOMAIN w.content \ Deleted(ss)
  BY DEF SheetFollows
<1>. QED  BY <1>1, <1>3, <1>4, <1>5, <1>6 DEF SheetFollows

\* The console's books: the accounts, those with an answer under way as that
\* answer tells of them.
Pending(ss, kinds) == {a \in ss : a.ok /\ a.q[1] \in kinds}
Sees(rights) == rights \cap {"users:read", "users:manage"} # {}
AgreeOn(x, us, vs) == (x \in DOMAIN us <=> x \in DOMAIN vs) /\ (x \in DOMAIN vs => Alike(us[x], vs[x]))

\* What a request about an account has done to it.
AccountTold(a, d) ==
  IF a.q[1] = "user_delete" THEN a.q[2] \notin DOMAIN d.users
  ELSE /\ a.q[2] \in DOMAIN d.users /\ HasFields(a.told[2], AccountFields)
       /\ Alike(a.told[2], d.users[a.q[2]])

\* The accounts and their counts: every account with no answer under way is as the
\* server has it, and one request at a time is about an account.
UsersFollow(b, ss, d) ==
  /\ HasFields(b.users, DOMAIN b.users)
  /\ \A x \in DOMAIN b.users : HasFields(b.users[x], AccountFields)
  /\ b.counts = CountsOf(b.users)
  /\ ~Sees(b.permissions) => DOMAIN b.users = {} /\ \A a \in ss : a.q[1] \notin UserKinds
  /\ \A a, c \in ss : a.q[1] \in UserKinds /\ c.q[1] \in UserKinds /\ a.q[2] = c.q[2] => a = c
  /\ \A a \in Pending(ss, UserKinds) : AccountTold(a, d)
  /\ Sees(b.permissions) =>
       \A x : (\A a \in Pending(ss, UserKinds) : a.q[2] # x) => AgreeOn(x, b.users, d.users)

\* Alike is an equivalence.
LEMMA AlikeTwice ==
  /\ \A x : Alike(x, x)
  /\ \A x, y, z : Alike(x, y) /\ Alike(z, y) => Alike(x, z)
BY DEF Alike

\* What is pending after a request was handled.
LEMMA PendingServed ==
  ASSUME NEW ss, NEW a \in ss, NEW a2, ~a.ok, a2.q = a.q, NEW kinds
  PROVE  /\ ~a2.ok \/ a.q[1] \notin kinds => Pending(Answered(ss, a, a2), kinds) = Pending(ss, kinds)
         /\ \A c : c \in Pending(Answered(ss, a, a2), kinds) => c \in Pending(ss, kinds) \/ c = a2
         /\ Pending(ss, kinds) \subseteq Pending(Answered(ss, a, a2), kinds)
         /\ a2.ok /\ a.q[1] \in kinds => a2 \in Pending(Answered(ss, a, a2), kinds)
BY DEF Pending, Answered

\* What is pending after a request came or went.
LEMMA PendingOthers ==
  ASSUME NEW ss, NEW a, NEW kinds
  PROVE  /\ ~a.ok \/ a.q[1] \notin kinds => /\ Pending(ss \ {a}, kinds) = Pending(ss, kinds)
                                            /\ Pending(ss \cup {a}, kinds) = Pending(ss, kinds)
         /\ \A c : c \in Pending(ss \ {a}, kinds) <=> c \in Pending(ss, kinds) /\ c # a
BY DEF Pending

\* The requests the console sends.
ConsoleKinds == UserKinds \cup RoleKinds \cup SiteKinds \cup SheetKinds \cup {"amount", "reset", "adjust"}

\* The server changes an account, and tells of it.
LEMMA UsersServed ==
  ASSUME NEW b, NEW ss, NEW d, NEW u, UsersFollow(b, ss, d),
         IsDatabase(d), HasRows(d), u \in DOMAIN d.users,
         NEW a \in ss, a.q[1] \in ConsoleKinds, NEW a2, NEW d2, Serves(a, a2, d, d2, u), IsDatabase(d2)
  PROVE  UsersFollow(b, Answered(ss, a, a2), d2)
<1>. DEFINE ss2 == Answered(ss, a, a2)
            q == a.q
            x == q[2]
            before == Pending(ss, UserKinds)
            after == Pending(ss2, UserKinds)
<1>0. a2.q = q /\ ~a.ok
  BY DEF Serves
<1>1. \A c : c \in ss2 <=> (c \in ss /\ c # a) \/ c = a2
  BY DEF Answered
<1>2. \A c, e \in ss2 : c.q[1] \in UserKinds /\ e.q[1] \in UserKinds /\ c.q[2] = e.q[2] => c = e
  BY <1>0, <1>1 DEF UsersFollow
<1>3. ~Sees(b.permissions) => DOMAIN b.users = {} /\ \A c \in ss2 : c.q[1] \notin UserKinds
  BY <1>0, <1>1 DEF UsersFollow
<1>4. /\ ~a2.ok \/ q[1] \notin UserKinds => after = before
      /\ \A c : c \in after => c \in before \/ c = a2
      /\ before \subseteq after
      /\ a2.ok /\ q[1] \in UserKinds => a2 \in after
  BY <1>0, PendingServed
<1>5. \A c \in before : c \in ss /\ c.q[1] \in UserKinds /\ c # a
  BY <1>0 DEF Pending
<1>. HIDE DEF ss2, before, after
<1>6. CASE ~a2.ok \/ q[1] \notin UserKinds
  <2>1. d2.users = d.users
    BY <1>6, ServesKeeps DEF Serves, ConsoleKinds, UserKinds, RoleKinds, SiteKinds, SheetKinds
  <2>2. after = before
    BY <1>4, <1>6
  <2>. QED  BY <1>2, <1>3, <2>1, <2>2 DEF UsersFollow, AccountTold, ss2, before, after
<1>7. CASE a2.ok /\ q[1] \in UserKinds
  <2>1. d2 = Applied(d, u, q) /\ Permitted(d, u, q) /\ Accepted(d, u, q) /\ a2.told[2] = Told(d2, u, q)
    BY <1>7 DEF Serves
  <2>2. \A c \in before : c.q[2] # x
    BY <1>5, <1>7 DEF UsersFollow
  <2>. HIDE DEF q, x
  <2>3. /\ q[1] # "user_delete" => q[2] \in DOMAIN d2.users
        /\ q[1] = "user_delete" => q[2] \notin DOMAIN d2.users
        /\ \A y : y # q[2] => AgreeOn(y, d2.users, d.users)
    BY <1>7, <2>1, AppliedUsers DEF AgreeOn
  <2>4. q[1] # "user_delete" => a2.told[2] = d2.users[q[2]] /\ HasFields(a2.told[2], AccountFields)
    <3>1. q[1] # "user_delete" => a2.told[2] = d2.users[q[2]]
      BY <1>7, <2>1 DEF Told, UserKinds
    <3>2. \A y \in DOMAIN d2.users : HasFields(d2.users[y], AccountFields)
      BY DEF IsDatabase, IsAccount, AccountFields
    <3>. QED  BY <2>3, <3>1, <3>2
  <2>5. AccountTold(a2, d2)
    BY <1>0, <2>3, <2>4, AlikeTwice DEF AccountTold, q
  <2>6. \A c \in before : AccountTold(c, d2)
    <3>. SUFFICES ASSUME NEW c \in before  PROVE AccountTold(c, d2)
      OBVIOUS
    <3>1. AccountTold(c, d) /\ AgreeOn(c.q[2], d2.users, d.users)
      BY <2>2, <2>3 DEF UsersFollow, before, x
    <3>. QED  BY <3>1, AlikeTwice DEF AccountTold, AgreeOn
  <2>7. \A c \in after : AccountTold(c, d2)
    BY <1>4, <2>5, <2>6
  <2>8. Sees(b.permissions) => \A y : (\A c \in after : c.q[2] # y) => AgreeOn(y, b.users, d2.users)
    <3>. SUFFICES ASSUME Sees(b.permissions), NEW y, \A c \in after : c.q[2] # y  PROVE AgreeOn(y, b.users, d2.users)
      OBVIOUS
    <3>1. y # q[2] /\ \A c \in before : c.q[2] # y
      BY <1>0, <1>4, <1>7 DEF q
    <3>2. AgreeOn(y, b.users, d.users) /\ AgreeOn(y, d2.users, d.users)
      BY <2>3, <3>1 DEF UsersFollow, before
    <3>. QED  BY <3>2, AlikeTwice DEF AgreeOn
  <2>. QED  BY <1>2, <1>3, <2>7, <2>8 DEF UsersFollow, ss2, after
<1>. QED  BY <1>6, <1>7

\* A request goes that has changed no account.
LEMMA UsersDrop ==
  ASSUME NEW b, NEW ss, NEW d, UsersFollow(b, ss, d), NEW a \in ss, ~a.ok \/ a.q[1] \notin UserKinds,
         NEW b2, b2.users = b.users, b2.counts = b.counts, b2.permissions = b.permissions
  PROVE  UsersFollow(b2, ss \ {a}, d)
<1>1. Pending(ss \ {a}, UserKinds) = Pending(ss, UserKinds)
  BY PendingOthers
<1>. QED  BY <1>1 DEF UsersFollow

\* A request is sent, about an account that no other is about.
LEMMA UsersSent ==
  ASSUME NEW b, NEW ss, NEW d, UsersFollow(b, ss, d), NEW a, ~a.ok,
         a.q[1] \in UserKinds => Sees(b.permissions) /\ \A c \in ss : c.q[1] \in UserKinds => c.q[2] # a.q[2]
  PROVE  UsersFollow(b, ss \cup {a}, d)
<1>1. Pending(ss \cup {a}, UserKinds) = Pending(ss, UserKinds)
  BY PendingOthers
<1>2. \A c \in ss \cup {a} : c \in ss \/ c = a
  OBVIOUS
<1>3. \A c, e \in ss \cup {a} : c.q[1] \in UserKinds /\ e.q[1] \in UserKinds /\ c.q[2] = e.q[2] => c = e
  BY <1>2 DEF UsersFollow
<1>4. ~Sees(b.permissions) => DOMAIN b.users = {} /\ \A c \in ss \cup {a} : c.q[1] \notin UserKinds
  BY <1>2 DEF UsersFollow
<1>. QED  BY <1>1, <1>3, <1>4 DEF UsersFollow

\* The page shows an account as the answer tells of it, or none.
LEMMA UsersShown ==
  ASSUME NEW b, NEW ss, NEW d, UsersFollow(b, ss, d), NEW a \in ss, a.ok, a.q[1] \in UserKinds,
         NEW b2, b2.permissions = b.permissions, b2.counts = CountsOf(b2.users),
         IF a.q[1] = "user_delete" THEN b2.users = [y \in DOMAIN b.users \ {a.q[2]} |-> b.users[y]]
         ELSE b2.users = WithAccount(b.users, a.q[2], a.told[2])
  PROVE  UsersFollow(b2, ss \ {a}, d)
<1>. DEFINE x == a.q[2]
            rest == ss \ {a}
<1>1. a \in Pending(ss, UserKinds) /\ \A c : c \in Pending(rest, UserKinds) <=> c \in Pending(ss, UserKinds) /\ c # a
  BY PendingOthers DEF Pending
<1>2. AccountTold(a, d) /\ Sees(b.permissions)
  BY <1>1 DEF UsersFollow
<1>3. HasFields(b.users, DOMAIN b.users) /\ \A y \in DOMAIN b.users : HasFields(b.users[y], AccountFields)
  BY DEF UsersFollow
<1>4. /\ HasFields(b2.users, DOMAIN b2.users)
      /\ \A y \in DOMAIN b2.users : HasFields(b2.users[y], AccountFields)
      /\ \A y : y # x => (y \in DOMAIN b2.users <=> y \in DOMAIN b.users) /\ (y \in DOMAIN b.users => b2.users[y] = b.users[y])
      /\ AgreeOn(x, b2.users, d.users)
  <2>1. CASE a.q[1] = "user_delete"
    <3>1. b2.users = [y \in DOMAIN b.users \ {x} |-> b.users[y]]
      BY <2>1
    <3>2. x \notin DOMAIN d.users
      BY <1>2, <2>1 DEF AccountTold
    <3>. HIDE DEF x
    <3>3. DOMAIN b2.users = DOMAIN b.users \ {x} /\ \A y \in DOMAIN b2.users : b2.users[y] = b.users[y]
      BY <3>1
    <3>4. HasFields(b2.users, DOMAIN b2.users)
      BY <3>1 DEF HasFields
    <3>. QED  BY <1>3, <3>2, <3>3, <3>4 DEF AgreeOn
  <2>2. CASE a.q[1] # "user_delete"
    <3>. DEFINE told == a.told[2]
    <3>1. b2.users = WithAccount(b.users, x, told)
      BY <2>2
    <3>2. x \in DOMAIN d.users /\ HasFields(told, AccountFields) /\ Alike(told, d.users[x])
      BY <1>2, <2>2 DEF AccountTold
    <3>. HIDE DEF x, told
    <3>3. DOMAIN b2.users = DOMAIN b.users \cup {x} /\ \A y \in DOMAIN b2.users : b2.users[y] = IF y = x THEN told ELSE b.users[y]
      BY <3>1 DEF WithAccount
    <3>4. HasFields(b2.users, DOMAIN b2.users)
      BY <3>1, <3>3 DEF HasFields, WithAccount
    <3>. QED  BY <1>3, <3>2, <3>3, <3>4 DEF AgreeOn
  <2>. QED  BY <2>1, <2>2
<1>5. \A y : (\A c \in Pending(rest, UserKinds) : c.q[2] # y) => AgreeOn(y, b2.users, d.users)
  <2>. SUFFICES ASSUME NEW y, \A c \in Pending(rest, UserKinds) : c.q[2] # y, y # x
                PROVE  AgreeOn(y, b2.users, d.users)
    BY <1>4
  <2>1. \A c \in Pending(ss, UserKinds) : c.q[2] # y
    BY <1>1
  <2>2. AgreeOn(y, b.users, d.users)
    BY <1>2, <2>1 DEF UsersFollow
  <2>. QED  BY <1>4, <2>2 DEF AgreeOn
<1>6. \A c \in Pending(rest, UserKinds) : AccountTold(c, d)
  BY <1>1 DEF UsersFollow
<1>7. \A c, e \in rest : c.q[1] \in UserKinds /\ e.q[1] \in UserKinds /\ c.q[2] = e.q[2] => c = e
  BY DEF UsersFollow
<1>. QED  BY <1>2, <1>4, <1>5, <1>6, <1>7 DEF UsersFollow

\* The roles and how many users have each; the answer that is under way about
\* one is for the list its dialog was drawn with, which is still the one shown.
RoleFields == {"permissions", "user_count"}

\* A list of the roles that there are, with their permissions.
RolesMatch(roles, d) ==
  /\ HasFields(roles, DOMAIN d.roles)
  /\ \A key \in DOMAIN roles : roles[key].permissions = d.roles[key]

\* A list of roles that the answer a has edited.
RolesAfter(a, roles) ==
  IF a.q[1] = "role_delete" THEN RoleDeleted(roles, a.q[2]) ELSE RoleSaved(roles, a.q[2], a.told[2])

\* Edited by the answer a the list is right, and so is its count of users.
RoleTold(a, roles, d) ==
  /\ RolesMatch(RolesAfter(a, roles), d)
  /\ a.q[1] # "role_delete" =>
       HasFields(a.told[2], RoleFields) /\ a.told[2].user_count = UsersWith(d.users, a.q[2])

\* The accounts the books count: their own, or the server's if they list none.
UsersOf(b, d) == IF Sees(b.permissions) THEN b.users ELSE d.users

\* A request about a role is alone, and the list it is to edit is the one in the books.
RolesFollow(b, ss, d) ==
  /\ \A a \in ss : a.q[1] \in RoleKinds =>
       a.roles = b.roles /\ \A c \in ss : c.q[1] \in RoleKinds \cup UserKinds => c = a
  /\ \A key \in DOMAIN b.roles :
       HasFields(b.roles[key], RoleFields) /\ b.roles[key].user_count = UsersWith(UsersOf(b, d), key)
  /\ Pending(ss, RoleKinds) = {} => RolesMatch(b.roles, d)
  /\ \A a \in Pending(ss, RoleKinds) : RoleTold(a, b.roles, d)

\* The server saves or deletes a role, or does something else.
LEMMA RolesServed ==
  ASSUME NEW b, NEW ss, NEW d, NEW u, RolesFollow(b, ss, d), UsersFollow(b, ss, d),
         IsDatabase(d), u \in DOMAIN d.users,
         NEW a \in ss, a.q[1] \in ConsoleKinds, NEW a2, NEW d2, Serves(a, a2, d, d2, u)
  PROVE  RolesFollow(b, Answered(ss, a, a2), d2)
<1>. DEFINE ss2 == Answered(ss, a, a2)
            q == a.q
            before == Pending(ss, RoleKinds)
            after == Pending(ss2, RoleKinds)
<1>0. a2.q = q /\ ~a.ok /\ a2.roles = a.roles
  BY DEF Serves
<1>1. \A c : c \in ss2 <=> (c \in ss /\ c # a) \/ c = a2
  BY DEF Answered
<1>2. \A c \in ss2 : c.q[1] \in RoleKinds => c.roles = b.roles /\ \A e \in ss2 : e.q[1] \in RoleKinds \cup UserKinds => e = c
  BY <1>0, <1>1 DEF RolesFollow
<1>3. /\ ~a2.ok \/ q[1] \notin RoleKinds => after = before
      /\ \A c : c \in after => c \in before \/ c = a2
      /\ a2.ok /\ q[1] \in RoleKinds => a2 \in after
  BY <1>0, PendingServed
<1>. HIDE DEF ss2, before, after
<1>4. CASE ~a2.ok \/ q[1] \notin RoleKinds \cup UserKinds
  <2>1. d2.users = d.users /\ d2.roles = d.roles
    BY <1>4, ServesKeeps DEF Serves, ConsoleKinds, UserKinds, RoleKinds, SiteKinds, SheetKinds
  <2>2. after = before
    BY <1>3, <1>4
  <2>3. UsersOf(b, d2) = UsersOf(b, d)
    BY <2>1 DEF UsersOf
  <2>. QED  BY <1>2, <2>1, <2>2, <2>3 DEF RolesFollow, RoleTold, RolesMatch, ss2, before, after
<1>5. CASE a2.ok /\ q[1] \in UserKinds
  <2>1. q[1] \notin RoleKinds
    BY <1>5 DEF UserKinds, RoleKinds
  <2>2. d2.roles = d.roles
    BY <2>1, ServesKeeps
  <2>3. before = {} /\ after = {}
    <3>1. \A c \in ss : c.q[1] \notin RoleKinds
      BY <1>5, <2>1 DEF RolesFollow
    <3>. QED  BY <1>3, <2>1, <3>1 DEF before, Pending
  <2>4. Sees(b.permissions)
    BY <1>5 DEF UsersFollow
  <2>5. UsersOf(b, d2) = UsersOf(b, d)
    BY <2>4 DEF UsersOf
  <2>. QED  BY <1>2, <2>2, <2>3, <2>5 DEF RolesFollow, RolesMatch, ss2, before, after
<1>6. CASE a2.ok /\ q[1] \in RoleKinds
  <2>1. d2 = Applied(d, u, q) /\ a2.told[2] = Told(d2, u, q)
    BY <1>6 DEF Serves
  <2>2. d2.users = d.users
    BY <1>6, ServesKeeps DEF UserKinds, RoleKinds
  <2>3. before = {}
    <3>1. \A c \in ss : c.q[1] \in RoleKinds => c = a
      BY <1>6 DEF RolesFollow
    <3>. QED  BY <1>0, <3>1 DEF before, Pending
  <2>4. \A c : c \in after <=> c = a2
    BY <1>3, <1>6, <2>3
  <2>5. RolesMatch(b.roles, d)
    BY <2>3 DEF RolesFollow, before
  <2>. HIDE DEF q
  <2>6. /\ q[1] = "role_save" => d2.roles = RoleSaved(d.roles, q[2], ExpandPermissions(q[3]))
        /\ q[1] = "role_delete" => d2.roles = RoleDeleted(d.roles, q[2])
    BY <1>6, <2>1, AppliedRoles
  <2>7. CASE q[1] = "role_save"
    <3>. DEFINE told == a2.told[2]
                new == ExpandPermissions(q[3])
                roles2 == RoleSaved(b.roles, q[2], told)
    <3>1. told = [permissions |-> d2.roles[q[2]], user_count |-> UsersWith(d2.users, q[2])]
      BY <2>1, <2>7 DEF Told
    <3>2. d2.roles = RoleSaved(d.roles, q[2], new)
      BY <2>6, <2>7
    <3>3. HasFields(told, RoleFields) /\ told.permissions = d2.roles[q[2]] /\ told.user_count = UsersWith(d2.users, q[2])
      BY <3>1 DEF HasFields, RoleFields
    <3>. HIDE DEF told, new
    <3>4. DOMAIN d2.roles = DOMAIN d.roles \cup {q[2]} /\ \A key \in DOMAIN d.roles : key # q[2] => d2.roles[key] = d.roles[key]
      BY <3>2 DEF RoleSaved
    <3>5. DOMAIN roles2 = DOMAIN b.roles \cup {q[2]} /\ \A key \in DOMAIN roles2 : roles2[key] = IF key = q[2] THEN told ELSE b.roles[key]
      BY DEF RoleSaved
    <3>6. roles2 = [key \in DOMAIN roles2 |-> roles2[key]]
      BY DEF RoleSaved
    <3>. HIDE DEF roles2
    <3>7. DOMAIN b.roles = DOMAIN d.roles /\ \A key \in DOMAIN b.roles : b.roles[key].permissions = d.roles[key]
      BY <2>5 DEF RolesMatch, HasFields
    <3>8. RolesMatch(roles2, d2)
      BY <3>3, <3>4, <3>5, <3>6, <3>7 DEF RolesMatch, HasFields
    <3>9. RoleTold(a2, b.roles, d2)
      BY <1>0, <2>7, <3>3, <3>8 DEF RoleTold, RolesAfter, roles2, told, q
    <3>. QED  BY <1>2, <2>2, <2>4, <3>9 DEF RolesFollow, UsersOf, ss2, after
  <2>8. CASE q[1] = "role_delete"
    <3>. DEFINE roles2 == RoleDeleted(b.roles, q[2])
    <3>1. d2.roles = RoleDeleted(d.roles, q[2])
      BY <2>6, <2>8
    <3>2. DOMAIN d2.roles = DOMAIN d.roles \ {q[2]} /\ \A key \in DOMAIN d2.roles : d2.roles[key] = d.roles[key]
      BY <3>1 DEF RoleDeleted
    <3>3. DOMAIN roles2 = DOMAIN b.roles \ {q[2]} /\ \A key \in DOMAIN roles2 : roles2[key] = b.roles[key]
      BY DEF RoleDeleted
    <3>4. roles2 = [key \in DOMAIN roles2 |-> roles2[key]]
      BY DEF RoleDeleted
    <3>. HIDE DEF roles2
    <3>5. DOMAIN b.roles = DOMAIN d.roles /\ \A key \in DOMAIN b.roles : b.roles[key].permissions = d.roles[key]
      BY <2>5 DEF RolesMatch, HasFields
    <3>6. RolesMatch(roles2, d2)
      BY <3>2, <3>3, <3>4, <3>5 DEF RolesMatch, HasFields
    <3>7. RoleTold(a2, b.roles, d2)
      BY <1>0, <2>8, <3>6 DEF RoleTold, RolesAfter, roles2, q
    <3>. QED  BY <1>2, <2>2, <2>4, <3>7 DEF RolesFollow, UsersOf, ss2, after
  <2>. QED  BY <1>6, <2>7, <2>8 DEF RoleKinds, q
<1>. QED  BY <1>4, <1>5, <1>6

\* A request goes that has changed no role.
LEMMA RolesDrop ==
  ASSUME NEW b, NEW ss, NEW d, RolesFollow(b, ss, d), NEW a \in ss, ~a.ok \/ a.q[1] \notin RoleKinds,
         NEW b2, b2.users = b.users, b2.roles = b.roles, b2.permissions = b.permissions
  PROVE  RolesFollow(b2, ss \ {a}, d)
<1>1. Pending(ss \ {a}, RoleKinds) = Pending(ss, RoleKinds)
  BY PendingOthers
<1>2. UsersOf(b2, d) = UsersOf(b, d)
  BY DEF UsersOf
<1>. QED  BY <1>1, <1>2 DEF RolesFollow

\* A request is sent, about a role while none other is under way that could spoil it.
LEMMA RolesSent ==
  ASSUME NEW b, NEW ss, NEW d, RolesFollow(b, ss, d), NEW a, ~a.ok,
         a.q[1] \in RoleKinds => a.roles = b.roles /\ \A c \in ss : c.q[1] \notin RoleKinds \cup UserKinds,
         a.q[1] \in UserKinds => \A c \in ss : c.q[1] \notin RoleKinds
  PROVE  RolesFollow(b, ss \cup {a}, d)
<1>1. Pending(ss \cup {a}, RoleKinds) = Pending(ss, RoleKinds)
  BY PendingOthers
<1>2. \A c \in ss \cup {a} : c \in ss \/ c = a
  OBVIOUS
<1>3. \A c \in ss \cup {a} : c.q[1] \in RoleKinds =>
         c.roles = b.roles /\ \A e \in ss \cup {a} : e.q[1] \in RoleKinds \cup UserKinds => e = c
  BY <1>2 DEF RolesFollow
<1>. QED  BY <1>1, <1>3 DEF RolesFollow

\* While no account changes unheard, as many users are counted as there are.
LEMMA CountsAgree ==
  ASSUME NEW b, NEW ss, NEW d, UsersFollow(b, ss, d), Pending(ss, UserKinds) = {}, NEW key
  PROVE  UsersWith(UsersOf(b, d), key) = UsersWith(d.users, key)
<1>1. CASE Sees(b.permissions)
  <2>1. \A x : AgreeOn(x, b.users, d.users)
    BY <1>1 DEF UsersFollow
  <2>2. {x \in DOMAIN b.users : b.users[x].role = key} = {x \in DOMAIN d.users : d.users[x].role = key}
    BY <2>1 DEF AgreeOn, Alike, AccountFields
  <2>. QED  BY <1>1, <2>2 DEF UsersWith, UsersOf
<1>2. CASE ~Sees(b.permissions)
  BY <1>2 DEF UsersOf
<1>. QED  BY <1>1, <1>2

\* The page takes the list over that the dialog has made.
LEMMA RolesShown ==
  ASSUME NEW b, NEW ss, NEW d, RolesFollow(b, ss, d), UsersFollow(b, ss, d), NEW a \in ss, a.ok, a.q[1] \in RoleKinds,
         NEW b2, b2.users = b.users, b2.permissions = b.permissions, b2.roles = RolesAfter(a, a.roles)
  PROVE  RolesFollow(b2, ss \ {a}, d)
<1>. DEFINE rest == ss \ {a}
<1>1. a.roles = b.roles /\ \A c \in rest : c.q[1] \notin RoleKinds \cup UserKinds
  BY DEF RolesFollow
<1>2. a \in Pending(ss, RoleKinds) /\ Pending(rest, RoleKinds) = {}
  BY <1>1 DEF Pending
<1>3. RoleTold(a, b.roles, d)
  BY <1>2 DEF RolesFollow
<1>4. RolesMatch(b2.roles, d)
  BY <1>1, <1>3 DEF RoleTold
<1>5. UsersOf(b2, d) = UsersOf(b, d)
  BY DEF UsersOf
<1>6. Pending(ss, UserKinds) = {}
  BY <1>1 DEF Pending, RoleKinds, UserKinds
<1>7. ASSUME NEW key \in DOMAIN b2.roles
      PROVE  HasFields(b2.roles[key], RoleFields) /\ b2.roles[key].user_count = UsersWith(UsersOf(b2, d), key)
  <2>1. (key \in DOMAIN b.roles /\ b2.roles[key] = b.roles[key])
        \/ (key = a.q[2] /\ a.q[1] # "role_delete" /\ b2.roles[key] = a.told[2])
    BY <1>1 DEF RolesAfter, RoleSaved, RoleDeleted
  <2>2. key \in DOMAIN b.roles =>
          HasFields(b.roles[key], RoleFields) /\ b.roles[key].user_count = UsersWith(UsersOf(b, d), key)
    BY DEF RolesFollow
  <2>3. UsersWith(UsersOf(b, d), key) = UsersWith(d.users, key)
    BY <1>6, CountsAgree
  <2>. QED  BY <1>3, <1>5, <2>1, <2>2, <2>3 DEF RoleTold
<1>. QED  BY <1>1, <1>2, <1>4, <1>7 DEF RolesFollow

\* The page counts the users of each role again.
LEMMA RolesCounted ==
  ASSUME NEW b, NEW ss, NEW d, RolesFollow(b, ss, d), NEW a \in ss, a.ok, a.q[1] \in UserKinds, Sees(b.permissions),
         NEW b2, b2.permissions = b.permissions,
         b2.roles = [key \in DOMAIN b.roles |-> [b.roles[key] EXCEPT !.user_count = UsersWith(b2.users, key)]]
  PROVE  RolesFollow(b2, ss \ {a}, d)
<1>. DEFINE rest == ss \ {a}
            count(key) == UsersWith(b2.users, key)
            roles == b2.roles
<1>1. \A c \in ss : c.q[1] \notin RoleKinds
  BY DEF RolesFollow, RoleKinds, UserKinds
<1>2. Pending(ss, RoleKinds) = {} /\ Pending(rest, RoleKinds) = {}
  BY <1>1 DEF Pending
<1>3. RolesMatch(b.roles, d)
  BY <1>2 DEF RolesFollow
<1>4. roles = [key \in DOMAIN b.roles |-> [b.roles[key] EXCEPT !.user_count = count(key)]]
  OBVIOUS
<1>. HIDE DEF count, roles
<1>5. \A key \in DOMAIN b.roles :
        /\ HasFields(roles[key], RoleFields) /\ roles[key].user_count = count(key)
        /\ roles[key].permissions = b.roles[key].permissions
  <2>. SUFFICES ASSUME NEW key \in DOMAIN b.roles
                PROVE  /\ HasFields(roles[key], RoleFields) /\ roles[key].user_count = count(key)
                       /\ roles[key].permissions = b.roles[key].permissions
    OBVIOUS
  <2>1. HasFields(b.roles[key], RoleFields)
    BY DEF RolesFollow
  <2>2. roles[key] = [b.roles[key] EXCEPT !.user_count = count(key)]
    BY <1>4
  <2>. QED  BY <2>1, <2>2 DEF HasFields, RoleFields
<1>6. DOMAIN roles = DOMAIN b.roles /\ HasFields(roles, DOMAIN roles)
  BY <1>4 DEF HasFields
<1>7. RolesMatch(roles, d)
  BY <1>3, <1>5, <1>6 DEF RolesMatch, HasFields
<1>8. UsersOf(b2, d) = b2.users
  BY DEF UsersOf
<1>. QED  BY <1>1, <1>2, <1>5, <1>6, <1>7, <1>8 DEF RolesFollow, roles, count

\* The settings a request tells of, and what it says they are.
Tells(q) == IF q[1] \in {"name", "icon"} THEN {"name", "icon"} ELSE {q[1]}

\* The value of the setting f that the answer a puts into the books.
Setting(a, f) ==
  IF a.q[1] \notin {"name", "icon"} THEN a.q[2]
  ELSE IF a.q = <<"icon", "default">> THEN (IF f = "name" THEN a.brand ELSE "default")
  ELSE a.told[2][f]

\* Two requests that tell of the same setting.
Meet(p, q) == p[1] \in SiteKinds /\ q[1] \in SiteKinds /\ \E f \in Tells(p) : f \in Tells(q)

\* The settings, in the books and in App's hands: those with an answer under
\* way are what that answer says.
SiteFollows(b, ss, d, s) ==
  /\ s = b.site
  /\ HasFields(b.site, SiteFields)
  /\ \A a, c \in ss : Meet(a.q, c.q) => a = c
  /\ \A a \in ss : a.q[1] = "icon" => a.brand = b.site.name
  /\ \A f \in SiteFields : (\A a \in Pending(ss, SiteKinds) : f \notin Tells(a.q)) => d.site[f] = b.site[f]
  /\ \A a \in Pending(ss, SiteKinds) : \A f \in Tells(a.q) : d.site[f] = Setting(a, f)

\* The server changes a setting, and tells of it.
LEMMA SiteServed ==
  ASSUME NEW b, NEW ss, NEW d, NEW u, NEW s, SiteFollows(b, ss, d, s),
         IsDatabase(d), HasRows(d), u \in DOMAIN d.users,
         NEW a \in ss, NEW a2, NEW d2, Serves(a, a2, d, d2, u)
  PROVE  SiteFollows(b, Answered(ss, a, a2), d2, s)
<1>. DEFINE ss2 == Answered(ss, a, a2)
            q == a.q
            before == Pending(ss, SiteKinds)
            after == Pending(ss2, SiteKinds)
<1>0. a2.q = q /\ ~a.ok /\ a2.brand = a.brand
  BY DEF Serves
<1>1. \A c : c \in ss2 <=> (c \in ss /\ c # a) \/ c = a2
  BY DEF Answered
<1>2. \A c, e \in ss2 : Meet(c.q, e.q) => c = e
  BY <1>0, <1>1 DEF SiteFollows
<1>3. /\ ~a2.ok \/ q[1] \notin SiteKinds => after = before
      /\ \A c : c \in after => c \in before \/ c = a2
      /\ before \subseteq after
      /\ a2.ok /\ q[1] \in SiteKinds => a2 \in after
  BY <1>0, PendingServed
<1>4. \A c \in ss2 : c.q[1] = "icon" => c.brand = b.site.name
  BY <1>0, <1>1 DEF SiteFollows
<1>5. \A c \in before : c \in ss /\ c.q[1] \in SiteKinds /\ c # a
  BY <1>0 DEF Pending
<1>. HIDE DEF ss2, before, after
<1>6. CASE ~a2.ok \/ q[1] \notin SiteKinds
  <2>1. d2.site = d.site
    BY <1>6, ServesKeeps DEF Serves
  <2>2. after = before
    BY <1>3, <1>6
  <2>. QED  BY <1>2, <1>4, <2>1, <2>2 DEF SiteFollows, ss2, before, after
<1>7. CASE a2.ok /\ q[1] \in SiteKinds
  <2>1. d2 = Applied(d, u, q) /\ a2.told[2] = Told(d2, u, q)
    BY <1>7 DEF Serves
  <2>2. \A c \in before : \A f \in Tells(c.q) : f \notin Tells(q)
    BY <1>5, <1>7 DEF SiteFollows, Meet
  <2>3. DOMAIN d.site = SiteFields
    BY DEF HasRows, HasFields
  <2>. HIDE DEF q
  <2>4. d2.site = Put(d.site, q[1], q[2])
    BY <1>7, <2>1, AppliedSite
  <2>5. d2.site[q[1]] = q[2] /\ \A f \in SiteFields : f # q[1] => d2.site[f] = d.site[f]
    BY <1>7, <2>3, <2>4, PutIs DEF SiteKinds, SiteFields
  <2>6. q[1] \in Tells(q) /\ Tells(q) \subseteq SiteFields
    BY <1>7 DEF Tells, SiteKinds, SiteFields
  <2>7. \A f \in SiteFields : (\A c \in after : f \notin Tells(c.q)) => d2.site[f] = b.site[f]
    <3>. SUFFICES ASSUME NEW f \in SiteFields, \A c \in after : f \notin Tells(c.q)  PROVE d2.site[f] = b.site[f]
      OBVIOUS
    <3>1. f \notin Tells(q) /\ \A c \in before : f \notin Tells(c.q)
      BY <1>0, <1>3, <1>7
    <3>2. d.site[f] = b.site[f]
      BY <3>1 DEF SiteFollows, before
    <3>. QED  BY <2>5, <2>6, <3>1, <3>2
  <2>8. \A c \in before : \A f \in Tells(c.q) : d2.site[f] = Setting(c, f)
    <3>. SUFFICES ASSUME NEW c \in before, NEW f \in Tells(c.q)  PROVE d2.site[f] = Setting(c, f)
      OBVIOUS
    <3>1. f \notin Tells(q) /\ f \in SiteFields
      BY <1>5, <2>2 DEF Tells, SiteKinds, SiteFields
    <3>2. d.site[f] = Setting(c, f)
      BY DEF SiteFollows, before
    <3>. QED  BY <2>5, <2>6, <3>1, <3>2
  <2>9. \A f \in Tells(q) : d2.site[f] = Setting(a2, f)
    <3>1. CASE q[1] \notin {"name", "icon"}
      BY <1>0, <2>5, <3>1 DEF Tells, Setting
    <3>2. CASE q = <<"icon", "default">>
      <4>1. q[1] = "icon" /\ q[2] = "default" /\ Tells(q) = {"name", "icon"}
        BY <3>2 DEF Tells
      <4>2. \A c \in before : "name" \notin Tells(c.q)
        BY <2>2, <4>1
      <4>3. d.site["name"] = b.site["name"] /\ a.brand = b.site.name
        BY <4>1, <4>2 DEF SiteFollows, SiteFields, before, q
      <4>4. d2.site["name"] = a.brand
        BY <2>5, <4>1, <4>3 DEF SiteFields
      <4>5. d2.site["icon"] = "default"
        BY <2>5, <4>1
      <4>6. Setting(a2, "name") = a.brand /\ Setting(a2, "icon") = "default"
        BY <1>0, <3>2, <4>1 DEF Setting
      <4>. QED  BY <4>1, <4>4, <4>5, <4>6
    <3>3. CASE q[1] \in {"name", "icon"} /\ q # <<"icon", "default">>
      <4>1. a2.told[2] = [name |-> d2.site.name, icon |-> d2.site.icon]
        BY <2>1, <3>3 DEF Told
      <4>2. Tells(q) = {"name", "icon"}
        BY <3>3 DEF Tells
      <4>3. \A f : Setting(a2, f) = a2.told[2][f]
        BY <1>0, <3>3 DEF Setting
      <4>4. a2.told[2]["name"] = d2.site["name"] /\ a2.told[2]["icon"] = d2.site["icon"]
        BY <4>1
      <4>. QED  BY <4>2, <4>3, <4>4
    <3>. QED  BY <3>1, <3>2, <3>3
  <2>10. \A c \in after : \A f \in Tells(c.q) : d2.site[f] = Setting(c, f)
    BY <1>0, <1>3, <2>8, <2>9
  <2>. QED  BY <1>2, <1>4, <2>7, <2>10 DEF SiteFollows, ss2, after
<1>. QED  BY <1>6, <1>7

\* A request goes that has changed no setting.
LEMMA SiteDrop ==
  ASSUME NEW b, NEW ss, NEW d, NEW s, SiteFollows(b, ss, d, s), NEW a \in ss, ~a.ok \/ a.q[1] \notin SiteKinds,
         NEW b2, b2.site = b.site
  PROVE  SiteFollows(b2, ss \ {a}, d, s)
<1>1. Pending(ss \ {a}, SiteKinds) = Pending(ss, SiteKinds)
  BY PendingOthers
<1>. QED  BY <1>1 DEF SiteFollows

\* A request is sent, about settings that no other tells of.
LEMMA SiteSent ==
  ASSUME NEW b, NEW ss, NEW d, NEW s, SiteFollows(b, ss, d, s), NEW a, ~a.ok,
         \A c \in ss : ~Meet(a.q, c.q),
         a.q[1] = "icon" => a.brand = b.site.name
  PROVE  SiteFollows(b, ss \cup {a}, d, s)
<1>1. Pending(ss \cup {a}, SiteKinds) = Pending(ss, SiteKinds)
  BY PendingOthers
<1>2. \A c \in ss \cup {a} : c \in ss \/ c = a
  OBVIOUS
<1>3. \A c \in ss : ~Meet(c.q, a.q)
  BY DEF Meet
<1>4. \A c, e \in ss \cup {a} : Meet(c.q, e.q) => c = e
  BY <1>2, <1>3 DEF SiteFollows
<1>5. \A c \in ss \cup {a} : c.q[1] = "icon" => c.brand = b.site.name
  BY <1>2 DEF SiteFollows
<1>. QED  BY <1>1, <1>4, <1>5 DEF SiteFollows

\* The page and App take over what the answer says.
LEMMA SiteShown ==
  ASSUME NEW b, NEW ss, NEW d, NEW s, SiteFollows(b, ss, d, s), NEW a \in ss, a.ok, a.q[1] \in SiteKinds,
         NEW b2, NEW s2, s2 = b2.site, HasFields(s2, SiteFields),
         \A f \in SiteFields : s2[f] = IF f \in Tells(a.q) THEN Setting(a, f) ELSE b.site[f]
  PROVE  SiteFollows(b2, ss \ {a}, d, s2)
<1>. DEFINE rest == ss \ {a}
<1>1. a \in Pending(ss, SiteKinds) /\ \A c : c \in Pending(rest, SiteKinds) <=> c \in Pending(ss, SiteKinds) /\ c # a
  BY PendingOthers DEF Pending
<1>2. \A c, e \in rest : Meet(c.q, e.q) => c = e
  BY DEF SiteFollows
<1>3. ASSUME NEW c \in rest, c.q[1] = "icon"  PROVE c.brand = s2.name
  <2>1. ~Meet(a.q, c.q) /\ c.brand = b.site.name
    BY <1>3 DEF SiteFollows
  <2>2. "name" \notin Tells(a.q)
    BY <1>3, <2>1 DEF Meet, Tells, SiteKinds
  <2>. QED  BY <2>1, <2>2 DEF SiteFields
<1>4. \A f \in SiteFields : (\A c \in Pending(rest, SiteKinds) : f \notin Tells(c.q)) => d.site[f] = s2[f]
  <2>. SUFFICES ASSUME NEW f \in SiteFields, \A c \in Pending(rest, SiteKinds) : f \notin Tells(c.q)  PROVE d.site[f] = s2[f]
    OBVIOUS
  <2>1. CASE f \in Tells(a.q)
    BY <1>1, <2>1 DEF SiteFollows
  <2>2. CASE f \notin Tells(a.q)
    <3>1. \A c \in Pending(ss, SiteKinds) : f \notin Tells(c.q)
      BY <1>1, <2>2
    <3>. QED  BY <2>2, <3>1 DEF SiteFollows
  <2>. QED  BY <2>1, <2>2
<1>5. \A c \in Pending(rest, SiteKinds) : \A f \in Tells(c.q) : d.site[f] = Setting(c, f)
  BY <1>1 DEF SiteFollows
<1>. QED  BY <1>2, <1>3, <1>4, <1>5 DEF SiteFollows

\* The channels somebody with these rights is told of.
SpacesTold(d, u, rights) ==
  IF IsSuper(d, u) THEN Spaces
  ELSE IF ~AllowsAssignments(rights) THEN {}
  ELSE {s \in Spaces : d.owner[s] = u \/ Assigned(d, u, s)}

\* The requests that change how many tables a channel has.
CountKinds == {"connection", "table_delete"}

\* The channels and how many tables each has, one more than it has while a
\* deletion is to be shown; the sheet is opened for the channel k, and believes
\* in n tables; its request, one at a time, has kept that number.
Extra(ss, s) == IF \E a \in Pending(ss, {"table_delete"}) : a.q[2] = s THEN 1 ELSE 0

SpacesFollow(b, ss, d, u, k, n) ==
  /\ HasFields(b.spaces, SpacesTold(d, u, b.permissions))
  /\ b.tables = SumOf(b.spaces, DOMAIN b.spaces)
  /\ \A a, c \in ss : a.q[1] \in CountKinds /\ c.q[1] \in CountKinds => a = c
  /\ \A a \in ss : a.q[1] \in CountKinds =>
       /\ a.q[2] \in DOMAIN b.spaces /\ a.count = b.spaces[a.q[2]]
       /\ k = IF a.held THEN a.q[2] ELSE Nowhere
  /\ \A s \in DOMAIN b.spaces : b.spaces[s] = Cardinality(d.tables[s]) + Extra(ss, s)
  /\ k # Nowhere => k \in DOMAIN b.spaces /\ n = b.spaces[k]

\* The tables of a channel are finitely many.
LEMMA FewTables ==
  ASSUME NEW d, HasRows(d), NEW s \in Spaces
  PROVE  IsFiniteSet(d.tables[s]) /\ Cardinality(d.tables[s]) \in Nat
<1>1. Made(d) \subseteq Tables
  BY DEF HasRows, Made
<1>2. d.tables[s] \subseteq Tables
  BY <1>1 DEF HasRows
<1>. QED  BY <1>2, SetsAssumption, FS_Subset, FS_CardinalityType

\* What the numbers of the books are.
LEMMA SpacesNumbers ==
  ASSUME NEW b, NEW ss, NEW d, HasRows(d), NEW u, NEW k, NEW n, SpacesFollow(b, ss, d, u, k, n)
  PROVE  /\ IsFiniteSet(DOMAIN b.spaces) /\ DOMAIN b.spaces \subseteq Spaces
         /\ DOMAIN b.spaces = SpacesTold(d, u, b.permissions)
         /\ \A s \in DOMAIN b.spaces : b.spaces[s] \in Nat
<1>1. DOMAIN b.spaces = SpacesTold(d, u, b.permissions) /\ DOMAIN b.spaces \subseteq Spaces
  BY DEF SpacesFollow, HasFields, SpacesTold
<1>2. IsFiniteSet(DOMAIN b.spaces)
  BY <1>1, SetsAssumption, FS_Subset
<1>3. \A s \in DOMAIN b.spaces : Extra(ss, s) \in {0, 1}
  BY DEF Extra
<1>4. \A s \in DOMAIN b.spaces : Cardinality(d.tables[s]) \in Nat
  BY <1>1, FewTables
<1>5. \A s \in DOMAIN b.spaces : b.spaces[s] = Cardinality(d.tables[s]) + Extra(ss, s)
  BY DEF SpacesFollow
<1>. QED  BY <1>1, <1>2, <1>3, <1>4, <1>5

\* Nobody who works with the console is told of other channels by what he does.
LEMMA SpacesToldServed ==
  ASSUME NEW d, IsDatabase(d), NEW u, u \in DOMAIN d.users,
         NEW a, a.q[1] \in ConsoleKinds, NEW a2, NEW d2, Serves(a, a2, d, d2, u), NEW rights
  PROVE  SpacesTold(d2, u, rights) = SpacesTold(d, u, rights)
<1>. DEFINE q == a.q
<1>1. CASE d2 = d
  BY <1>1
<1>2. CASE q[1] \notin UserKinds
  <2>1. q[1] \notin UserKinds \cup {"join"} /\ q[1] # "user_delete"
    BY <1>2 DEF ConsoleKinds, UserKinds, RoleKinds, SiteKinds, SheetKinds
  <2>2. d2.users = d.users /\ d2.owner = d.owner
    BY <2>1, ServesKeeps
  <2>. QED  BY <2>2 DEF SpacesTold, IsSuper, RoleOf, Assigned
<1>3. CASE q[1] \in UserKinds /\ Permitted(d, u, q) /\ Accepted(d, u, q) /\ d2 = Applied(d, u, q)
  <2>. HIDE DEF q
  <2>1. /\ q[1] # "user_delete" => d2.owner = d.owner
        /\ q[1] = "user_delete" /\ ~IsSuper(d, u) => \A s \in Spaces : d2.owner[s] = d.owner[s]
        /\ d2.users[u].role = d.users[u].role /\ d2.users[u].managed = d.users[u].managed
        /\ IsSuper(d, u) \/ d2.users[u].joined = d.users[u].joined
    BY <1>3, AppliedUsers
  <2>2. IsSuper(d2, u) <=> IsSuper(d, u)
    BY <2>1 DEF IsSuper, RoleOf
  <2>. QED  BY <2>1, <2>2 DEF SpacesTold, Assigned
<1>. QED  BY <1>1, <1>2, <1>3 DEF Serves

\* The server deletes a table that is still counted, or does something else.
LEMMA SpacesServed ==
  ASSUME NEW b, NEW ss, NEW d, NEW u, NEW k, NEW n, SpacesFollow(b, ss, d, u, k, n),
         IsDatabase(d), HasRows(d), u \in DOMAIN d.users,
         NEW a \in ss, a.q[1] \in ConsoleKinds, NEW a2, NEW d2, Serves(a, a2, d, d2, u)
  PROVE  SpacesFollow(b, Answered(ss, a, a2), d2, u, k, n)
<1>. DEFINE ss2 == Answered(ss, a, a2)
            q == a.q
            before == Pending(ss, {"table_delete"})
            after == Pending(ss2, {"table_delete"})
<1>0. a2.q = q /\ ~a.ok /\ a2.held = a.held /\ a2.count = a.count
  BY DEF Serves
<1>1. \A c : c \in ss2 <=> (c \in ss /\ c # a) \/ c = a2
  BY DEF Answered
<1>2. /\ ~a2.ok \/ q[1] \notin {"table_delete"} => after = before
      /\ \A c : c \in after => c \in before \/ c = a2
      /\ a2.ok /\ q[1] \in {"table_delete"} => a2 \in after
  BY <1>0, PendingServed
<1>3. HasFields(b.spaces, SpacesTold(d2, u, b.permissions))
  BY SpacesToldServed DEF SpacesFollow
<1>4. DOMAIN b.spaces \subseteq Spaces
  BY SpacesNumbers
<1>. HIDE DEF ss2, before, after
<1>5. \A c, e \in ss2 : c.q[1] \in CountKinds /\ e.q[1] \in CountKinds => c = e
  BY <1>0, <1>1 DEF SpacesFollow
<1>6. \A c \in ss2 : c.q[1] \in CountKinds =>
        /\ c.q[2] \in DOMAIN b.spaces /\ c.count = b.spaces[c.q[2]]
        /\ k = IF c.held THEN c.q[2] ELSE Nowhere
  BY <1>0, <1>1 DEF SpacesFollow
<1>7. \A s \in DOMAIN b.spaces : b.spaces[s] = Cardinality(d2.tables[s]) + Extra(ss2, s)
  <2>1. CASE ~a2.ok \/ q[1] # "table_delete"
    <3>1. d2.tables = d.tables
      BY <2>1, ServesKeeps DEF Serves, ConsoleKinds, UserKinds, RoleKinds, SiteKinds, SheetKinds
    <3>2. \A s : Extra(ss2, s) = Extra(ss, s)
      BY <1>2, <2>1 DEF Extra, before, after
    <3>. QED  BY <3>1, <3>2 DEF SpacesFollow
  <2>2. CASE a2.ok /\ q[1] = "table_delete"
    <3>1. d2 = Applied(d, u, q) /\ Accepted(d, u, q)
      BY <2>2 DEF Serves
    <3>2. \A c \in ss : c.q[1] = "table_delete" => c = a
      BY <2>2 DEF SpacesFollow, CountKinds
    <3>3. before = {} /\ after = {a2}
      BY <1>0, <1>2, <2>2, <3>2 DEF before, Pending
    <3>4. \A s : Extra(ss, s) = 0 /\ Extra(ss2, s) = IF s = q[2] THEN 1 ELSE 0
      BY <1>0, <3>3 DEF Extra, before, after
    <3>5. q[2] \in Spaces /\ DOMAIN d.tables = Spaces
      BY <1>4, <2>2 DEF SpacesFollow, CountKinds, HasRows, HasFields
    <3>. HIDE DEF q
    <3>6. d2.tables = Put(d.tables, q[2], Less(d.tables[q[2]], q[3])) /\ q[3] \in d.tables[q[2]]
      BY <2>2, <3>1, AppliedTables DEF Accepted
    <3>. DEFINE less == Less(d.tables[q[2]], q[3])
    <3>61. d2.tables = Put(d.tables, q[2], less)
      BY <3>6
    <3>. HIDE DEF less
    <3>62. \A s \in Spaces : d2.tables[s] = IF s = q[2] THEN less ELSE d.tables[s]
      BY <3>5, <3>61, PutIs
    <3>7. \A s \in Spaces : d2.tables[s] = IF s = q[2] THEN d.tables[s] \ {q[3]} ELSE d.tables[s]
      BY <3>62 DEF Less, less
    <3>. DEFINE T == d.tables[q[2]]
    <3>8. IsFiniteSet(T) /\ Cardinality(T) \in Nat
      BY <3>5, FewTables
    <3>9. Cardinality(T \ {q[3]}) = Cardinality(T) - 1
      BY <3>6, <3>8, FS_RemoveElement
    <3>. SUFFICES ASSUME NEW s \in DOMAIN b.spaces  PROVE b.spaces[s] = Cardinality(d2.tables[s]) + Extra(ss2, s)
      OBVIOUS
    <3>10. b.spaces[s] = Cardinality(d.tables[s]) + Extra(ss, s) /\ Cardinality(d.tables[s]) \in Nat
      BY <1>4, FewTables DEF SpacesFollow
    <3>11. s \in Spaces /\ Extra(ss, s) = 0 /\ Extra(ss2, s) = IF s = q[2] THEN 1 ELSE 0
      BY <1>4, <3>4
    <3>12. s = q[2] => Cardinality(d2.tables[s]) = Cardinality(d.tables[s]) - 1
      BY <3>7, <3>9, <3>11
    <3>13. s # q[2] => Cardinality(d2.tables[s]) = Cardinality(d.tables[s])
      BY <3>7, <3>11
    <3>. DEFINE was == Cardinality(d.tables[s])
                is == Cardinality(d2.tables[s])
    <3>. HIDE DEF was, is
    <3>14. b.spaces[s] = was + 0 /\ was \in Nat
      BY <3>10, <3>11 DEF was
    <3>15. (s = q[2] => is = was - 1) /\ (s # q[2] => is = was)
      BY <3>12, <3>13 DEF was, is
    <3>16. b.spaces[s] = is + Extra(ss2, s)
      BY <3>11, <3>14, <3>15
    <3>. QED  BY <3>16 DEF is
  <2>. QED  BY <2>1, <2>2
<1>. QED  BY <1>3, <1>5, <1>6, <1>7 DEF SpacesFollow, ss2

\* A request goes that has deleted nothing.
LEMMA SpacesDrop ==
  ASSUME NEW b, NEW ss, NEW d, NEW u, NEW k, NEW n, SpacesFollow(b, ss, d, u, k, n),
         NEW a \in ss, ~a.ok \/ a.q[1] # "table_delete",
         NEW b2, b2.spaces = b.spaces, b2.tables = b.tables, b2.permissions = b.permissions
  PROVE  SpacesFollow(b2, ss \ {a}, d, u, k, n)
<1>1. Pending(ss \ {a}, {"table_delete"}) = Pending(ss, {"table_delete"})
  BY PendingOthers
<1>2. \A s : Extra(ss \ {a}, s) = Extra(ss, s)
  BY <1>1 DEF Extra
<1>. QED  BY <1>2 DEF SpacesFollow

\* A request is sent: of the sheet, the only one of its kind.
LEMMA SpacesSent ==
  ASSUME NEW b, NEW ss, NEW d, NEW u, NEW k, NEW n, SpacesFollow(b, ss, d, u, k, n), NEW a, ~a.ok,
         a.q[1] \in CountKinds =>
           a.held /\ a.q[2] = k /\ a.count = n /\ k # Nowhere /\ \A c \in ss : c.q[1] \notin CountKinds
  PROVE  SpacesFollow(b, ss \cup {a}, d, u, k, n)
<1>1. Pending(ss \cup {a}, {"table_delete"}) = Pending(ss, {"table_delete"})
  BY PendingOthers
<1>2. \A s : Extra(ss \cup {a}, s) = Extra(ss, s)
  BY <1>1 DEF Extra
<1>3. \A c \in ss \cup {a} : c \in ss \/ c = a
  OBVIOUS
<1>4. \A c \in ss \cup {a} : c.q[1] \in CountKinds =>
        /\ c.q[2] \in DOMAIN b.spaces /\ c.count = b.spaces[c.q[2]]
        /\ k = IF c.held THEN c.q[2] ELSE Nowhere
  BY <1>3 DEF SpacesFollow
<1>5. \A c, e \in ss \cup {a} : c.q[1] \in CountKinds /\ e.q[1] \in CountKinds => c = e
  BY <1>3 DEF SpacesFollow
<1>. QED  BY <1>2, <1>4, <1>5 DEF SpacesFollow

\* The page counts the tables of the channel again, from the number the request has kept.
LEMMA SpacesShown ==
  ASSUME NEW b, NEW ss, NEW d, HasRows(d), NEW u, NEW k, NEW n, SpacesFollow(b, ss, d, u, k, n),
         NEW a \in ss, a.ok, a.q[1] \in CountKinds,
         NEW count, count = IF a.q[1] = "connection" THEN a.count ELSE IF a.count = 0 THEN 0 ELSE a.count - 1,
         NEW b2, b2.permissions = b.permissions,
         b2.spaces = [s \in DOMAIN b.spaces |-> IF s = a.q[2] THEN count ELSE b.spaces[s]],
         b2.tables = IF b.tables + count - b.spaces[a.q[2]] < 0 THEN 0 ELSE b.tables + count - b.spaces[a.q[2]],
         NEW m, a.held => m = count, ~a.held => m = n
  PROVE  SpacesFollow(b2, ss \ {a}, d, u, k, m)
<1>. DEFINE x == a.q[2]
            S == DOMAIN b.spaces
            rest == ss \ {a}
            before == b.spaces
            now == b2.spaces
<1>1. x \in S /\ a.count = before[x] /\ k = (IF a.held THEN x ELSE Nowhere)
  BY DEF SpacesFollow
<1>2. \A c \in rest : c.q[1] \notin CountKinds
  BY DEF SpacesFollow
<1>3. Pending(rest, {"table_delete"}) = {} /\ \A s : Extra(rest, s) = 0
  <2>1. Pending(rest, {"table_delete"}) = {}
    BY <1>2 DEF Pending, CountKinds
  <2>. QED  BY <2>1 DEF Extra
<1>4. IsFiniteSet(S) /\ S \subseteq Spaces /\ \A s \in S : before[s] \in Nat
  BY SpacesNumbers
<1>5. \A s \in S : before[s] = Cardinality(d.tables[s]) + Extra(ss, s)
  BY DEF SpacesFollow
<1>6. \A s \in S : Cardinality(d.tables[s]) \in Nat
  BY <1>4, FewTables
<1>7. \A s \in S : Extra(ss, s) = IF a.q[1] = "table_delete" /\ s = x THEN 1 ELSE 0
  <2>1. \A c : c \in Pending(ss, {"table_delete"}) <=> c = a /\ a.q[1] = "table_delete"
    BY <1>2 DEF Pending, CountKinds
  <2>. QED  BY <2>1 DEF Extra
<1>8. count \in Nat /\ count = Cardinality(d.tables[x])
  <2>1. before[x] = Cardinality(d.tables[x]) + Extra(ss, x) /\ Cardinality(d.tables[x]) \in Nat /\ before[x] \in Nat
    BY <1>1, <1>4, <1>5, <1>6
  <2>2. Extra(ss, x) = IF a.q[1] = "table_delete" THEN 1 ELSE 0
    BY <1>1, <1>7
  <2>. QED  BY <1>1, <2>1, <2>2 DEF CountKinds
<1>9. DOMAIN now = S /\ \A s \in S : now[s] = IF s = x THEN count ELSE before[s]
  OBVIOUS
<1>10. ASSUME NEW s \in S  PROVE now[s] = Cardinality(d.tables[s]) + Extra(rest, s)
  <2>. DEFINE size == Cardinality(d.tables[s])
  <2>1. size \in Nat /\ Extra(rest, s) = 0 /\ before[s] = size + Extra(ss, s)
    BY <1>3, <1>5, <1>6
  <2>2. s = x => now[s] = count /\ count = size
    BY <1>8, <1>9
  <2>3. s # x => now[s] = before[s] /\ Extra(ss, s) = 0
    BY <1>7, <1>9
  <2>. HIDE DEF size, S, x, before, now
  <2>4. now[s] = size
    BY <2>1, <2>2, <2>3
  <2>. QED  BY <2>1, <2>4 DEF size
<1>11. b2.tables = SumOf(now, S)
  <2>1. b.tables = SumOf(before, S)
    BY DEF SpacesFollow
  <2>. HIDE DEF S, x, before, now
  <2>2. SumOf(now, S) = SumOf(before, S) + now[x] - before[x]
    <3>1. \A s \in S : before[s] \in Int /\ now[s] \in Int
      BY <1>4, <1>8, <1>9
    <3>2. \A s \in S \ {x} : now[s] = before[s]
      BY <1>9
    <3>. QED  BY <1>1, <1>4, <3>1, <3>2, SumChange
  <2>3. SumOf(now, S) \in Nat
    <3>1. \A s \in S : now[s] \in Nat
      BY <1>4, <1>8, <1>9
    <3>. QED  BY <1>4, <3>1, SumNat
  <2>4. SumOf(before, S) \in Nat
    BY <1>4, SumNat
  <2>5. now[x] = count
    BY <1>1, <1>9
  <2>6. b2.tables = IF b.tables + count - before[x] < 0 THEN 0 ELSE b.tables + count - before[x]
    BY DEF x, before
  <2>. QED  BY <1>1, <1>4, <1>8, <2>1, <2>2, <2>3, <2>4, <2>5, <2>6
<1>12. HasFields(now, SpacesTold(d, u, b2.permissions))
  BY <1>9 DEF SpacesFollow, HasFields
<1>13. k # Nowhere => k \in S /\ m = now[k]
  BY <1>1, <1>9
<1>. QED  BY <1>2, <1>3, <1>9, <1>10, <1>11, <1>12, <1>13 DEF SpacesFollow

\* The sheet is opened or closed, or gone, while no request of it is under way.
LEMMA SpacesMoved ==
  ASSUME NEW b, NEW ss, NEW d, NEW u, NEW k, NEW n, SpacesFollow(b, ss, d, u, k, n),
         NEW k2, NEW n2,
         \A a \in ss : a.q[1] \in CountKinds => ~a.held /\ k2 = Nowhere,
         k2 # Nowhere => k2 \in DOMAIN b.spaces /\ n2 = b.spaces[k2]
  PROVE  SpacesFollow(b, ss, d, u, k2, n2)
BY DEF SpacesFollow

-----------------------------------------------------------------------------
(* The page's copy, view by view *)

\* What the books hold.
BooksFields == {"users", "counts", "spaces", "tables", "permissions", "roles", "site"}

\* The books of the console: the sheet is opened for the channel k and believes in
\* n tables of it, App's copy of the settings is s.
OverviewFollows(b, ss, d, u, k, n, s) ==
  /\ HasFields(b, BooksFields)
  /\ \A a \in ss : a.mine /\ a.q[1] \in ConsoleKinds
  /\ UsersFollow(b, ss, d)
  /\ RolesFollow(b, ss, d)
  /\ SiteFollows(b, ss, d, s)
  /\ SpacesFollow(b, ss, d, u, k, n)

\* The views whose content is edited answer by answer; one is trusted that shows
\* something and that nothing has spoilt.
BookViews == {"keys", "bindings", "tables", "detail", "overview"}
Trusted(vs, v) == v \in DOMAIN vs /\ vs[v].clean /\ vs[v].shown # Nowhere

\* The channel the sheet is opened for, and the tables it believes in.
SheetKey(vs)   == IF "detail" \in DOMAIN vs THEN vs["detail"].asked ELSE Nowhere
SheetCount(vs) == IF "detail" \in DOMAIN vs THEN vs["detail"].count ELSE 0

\* What is true of each view.
ViewFollows(v, vs, ss, d, u, channel, s) ==
  CASE v = "keys"     -> KeysFollow(vs[v], ss, d, u)
    [] v = "bindings" -> BindingsFollow(vs[v], ss, d, u)
    [] v = "tables"   -> TablesFollow(vs[v], ss, d, channel)
    [] v = "detail"   -> SheetFollows(vs[v], ss, d)
    [] v = "overview" -> OverviewFollows(vs[v].content, ss, d, u, SheetKey(vs), SheetCount(vs), s)

\* Every view that is trusted follows the server.
Follows(vs, ss, d, u, channel, s) ==
  \A v \in BookViews : Trusted(vs, v) => u \in DOMAIN d.users /\ ViewFollows(v, vs, ss, d, u, channel, s)

\* An answer to a read is the server's last word while no request is under way.
ReadFollows(r, ss, d, u) ==
  r.ok =>
    /\ r.phase = "answered"
    /\ r.view = "tables" => r.key \in Spaces
    /\ r.view = "overview" => DOMAIN r.answer[2].spaces \subseteq Spaces
    /\ r.pure => /\ ss = {}
                 /\ r.view = "overview" => r.answer[2].site = d.site
                 /\ r.current => /\ u \in DOMAIN d.users
                                 /\ r.view \in BookViews => r.answer[2] = Tell(d, u, r.view, r.key)

\* The books tell of channels there are.
KnownSpaces(vs) ==
  "overview" \in DOMAIN vs /\ Loaded(vs["overview"]) => DOMAIN vs["overview"].content.spaces \subseteq Spaces

\* Views, answers and database belong together.
BooksInv ==
  /\ HasRows(db)
  /\ \A a \in saves : IsKept(a)
  /\ \A r \in reads : ReadFollows(r, saves, db, session)
  /\ KnownSpaces(views)
  /\ Follows(views, saves, db, session, ChannelOf(path), site)

\* The server does what the console asked for.
LEMMA OverviewServed ==
  ASSUME NEW b, NEW ss, NEW d, NEW u, NEW k, NEW n, NEW s, OverviewFollows(b, ss, d, u, k, n, s),
         IsDatabase(d), HasRows(d), u \in DOMAIN d.users,
         NEW a \in ss, NEW a2, NEW d2, Serves(a, a2, d, d2, u), IsDatabase(d2)
  PROVE  OverviewFollows(b, Answered(ss, a, a2), d2, u, k, n, s)
<1>1. /\ HasFields(b, BooksFields)
      /\ \A c \in ss : c.mine /\ c.q[1] \in ConsoleKinds
      /\ UsersFollow(b, ss, d) /\ RolesFollow(b, ss, d)
      /\ SiteFollows(b, ss, d, s) /\ SpacesFollow(b, ss, d, u, k, n)
  BY DEF OverviewFollows
<1>2. a.q[1] \in ConsoleKinds /\ a2.q = a.q /\ a2.mine = a.mine
  BY <1>1 DEF Serves
<1>3. \A c \in Answered(ss, a, a2) : c.mine /\ c.q[1] \in ConsoleKinds
  BY <1>1, <1>2 DEF Answered
<1>4. UsersFollow(b, Answered(ss, a, a2), d2)
  BY <1>1, <1>2, UsersServed
<1>5. RolesFollow(b, Answered(ss, a, a2), d2)
  BY <1>1, <1>2, RolesServed
<1>6. SiteFollows(b, Answered(ss, a, a2), d2, s)
  BY <1>1, <1>2, SiteServed
<1>7. SpacesFollow(b, Answered(ss, a, a2), d2, u, k, n)
  BY <1>1, <1>2, SpacesServed
<1>. QED  BY <1>1, <1>3, <1>4, <1>5, <1>6, <1>7 DEF OverviewFollows

\* A request goes that the books are not about.
BookKinds == UserKinds \cup RoleKinds \cup SiteKinds \cup CountKinds

\* The request is over, and the books are as right as they were.
LEMMA OverviewDrop ==
  ASSUME NEW b, NEW ss, NEW d, NEW u, NEW k, NEW n, NEW s, OverviewFollows(b, ss, d, u, k, n, s),
         NEW a \in ss, ~a.ok \/ a.q[1] \notin BookKinds
  PROVE  OverviewFollows(b, ss \ {a}, d, u, k, n, s)
<1>1. UsersFollow(b, ss \ {a}, d)
  BY UsersDrop DEF OverviewFollows, BookKinds
<1>2. RolesFollow(b, ss \ {a}, d)
  BY RolesDrop DEF OverviewFollows, BookKinds
<1>3. SiteFollows(b, ss \ {a}, d, s)
  BY SiteDrop DEF OverviewFollows, BookKinds
<1>4. SpacesFollow(b, ss \ {a}, d, u, k, n)
  BY SpacesDrop DEF OverviewFollows, BookKinds, CountKinds
<1>. QED  BY <1>1, <1>2, <1>3, <1>4 DEF OverviewFollows

\* The answer about an account arrives.
LEMMA OverviewUsers ==
  ASSUME NEW b, NEW ss, NEW d, NEW u, NEW k, NEW n, NEW s, OverviewFollows(b, ss, d, u, k, n, s),
         NEW a \in ss, a.ok, a.q[1] \in UserKinds,
         NEW us, us = IF a.q[1] = "user_delete" THEN [y \in DOMAIN b.users \ {a.q[2]} |-> b.users[y]]
                      ELSE WithAccount(b.users, a.q[2], a.told[2]),
         NEW b2, b2 = RecalculateOverview(b, us)
  PROVE  OverviewFollows(b2, ss \ {a}, d, u, k, n, s)
<1>1. HasFields(b, BooksFields)
  BY DEF OverviewFollows
<1>2. /\ HasFields(b2, BooksFields)
      /\ b2.users = us /\ b2.counts = CountsOf(us)
      /\ b2.roles = [key \in DOMAIN b.roles |-> [b.roles[key] EXCEPT !.user_count = UsersWith(us, key)]]
      /\ b2.site = b.site /\ b2.spaces = b.spaces /\ b2.tables = b.tables /\ b2.permissions = b.permissions
  BY <1>1 DEF RecalculateOverview, HasFields, BooksFields
<1>3. a.q[1] \notin RoleKinds \cup SiteKinds \cup CountKinds
  BY DEF UserKinds, RoleKinds, SiteKinds, CountKinds
<1>4. UsersFollow(b2, ss \ {a}, d)
  BY <1>2, UsersShown DEF OverviewFollows
<1>5. Sees(b.permissions)
  BY DEF OverviewFollows, UsersFollow
<1>6. RolesFollow(b2, ss \ {a}, d)
  <2>1. b2.roles = [key \in DOMAIN b.roles |-> [b.roles[key] EXCEPT !.user_count = UsersWith(b2.users, key)]]
    BY <1>2
  <2>2. RolesFollow(b, ss, d) /\ b2.permissions = b.permissions
    BY <1>2 DEF OverviewFollows
  <2>. QED  BY <2>1, <2>2, <1>5, RolesCounted
<1>7. SiteFollows(b2, ss \ {a}, d, s)
  BY <1>2, <1>3, SiteDrop DEF OverviewFollows
<1>8. SpacesFollow(b2, ss \ {a}, d, u, k, n)
  BY <1>2, <1>3, SpacesDrop DEF OverviewFollows, CountKinds
<1>. QED  BY <1>2, <1>4, <1>6, <1>7, <1>8 DEF OverviewFollows

\* The answer about a role arrives.
LEMMA OverviewRoles ==
  ASSUME NEW b, NEW ss, NEW d, NEW u, NEW k, NEW n, NEW s, OverviewFollows(b, ss, d, u, k, n, s),
         NEW a \in ss, a.ok, a.q[1] \in RoleKinds,
         NEW b2, b2 = [b EXCEPT !.roles = RolesAfter(a, a.roles)]
  PROVE  OverviewFollows(b2, ss \ {a}, d, u, k, n, s)
<1>1. HasFields(b, BooksFields)
  BY DEF OverviewFollows
<1>2. /\ HasFields(b2, BooksFields)
      /\ b2.roles = RolesAfter(a, a.roles)
      /\ b2.users = b.users /\ b2.counts = b.counts
      /\ b2.site = b.site /\ b2.spaces = b.spaces /\ b2.tables = b.tables /\ b2.permissions = b.permissions
  BY <1>1 DEF HasFields, BooksFields
<1>3. a.q[1] \notin UserKinds \cup SiteKinds \cup CountKinds
  BY DEF UserKinds, RoleKinds, SiteKinds, CountKinds
<1>4. UsersFollow(b2, ss \ {a}, d)
  BY <1>2, <1>3, UsersDrop DEF OverviewFollows
<1>6. RolesFollow(b2, ss \ {a}, d)
  BY <1>2, RolesShown DEF OverviewFollows
<1>7. SiteFollows(b2, ss \ {a}, d, s)
  BY <1>2, <1>3, SiteDrop DEF OverviewFollows
<1>8. SpacesFollow(b2, ss \ {a}, d, u, k, n)
  BY <1>2, <1>3, SpacesDrop DEF OverviewFollows, CountKinds
<1>. QED  BY <1>2, <1>4, <1>6, <1>7, <1>8 DEF OverviewFollows

\* The answer about a setting arrives, which App and the books take over.
LEMMA OverviewSite ==
  ASSUME NEW b, NEW ss, NEW d, NEW u, NEW k, NEW n, NEW s, OverviewFollows(b, ss, d, u, k, n, s),
         NEW a \in ss, a.ok, a.q[1] \in SiteKinds,
         NEW new, DOMAIN new = Tells(a.q), \A f \in DOMAIN new : new[f] = Setting(a, f),
         NEW b2, b2 = [b EXCEPT !.site = Altered(b.site, new)]
  PROVE  OverviewFollows(b2, ss \ {a}, d, u, k, n, Altered(s, new))
<1>1. HasFields(b, BooksFields) /\ s = b.site /\ HasFields(b.site, SiteFields)
  BY DEF OverviewFollows, SiteFollows
<1>2. /\ HasFields(b2, BooksFields)
      /\ b2.site = Altered(b.site, new)
      /\ b2.users = b.users /\ b2.counts = b.counts
      /\ b2.roles = b.roles /\ b2.spaces = b.spaces /\ b2.tables = b.tables /\ b2.permissions = b.permissions
  BY <1>1 DEF HasFields, BooksFields
<1>3. a.q[1] \notin UserKinds \cup RoleKinds \cup CountKinds
  BY DEF UserKinds, RoleKinds, SiteKinds, CountKinds
<1>4. UsersFollow(b2, ss \ {a}, d)
  BY <1>2, <1>3, UsersDrop DEF OverviewFollows
<1>6. RolesFollow(b2, ss \ {a}, d)
  BY <1>2, <1>3, RolesDrop DEF OverviewFollows
<1>7. SiteFollows(b2, ss \ {a}, d, Altered(s, new))
  <2>1. HasFields(Altered(s, new), SiteFields)
    BY <1>1 DEF Altered, HasFields
  <2>2. ASSUME NEW f \in SiteFields
        PROVE  Altered(s, new)[f] = IF f \in Tells(a.q) THEN Setting(a, f) ELSE b.site[f]
    BY <1>1 DEF Altered, HasFields
  <2>. QED  BY <1>1, <1>2, <2>1, <2>2, SiteShown DEF OverviewFollows
<1>8. SpacesFollow(b2, ss \ {a}, d, u, k, n)
  BY <1>2, <1>3, SpacesDrop DEF OverviewFollows, CountKinds
<1>. QED  BY <1>2, <1>4, <1>6, <1>7, <1>8 DEF OverviewFollows

\* The answer about a channel of the sheet arrives.
LEMMA OverviewSpaces ==
  ASSUME NEW b, NEW ss, NEW d, HasRows(d), NEW u, NEW k, NEW n, NEW s, OverviewFollows(b, ss, d, u, k, n, s),
         NEW a \in ss, a.ok, a.q[1] \in CountKinds,
         NEW count, count = IF a.q[1] = "connection" THEN a.count ELSE IF a.count = 0 THEN 0 ELSE a.count - 1,
         NEW b2, b2 = SpaceChanged(b, a.q[2], count),
         NEW m, a.held => m = count, ~a.held => m = n
  PROVE  OverviewFollows(b2, ss \ {a}, d, u, k, m, s)
<1>1. HasFields(b, BooksFields)
  BY DEF OverviewFollows
<1>2. a.q[2] \in DOMAIN b.spaces
  BY DEF OverviewFollows, SpacesFollow
<1>3. /\ HasFields(b2, BooksFields)
      /\ b2.spaces = [x \in DOMAIN b.spaces |-> IF x = a.q[2] THEN count ELSE b.spaces[x]]
      /\ b2.tables = IF b.tables + count - b.spaces[a.q[2]] < 0 THEN 0 ELSE b.tables + count - b.spaces[a.q[2]]
      /\ b2.users = b.users /\ b2.counts = b.counts
      /\ b2.roles = b.roles /\ b2.site = b.site /\ b2.permissions = b.permissions
  BY <1>1, <1>2 DEF HasFields, BooksFields, SpaceChanged
<1>4. a.q[1] \notin UserKinds \cup RoleKinds \cup SiteKinds
  BY DEF UserKinds, RoleKinds, SiteKinds, CountKinds
<1>5. UsersFollow(b2, ss \ {a}, d)
  BY <1>3, <1>4, UsersDrop DEF OverviewFollows
<1>6. RolesFollow(b2, ss \ {a}, d)
  BY <1>3, <1>4, RolesDrop DEF OverviewFollows
<1>7. SiteFollows(b2, ss \ {a}, d, s)
  BY <1>3, <1>4, SiteDrop DEF OverviewFollows
<1>8. SpacesFollow(b2, ss \ {a}, d, u, k, m)
  BY <1>3, SpacesShown DEF OverviewFollows
<1>. QED  BY <1>3, <1>5, <1>6, <1>7, <1>8 DEF OverviewFollows

\* The sheet is opened or closed, or gone.
LEMMA OverviewMoved ==
  ASSUME NEW b, NEW ss, NEW d, NEW u, NEW k, NEW n, NEW s, OverviewFollows(b, ss, d, u, k, n, s),
         NEW k2, NEW n2,
         \A a \in ss : a.q[1] \in CountKinds => ~a.held /\ k2 = Nowhere,
         k2 # Nowhere => k2 \in DOMAIN b.spaces /\ n2 = b.spaces[k2]
  PROVE  OverviewFollows(b, ss, d, u, k2, n2, s)
BY SpacesMoved DEF OverviewFollows

\* A request is sent: none is under way that could spoil its answer.
LEMMA OverviewSent ==
  ASSUME NEW b, NEW ss, NEW d, NEW u, NEW k, NEW n, NEW s, OverviewFollows(b, ss, d, u, k, n, s),
         NEW a, a.mine, a.held, ~a.ok, a.q[1] \in ConsoleKinds,
         a.q[1] \in UserKinds => Sees(b.permissions) /\ \A c \in ss : c.q[1] \in UserKinds => c.q[2] # a.q[2],
         a.q[1] \in UserKinds => \A c \in ss : c.q[1] \notin RoleKinds,
         a.q[1] \in RoleKinds => a.roles = b.roles /\ \A c \in ss : c.q[1] \notin RoleKinds \cup UserKinds,
         \A c \in ss : ~Meet(a.q, c.q),
         a.q[1] = "icon" => a.brand = b.site.name,
         a.q[1] \in CountKinds => a.q[2] = k /\ a.count = n /\ k # Nowhere /\ \A c \in ss : c.q[1] \notin CountKinds
  PROVE  OverviewFollows(b, ss \cup {a}, d, u, k, n, s)
<1>1. UsersFollow(b, ss \cup {a}, d)
  BY UsersSent DEF OverviewFollows
<1>2. RolesFollow(b, ss \cup {a}, d)
  BY RolesSent DEF OverviewFollows
<1>3. SiteFollows(b, ss \cup {a}, d, s)
  BY SiteSent DEF OverviewFollows
<1>4. SpacesFollow(b, ss \cup {a}, d, u, k, n)
  BY SpacesSent DEF OverviewFollows
<1>. QED  BY <1>1, <1>2, <1>3, <1>4 DEF OverviewFollows

\* The section of a request is left: its answer is awaited by the page alone.
LetGo(a)   == [a EXCEPT !.held = FALSE]
Unheld(ss) == {LetGo(a) : a \in ss}

\* It is the same request but for that.
LEMMA UnheldIs ==
  ASSUME NEW ss, \A a \in ss : IsKept(a), NEW c \in Unheld(ss)
  PROVE  \E a \in ss : /\ c = LetGo(a)
                       /\ IsKept(c) /\ ~c.held
                       /\ \A f \in SaveFields : f # "held" => c[f] = a[f]
<1>1. PICK a \in ss : c = LetGo(a)
  BY DEF Unheld
<1>2. IsKept(a)
  OBVIOUS
<1>3. HasFields(c, SaveFields) /\ ~c.held /\ c.held \in BOOLEAN /\ \A f \in SaveFields : f # "held" => c[f] = a[f]
  BY <1>1, <1>2 DEF IsKept, HasFields, SaveFields, LetGo
<1>4. IsKept(c)
  BY <1>2, <1>3 DEF IsKept, SaveFields
<1>. QED  BY <1>1, <1>3, <1>4

\* What is pending stays so.
LEMMA UnheldPending ==
  ASSUME NEW ss, \A a \in ss : IsKept(a), NEW kinds, NEW c \in Pending(Unheld(ss), kinds)
  PROVE  \E a \in Pending(ss, kinds) : c = LetGo(a) /\ \A f \in SaveFields : f # "held" => c[f] = a[f]
<1>1. c \in Unheld(ss) /\ c.ok /\ c.q[1] \in kinds
  BY DEF Pending
<1>2. PICK a \in ss : c = LetGo(a) /\ \A f \in SaveFields : f # "held" => c[f] = a[f]
  BY <1>1, UnheldIs
<1>3. a.ok /\ a.q[1] \in kinds
  BY <1>1, <1>2 DEF SaveFields
<1>. QED  BY <1>2, <1>3 DEF Pending

\* Its answer still edits the books.
LEMMA PendingUnheld ==
  ASSUME NEW ss, \A a \in ss : IsKept(a), NEW kinds, NEW a \in Pending(ss, kinds)
  PROVE  \E c \in Pending(Unheld(ss), kinds) : c.q = a.q /\ c.told = a.told
<1>1. a \in ss /\ a.ok /\ a.q[1] \in kinds
  BY DEF Pending
<1>. DEFINE c == LetGo(a)
<1>2. c \in Unheld(ss) /\ c.ok = a.ok /\ c.q = a.q /\ c.told = a.told
  BY <1>1 DEF Unheld, IsKept, HasFields, SaveFields, LetGo
<1>. QED  BY <1>1, <1>2 DEF Pending

\* The books do not depend on it, the sheet being gone.
LEMMA OverviewUnheld ==
  ASSUME NEW b, NEW ss, NEW d, NEW u, NEW k, NEW n, NEW s, OverviewFollows(b, ss, d, u, k, n, s),
         \A a \in ss : IsKept(a), NEW m
  PROVE  OverviewFollows(b, Unheld(ss), d, u, Nowhere, m, s)
<1>0. HasFields(b, BooksFields) /\ (\A a \in ss : a.mine /\ a.q[1] \in ConsoleKinds)
      /\ UsersFollow(b, ss, d) /\ RolesFollow(b, ss, d) /\ SiteFollows(b, ss, d, s) /\ SpacesFollow(b, ss, d, u, k, n)
  BY DEF OverviewFollows
<1>1. ASSUME NEW c \in Unheld(ss)
      PROVE  \E a \in ss : c = LetGo(a) /\ ~c.held /\ c.q = a.q /\ c.mine = a.mine /\ c.ok = a.ok
                           /\ c.told = a.told /\ c.roles = a.roles /\ c.count = a.count /\ c.brand = a.brand
  BY UnheldIs DEF SaveFields
<1>1a. ASSUME NEW x \in Unheld(ss), NEW y \in Unheld(ss)
       PROVE  \E a, c \in ss : x = LetGo(a) /\ x.q = a.q /\ x.ok = a.ok /\ y = LetGo(c) /\ y.q = c.q /\ y.ok = c.ok
  BY <1>1
<1>2. ASSUME NEW kinds, NEW c \in Pending(Unheld(ss), kinds)
      PROVE  \E a \in Pending(ss, kinds) : c.q = a.q /\ c.told = a.told /\ c.roles = a.roles /\ c.count = a.count /\ c.brand = a.brand
  BY UnheldPending DEF SaveFields
<1>3. ASSUME NEW kinds, NEW a \in Pending(ss, kinds)
      PROVE  \E c \in Pending(Unheld(ss), kinds) : c.q = a.q /\ c.told = a.told
  BY PendingUnheld
<1>4. \A c \in Unheld(ss) : c.mine /\ c.q[1] \in ConsoleKinds
  BY <1>0, <1>1
<1>5. UsersFollow(b, Unheld(ss), d)
  <2>1. ~Sees(b.permissions) => DOMAIN b.users = {} /\ \A a \in Unheld(ss) : a.q[1] \notin UserKinds
    BY <1>0, <1>1 DEF UsersFollow
  <2>2. \A a, c \in Unheld(ss) : a.q[1] \in UserKinds /\ c.q[1] \in UserKinds /\ a.q[2] = c.q[2] => a = c
    BY <1>0, <1>1a DEF UsersFollow
  <2>3. \A c \in Pending(Unheld(ss), UserKinds) : AccountTold(c, d)
    BY <1>0, <1>2 DEF UsersFollow, AccountTold
  <2>4. ASSUME Sees(b.permissions), NEW x, \A c \in Pending(Unheld(ss), UserKinds) : c.q[2] # x
        PROVE  AgreeOn(x, b.users, d.users)
    <3>1. \A a \in Pending(ss, UserKinds) : a.q[2] # x
      BY <2>4, <1>3
    <3>. QED  BY <3>1, <2>4, <1>0 DEF UsersFollow
  <2>. QED  BY <1>0, <2>1, <2>2, <2>3, <2>4 DEF UsersFollow
<1>6. RolesFollow(b, Unheld(ss), d)
  <2>1. ASSUME NEW c \in Unheld(ss), c.q[1] \in RoleKinds
        PROVE  c.roles = b.roles /\ \A e \in Unheld(ss) : e.q[1] \in RoleKinds \cup UserKinds => e = c
    <3>1. PICK a \in ss : c = LetGo(a) /\ c.q = a.q /\ c.roles = a.roles
      BY <1>1
    <3>2. a.roles = b.roles /\ \A e \in ss : e.q[1] \in RoleKinds \cup UserKinds => e = a
      BY <2>1, <3>1, <1>0 DEF RolesFollow
    <3>3. ASSUME NEW e \in Unheld(ss), e.q[1] \in RoleKinds \cup UserKinds  PROVE e = c
      <4>1. PICK x \in ss : e = LetGo(x) /\ e.q = x.q
        BY <1>1
      <4>. QED  BY <3>1, <3>2, <3>3, <4>1
    <3>. QED  BY <3>1, <3>2, <3>3
  <2>2. Pending(Unheld(ss), RoleKinds) = {} => RolesMatch(b.roles, d)
    BY <1>0, <1>3 DEF RolesFollow
  <2>3. \A c \in Pending(Unheld(ss), RoleKinds) : RoleTold(c, b.roles, d)
    <3>1. TAKE c \in Pending(Unheld(ss), RoleKinds)
    <3>2. PICK a \in Pending(ss, RoleKinds) : c.q = a.q /\ c.told = a.told
      BY <1>2
    <3>3. RoleTold(a, b.roles, d)
      BY <1>0 DEF RolesFollow
    <3>. QED  BY <3>2, <3>3 DEF RoleTold, RolesAfter
  <2>. QED  BY <1>0, <2>1, <2>2, <2>3 DEF RolesFollow
<1>7. SiteFollows(b, Unheld(ss), d, s)
  <2>1. \A a, c \in Unheld(ss) : Meet(a.q, c.q) => a = c
    BY <1>0, <1>1a DEF SiteFollows
  <2>2. \A c \in Unheld(ss) : c.q[1] = "icon" => c.brand = b.site.name
    BY <1>0, <1>1 DEF SiteFollows
  <2>3. ASSUME NEW f \in SiteFields, \A c \in Pending(Unheld(ss), SiteKinds) : f \notin Tells(c.q)
        PROVE  d.site[f] = b.site[f]
    <3>1. \A a \in Pending(ss, SiteKinds) : f \notin Tells(a.q)
      BY <2>3, <1>3
    <3>. QED  BY <3>1, <1>0 DEF SiteFollows
  <2>4. ASSUME NEW c \in Pending(Unheld(ss), SiteKinds), NEW f \in Tells(c.q)
        PROVE  d.site[f] = Setting(c, f)
    <3>1. PICK a \in Pending(ss, SiteKinds) : c.q = a.q /\ c.told = a.told /\ c.brand = a.brand
      BY <1>2
    <3>2. d.site[f] = Setting(a, f)
      BY <3>1, <1>0 DEF SiteFollows
    <3>. QED  BY <3>1, <3>2 DEF Setting
  <2>. QED  BY <1>0, <2>1, <2>2, <2>3, <2>4 DEF SiteFollows
<1>8. SpacesFollow(b, Unheld(ss), d, u, Nowhere, m)
  <2>1. \A a, c \in Unheld(ss) : a.q[1] \in CountKinds /\ c.q[1] \in CountKinds => a = c
    BY <1>0, <1>1a DEF SpacesFollow
  <2>2. \A c \in Unheld(ss) : c.q[1] \in CountKinds =>
          c.q[2] \in DOMAIN b.spaces /\ c.count = b.spaces[c.q[2]] /\ ~c.held
    BY <1>0, <1>1 DEF SpacesFollow
  <2>3. \A x : Extra(Unheld(ss), x) = Extra(ss, x)
    BY <1>2, <1>3 DEF Extra
  <2>. QED  BY <1>0, <2>1, <2>2, <2>3 DEF SpacesFollow
<1>. QED  BY <1>0, <1>4, <1>5, <1>6, <1>7, <1>8 DEF OverviewFollows

-----------------------------------------------------------------------------
(* App is rendered again *)

\* A component that appears shows nothing yet that could be trusted.
LEMMA MountedUntold ==
  ASSUME NEW v \in BookViews, NEW key, NEW sel
  PROVE  /\ Mounted(v, key, sel).shown = Nowhere /\ Mounted(v, key, sel).count = 0
         /\ Mounted(v, key, sel).asked = key
         /\ v = "overview" => ~Loaded(Mounted(v, Everything, sel))
         /\ v = "detail" => \A p, books : FirstKey(v, p, books) = Nowhere
BY KeysAssumption DEF Mounted, BookViews, Loaded, FirstKey

\* What is trusted after it was trusted before, on the same page, and shows the same.
LEMMA ShowKeeps ==
  ASSUME NEW u, NEW p, NEW sel, NEW vs, NEW rs, NEW ss, Show(u, p, sel, vs, rs, ss)
  PROVE  /\ \A v \in BookViews : Trusted(views', v) =>
              SamePage /\ Trusted(vs, v) /\ views'[v] = vs[v] /\ (v = "detail" => SameSection)
         /\ "overview" \in DOMAIN views' /\ Loaded(views'["overview"]) =>
              SamePage /\ "overview" \in DOMAIN vs /\ views'["overview"] = vs["overview"]
         /\ SamePage => ScreenNow' = ScreenNow
<1>. DEFINE same == SamePage
            section == SameSection
            screen == Screen(u, path', sel)
            Stay(v)  == StaysOn(v, same, section, vs)
            overview == IF Stay("overview") THEN vs["overview"] ELSE Mounted("overview", Everything, selected')
            New(v)   == Mounted(v, FirstKey(v, path', overview.content), selected')
            names == NamesOf(screen, path', overview)
<1>0. Remounts(screen, same, section, vs, rs, ss) /\ ScreenNow' = screen
  BY DEF Show, ScreenNow
<1>1. views' = [v \in names |-> IF Stay(v) THEN vs[v] ELSE New(v)]
  BY <1>0, Zenon DEF Remounts, StaysOn, NamesOf
<1>2. same => screen = ScreenNow
  BY <1>0 DEF SamePage, ScreenNow
<1>3. section => same
  BY DEF SameSection
<1>. HIDE DEF same, section, screen, names
<1>4. ASSUME NEW v, Stay(v)  PROVE same /\ v \in DOMAIN vs /\ (v \in SectionViews => section)
  BY <1>3, <1>4 DEF StaysOn
<1>5. ASSUME NEW v \in BookViews, Trusted(views', v)
      PROVE  same /\ Trusted(vs, v) /\ views'[v] = vs[v] /\ (v = "detail" => section)
  <2>1. v \in names /\ views'[v].clean /\ views'[v].shown # Nowhere
    BY <1>1, <1>5 DEF Trusted
  <2>2. Stay(v)
    <3>1. SUFFICES ASSUME ~Stay(v)  PROVE FALSE
      OBVIOUS
    <3>2. views'[v] = New(v)
      BY <2>1, <3>1, <1>1
    <3>. QED  BY <2>1, <3>2, MountedUntold
  <2>3. views'[v] = vs[v]
    BY <2>1, <2>2, <1>1
  <2>. QED  BY <2>1, <2>2, <2>3, <1>4 DEF Trusted, SectionViews
<1>6. ASSUME "overview" \in DOMAIN views', Loaded(views'["overview"])
      PROVE  same /\ "overview" \in DOMAIN vs /\ views'["overview"] = vs["overview"]
  <2>1. "overview" \in names
    BY <1>1, <1>6
  <2>2. Stay("overview")
    <3>1. SUFFICES ASSUME ~Stay("overview")  PROVE FALSE
      OBVIOUS
    <3>2. views'["overview"] = Mounted("overview", Everything, selected')
      BY <2>1, <3>1, <1>1, MountedRight
    <3>. QED  BY <1>6, <3>2, MountedUntold DEF BookViews
  <2>. QED  BY <2>1, <2>2, <1>1, <1>4
<1>. QED  BY <1>0, <1>2, <1>5, <1>6 DEF same, section

\* The requests in flight after it.
LEMMA ShowSaved ==
  ASSUME NEW u, NEW p, NEW sel, NEW vs, NEW rs, NEW ss, Show(u, p, sel, vs, rs, ss), \A a \in ss : IsKept(a)
  PROVE  /\ SameSection => saves' = ss
         /\ SamePage /\ ~SameSection => saves' = Unheld(ss)
         /\ ss = {} => saves' = {}
         /\ \A a \in saves' : IsKept(a)
<1>. DEFINE After(a) == [a EXCEPT !.mine = a.mine /\ SamePage, !.held = a.held /\ SameSection]
<1>1. saves' = {After(a) : a \in ss}
  BY Zenon DEF Show, Remounts
<1>2. SamePage \in BOOLEAN /\ SameSection \in BOOLEAN /\ (SameSection => SamePage)
  BY DEF SamePage, SameSection
<1>3. ASSUME NEW a \in ss
      PROVE  /\ IsKept(After(a))
             /\ SameSection => After(a) = a
             /\ SamePage /\ ~SameSection => After(a) = LetGo(a)
  <2>. DEFINE m == a.mine /\ SamePage
              h == a.held /\ SameSection
              x == [a EXCEPT !.mine = m, !.held = h]
  <2>1. /\ HasFields(a, SaveFields) /\ a.mine \in BOOLEAN /\ a.held \in BOOLEAN /\ a.ok \in BOOLEAN
        /\ a.ok => a.phase = "answered"
        /\ a.q[1] = "user_new" => a.q[2] \in Users
    BY DEF IsKept
  <2>2. /\ m \in BOOLEAN /\ h \in BOOLEAN
        /\ SameSection => (m <=> a.mine) /\ (h <=> a.held)
        /\ SamePage /\ ~SameSection => (m <=> a.mine) /\ (h <=> FALSE)
    BY <1>2, <2>1
  <2>3. After(a) = x
    OBVIOUS
  <2>. HIDE DEF m, h
  <2>4. HasFields(x, SaveFields) /\ x.mine = m /\ x.held = h /\ x.ok = a.ok /\ x.phase = a.phase /\ x.q = a.q
    BY <2>1 DEF HasFields, SaveFields
  <2>5. IsKept(x)
    BY <2>1, <2>2, <2>4 DEF IsKept
  <2>6. SameSection => x = a
    <3>1. SUFFICES ASSUME SameSection  PROVE x = a
      OBVIOUS
    <3>2. m = a.mine /\ h = a.held
      BY <3>1, <2>1, <2>2
    <3>. QED  BY <3>2, <2>1 DEF HasFields, SaveFields
  <2>7. SamePage /\ ~SameSection => x = LetGo(a)
    <3>1. SUFFICES ASSUME SamePage, ~SameSection  PROVE x = LetGo(a)
      OBVIOUS
    <3>2. m = a.mine /\ h = FALSE
      BY <3>1, <2>1, <2>2
    <3>. QED  BY <3>2, <2>1 DEF HasFields, SaveFields, LetGo
  <2>. QED  BY <2>3, <2>5, <2>6, <2>7
<1>. HIDE DEF After
<1>4. SameSection => saves' = ss
  BY <1>1, <1>3
<1>5. SamePage /\ ~SameSection => saves' = Unheld(ss)
  BY <1>1, <1>3 DEF Unheld
<1>. QED  BY <1>1, <1>3, <1>4, <1>5

\* The reads in flight after it: the old ones, those that are late now, and new ones.
LEMMA ShowReads ==
  ASSUME NEW u, NEW p, NEW sel, NEW vs, NEW rs, NEW ss, Show(u, p, sel, vs, rs, ss), NEW r \in reads'
  PROVE  \/ SamePage /\ r \in rs
         \/ \E x \in rs : r = [x EXCEPT !.current = FALSE]
         \/ \E v, key : r = Read(v, key)
<1>. DEFINE screen == Screen(u, path', sel)
            Stay(v)  == StaysOn(v, SamePage, SameSection, vs)
            overview == IF Stay("overview") THEN vs["overview"] ELSE Mounted("overview", Everything, selected')
            names == NamesOf(screen, path', overview)
            kept  == {x \in rs : Stay(x.view)}
            late  == {[x EXCEPT !.current = FALSE] : x \in {y \in rs \ kept : Matters(y)}}
            fresh == {Read(v, views'[v].asked) : v \in {w \in names : ~Stay(w) /\ views'[w].asked # Nowhere}}
<1>0. Remounts(screen, SamePage, SameSection, vs, rs, ss)
  BY DEF Show
<1>1. reads' = kept \cup late \cup fresh
  BY <1>0, Zenon DEF Remounts, StaysOn, NamesOf
<1>2. r \in kept \/ r \in late \/ r \in fresh
  BY <1>1
<1>3. r \in kept => SamePage /\ r \in rs
  BY DEF StaysOn, SameSection
<1>. QED  BY <1>2, <1>3

\* The sheet stays as it is in its section, and is closed in another one.
LEMMA ShowSheet ==
  ASSUME NEW u, NEW p, NEW sel, NEW vs, NEW rs, NEW ss, Show(u, p, sel, vs, rs, ss), SamePage,
         DOMAIN vs \subseteq NamesOf(ScreenNow, path, vs["overview"]),
         FirstViews(ScreenNow) \subseteq DOMAIN vs
  PROVE  /\ SameSection => SheetKey(views') = SheetKey(vs) /\ SheetCount(views') = SheetCount(vs)
         /\ ~SameSection => SheetKey(views') = Nowhere
<1>. DEFINE same == SamePage
            section == SameSection
            screen == Screen(u, path', sel)
            Stay(v)  == StaysOn(v, same, section, vs)
            overview == IF Stay("overview") THEN vs["overview"] ELSE Mounted("overview", Everything, selected')
            New(v)   == Mounted(v, FirstKey(v, path', overview.content), selected')
            names == NamesOf(screen, path', overview)
<1>0. Remounts(screen, same, section, vs, rs, ss) /\ ScreenNow' = screen
  BY DEF Show, ScreenNow
<1>1. views' = [v \in names |-> IF Stay(v) THEN vs[v] ELSE New(v)]
  BY <1>0, Zenon DEF Remounts, StaysOn, NamesOf
<1>2. same /\ screen = ScreenNow
  BY <1>0 DEF SamePage, ScreenNow
<1>3. section => SectionOf(path') = SectionOf(path)
  BY DEF SameSection
<1>. HIDE DEF same, section, screen, names, New
<1>4. "detail" \in SectionViews /\ "overview" \notin SectionViews /\ "detail" \in BookViews
  BY DEF SectionViews, BookViews
<1>5. Stay("detail") <=> "detail" \in DOMAIN vs /\ section
  BY <1>2, <1>4 DEF StaysOn
<1>6. \A v : Mounted(v, Nowhere, selected').asked = Nowhere /\ Mounted(v, Nowhere, selected').count = 0
  BY DEF Mounted
<1>7. New("detail").asked = Nowhere /\ New("detail").count = 0
  <2>1. FirstKey("detail", path', overview.content) = Nowhere
    BY DEF FirstKey
  <2>. QED  BY <2>1, <1>6 DEF New
<1>8. ASSUME section, "detail" \in DOMAIN vs  PROVE "detail" \in names
  <2>1. screen = "console" /\ "detail" \in ConsoleViews(path, vs["overview"])
    BY <1>8, <1>2, NamedViews DEF NamesOf
  <2>2. ConsoleViews(path', vs["overview"]) = ConsoleViews(path, vs["overview"])
    BY <1>3, <1>8 DEF ConsoleViews, SectionOf
  <2>3. overview = vs["overview"]
    BY <2>1, <1>2, <1>4, NamedViews DEF StaysOn
  <2>. QED  BY <2>1, <2>2, <2>3 DEF names, NamesOf
<1>9. section => SheetKey(views') = SheetKey(vs) /\ SheetCount(views') = SheetCount(vs)
  BY <1>1, <1>5, <1>7, <1>8 DEF SheetKey, SheetCount
<1>10. ~section => SheetKey(views') = Nowhere
  BY <1>1, <1>5, <1>7 DEF SheetKey
<1>. QED  BY <1>9, <1>10 DEF section

\* Outside the console there are no sections.
LEMMA NoSections ==
  ASSUME NEW u, NEW p, NEW sel, Screen(u, p, sel) \in {"room", "settings", "bindings"}
  PROVE  SectionOf(p) = "none"
<1>1. ParseRoute(p).page \in {"channel", "settings", "account_bindings"} \cup {ParseRoute(p).page}
  OBVIOUS
<1>2. ParseRoute(p).page # "admin"
  BY DEF Screen, ScreenAt
<1>. QED  BY <1>2 DEF ParseRoute, SectionOf, At, AtChannel, AtSection

\* Which page a view of these stands on.
LEMMA BookPlaces ==
  ASSUME NEW screen, NEW v \in BookViews, NEW p, NEW overview, v \in NamesOf(screen, p, overview)
  PROVE  /\ v = "keys" => screen = "settings"
         /\ v = "bindings" => screen = "bindings"
         /\ v = "tables" => screen = "room"
         /\ v \in {"detail", "overview"} => screen = "console"
BY DEF NamesOf, FirstViews, ConsoleViews, BookViews

\* What a page would have to show after App was rendered again, for the books to
\* be right still.
LEMMA ShowFollows ==
  ASSUME NEW u, NEW p, NEW sel, NEW vs, NEW rs, NEW ss, Show(u, p, sel, vs, rs, ss),
         \A a \in ss : IsKept(a), NEW d, NEW me, NEW s,
         SamePage => /\ Follows(vs, ss, d, me, ChannelOf(path), s)
                     /\ DOMAIN vs \subseteq NamesOf(ScreenNow, path, vs["overview"])
                     /\ FirstViews(ScreenNow) \subseteq DOMAIN vs,
         sel = selected \/ ScreenNow # "room" \/ sel.id = ChannelOf(path) \/ ~Trusted(vs, "tables")
  PROVE  Follows(views', saves', d, me, ChannelOf(path'), s)
<1>1. SUFFICES ASSUME NEW v \in BookViews, Trusted(views', v)
               PROVE  me \in DOMAIN d.users /\ ViewFollows(v, views', saves', d, me, ChannelOf(path'), s)
  BY DEF Follows
<1>2. SamePage /\ Trusted(vs, v) /\ views'[v] = vs[v] /\ (v = "detail" => SameSection) /\ ScreenNow' = ScreenNow
  BY <1>1, ShowKeeps
<1>3. me \in DOMAIN d.users /\ ViewFollows(v, vs, ss, d, me, ChannelOf(path), s)
  BY <1>1, <1>2 DEF Follows
<1>4. v \in NamesOf(ScreenNow, path, vs["overview"])
  BY <1>2 DEF Trusted
<1>5. (SameSection => saves' = ss) /\ (~SameSection => saves' = Unheld(ss))
  BY <1>2, ShowSaved
<1>6. ASSUME ScreenNow \in {"room", "settings", "bindings"}  PROVE SameSection /\ saves' = ss
  <2>1. SectionOf(path) = "none" /\ SectionOf(path') = "none"
    BY <1>2, <1>6, NoSections DEF ScreenNow
  <2>. QED  BY <2>1, <1>2, <1>5 DEF SameSection
<1>7. CASE v \in {"keys", "bindings"}
  <2>1. saves' = ss
    BY <1>4, <1>6, <1>7, BookPlaces
  <2>. QED  BY <1>2, <1>3, <1>7, <2>1 DEF ViewFollows
<1>8. CASE v = "tables"
  <2>1. ScreenNow = "room" /\ saves' = ss
    BY <1>4, <1>6, <1>8, BookPlaces
  <2>2. Screen(u, path', sel) = "room"
    BY <1>2, <2>1 DEF Show, ScreenNow
  <2>3. sel.id = ChannelOf(path') /\ selected.id = ChannelOf(path)
    BY <2>1, <2>2, InRoomSelected DEF ScreenNow
  <2>4. ChannelOf(path') = ChannelOf(path)
    BY <1>2, <1>8, <2>1, <2>3
  <2>. QED  BY <1>2, <1>3, <1>8, <2>1, <2>4 DEF ViewFollows
<1>9. CASE v = "detail"
  <2>1. saves' = ss
    BY <1>2, <1>5, <1>9
  <2>. QED  BY <1>2, <1>3, <1>9, <2>1 DEF ViewFollows
<1>10. CASE v = "overview"
  <2>. DEFINE b == vs["overview"].content
  <2>1. OverviewFollows(b, ss, d, me, SheetKey(vs), SheetCount(vs), s) /\ views'["overview"].content = b
    BY <1>2, <1>3, <1>10 DEF ViewFollows
  <2>. HIDE DEF b
  <2>2. /\ SameSection => SheetKey(views') = SheetKey(vs) /\ SheetCount(views') = SheetCount(vs)
        /\ ~SameSection => SheetKey(views') = Nowhere
    BY <1>2, ShowSheet
  <2>3. OverviewFollows(b, saves', d, me, SheetKey(views'), SheetCount(views'), s)
    <3>1. CASE SameSection
      BY <3>1, <2>1, <2>2, <1>5
    <3>2. CASE ~SameSection
      <4>1. OverviewFollows(b, Unheld(ss), d, me, Nowhere, SheetCount(views'), s)
        BY <2>1, OverviewUnheld
      <4>. QED  BY <3>2, <4>1, <2>2, <1>5
    <3>. QED  BY <3>1, <3>2
  <2>. QED  BY <1>3, <1>10, <2>1, <2>3 DEF ViewFollows
<1>. QED  BY <1>7, <1>8, <1>9, <1>10 DEF BookViews

\* A read that is late now, or new, claims no more than before.
LEMMA ReadKeeps ==
  ASSUME NEW ss, NEW d, NEW u
  PROVE  /\ \A r, w : IsRead(r) /\ ReadFollows(r, ss, d, w) => ReadFollows([r EXCEPT !.current = FALSE], ss, d, u)
         /\ \A v, key : ReadFollows(Read(v, key), ss, d, u)
<1>1. ASSUME NEW r, NEW w, IsRead(r), ReadFollows(r, ss, d, w)
      PROVE  ReadFollows([r EXCEPT !.current = FALSE], ss, d, u)
  <2>. DEFINE x == [r EXCEPT !.current = FALSE]
  <2>1. /\ x.ok = r.ok /\ x.phase = r.phase /\ x.view = r.view /\ x.key = r.key
        /\ x.answer = r.answer /\ x.pure = r.pure /\ ~x.current
    BY <1>1 DEF IsRead, HasFields, ReadFields
  <2>. HIDE DEF x
  <2>2. ReadFollows(x, ss, d, u)
    BY <1>1, <2>1 DEF ReadFollows
  <2>. QED  BY <2>2 DEF x
<1>2. ASSUME NEW v, NEW key  PROVE ReadFollows(Read(v, key), ss, d, u)
  BY DEF Read, ReadFollows
<1>. QED  BY <1>1, <1>2

\* App is rendered again: it is enough to look at what the page shows.
LEMMA ShowBooks ==
  ASSUME NEW u, NEW p, NEW sel, NEW vs, NEW rs, NEW ss, Show(u, p, sel, vs, rs, ss),
         HasRows(db'),
         \A a \in ss : IsKept(a),
         \A r \in rs : IsRead(r) /\ \E w : ReadFollows(r, ss, db', w),
         SamePage => /\ \A r \in rs : ReadFollows(r, ss, db', session')
                     /\ Follows(vs, ss, db', session', ChannelOf(path), site')
                     /\ KnownSpaces(vs)
                     /\ DOMAIN vs \subseteq NamesOf(ScreenNow, path, vs["overview"])
                     /\ FirstViews(ScreenNow) \subseteq DOMAIN vs,
         sel = selected \/ ScreenNow # "room" \/ sel.id = ChannelOf(path) \/ ~Trusted(vs, "tables")
  PROVE  BooksInv'
<1>1. /\ \A a \in saves' : IsKept(a)
      /\ ss = {} => saves' = {}
  BY ShowSaved
<1>2. Follows(views', saves', db', session', ChannelOf(path'), site')
  BY ShowFollows
<1>3. KnownSpaces(views')
  BY ShowKeeps DEF KnownSpaces
<1>4. ASSUME NEW r \in reads'  PROVE ReadFollows(r, saves', db', session')
  <2>1. ReadFollows(r, ss, db', session')
    <3>1. CASE SamePage /\ r \in rs
      BY <3>1
    <3>2. CASE \E x \in rs : r = [x EXCEPT !.current = FALSE]
      BY <3>2, ReadKeeps
    <3>3. CASE \E v, key : r = Read(v, key)
      BY <3>3, ReadKeeps
    <3>. QED  BY <3>1, <3>2, <3>3, ShowReads
  <2>. QED  BY <2>1, <1>1 DEF ReadFollows
<1>. QED  BY <1>1, <1>2, <1>3, <1>4 DEF BooksInv

-----------------------------------------------------------------------------
(* The page's copy, as a whole *)

\* A view that shows the same follows as well.
LEMMA ViewLike ==
  ASSUME NEW vs, NEW ss, NEW d, NEW u, NEW c, NEW s, NEW v \in BookViews, ViewFollows(v, vs, ss, d, u, c, s), NEW vs2,
         vs2[v].content = vs[v].content, vs2[v].shown = vs[v].shown,
         v = "overview" => SheetKey(vs2) = SheetKey(vs) /\ SheetCount(vs2) = SheetCount(vs)
  PROVE  ViewFollows(v, vs2, ss, d, u, c, s)
<1>3. CASE v = "keys"
  BY <1>3 DEF ViewFollows, KeysFollow
<1>4. CASE v = "bindings"
  BY <1>4 DEF ViewFollows, BindingsFollow
<1>5. CASE v = "tables"
  BY <1>5 DEF ViewFollows, TablesFollow
<1>6. CASE v = "detail"
  BY <1>6 DEF ViewFollows, SheetFollows
<1>7. CASE v = "overview"
  BY <1>7 DEF ViewFollows
<1>. QED  BY <1>3, <1>4, <1>5, <1>6, <1>7 DEF BookViews

\* So do views that do.
LEMMA FollowsLike ==
  ASSUME NEW vs, NEW ss, NEW d, NEW u, NEW c, NEW s, Follows(vs, ss, d, u, c, s), NEW vs2,
         \A v \in BookViews : Trusted(vs2, v) =>
           Trusted(vs, v) /\ vs2[v].content = vs[v].content /\ vs2[v].shown = vs[v].shown,
         Trusted(vs2, "overview") => SheetKey(vs2) = SheetKey(vs) /\ SheetCount(vs2) = SheetCount(vs)
  PROVE  Follows(vs2, ss, d, u, c, s)
BY ViewLike DEF Follows

\* App's settings matter to the books alone.
LEMMA FollowsElse ==
  ASSUME NEW vs, NEW ss, NEW d, NEW u, NEW c, NEW s, Follows(vs, ss, d, u, c, s), ~Trusted(vs, "overview"), NEW s2
  PROVE  Follows(vs, ss, d, u, c, s2)
BY DEF Follows, ViewFollows, BookViews

\* What is held for out of date claims nothing.
LEMMA FollowsSoiled ==
  ASSUME NEW vs, NEW ss, NEW d, NEW u, NEW c, NEW s, \A v \in DOMAIN vs : IsView(vs[v])
  PROVE  Follows(Soiled(vs), ss, d, u, c, s)
<1>1. ASSUME NEW v \in DOMAIN vs  PROVE ~Soiled(vs)[v].clean
  BY DEF Soiled, IsView, HasFields, ViewFields
<1>2. DOMAIN Soiled(vs) = DOMAIN vs
  BY DEF Soiled
<1>. QED  BY <1>1, <1>2 DEF Follows, Trusted

\* The user stays while the server handles a request of his.
LEMMA UserStays ==
  ASSUME NEW d, IsDatabase(d), NEW u, u \in DOMAIN d.users, NEW a, NEW a2, NEW d2, Serves(a, a2, d, d2, u)
  PROVE  u \in DOMAIN d2.users
<1>1. CASE ~a2.ok
  BY <1>1 DEF Serves
<1>2. CASE a2.ok
  <2>1. Permitted(d, u, a.q) /\ Accepted(d, u, a.q) /\ d2 = Applied(d, u, a.q)
    BY <1>2 DEF Serves
  <2>2. CASE a.q[1] \in UserKinds
    BY <2>1, <2>2, AppliedUsers
  <2>3. CASE a.q[1] = "join"
    BY <2>1, <2>3, AppliedElse
  <2>4. CASE a.q[1] \notin UserKinds \cup {"join"}
    BY <2>1, <2>4, AppliedKeeps
  <2>. QED  BY <2>2, <2>3, <2>4
<1>. QED  BY <1>1, <1>2

\* The server handles a request.
LEMMA FollowsServed ==
  ASSUME NEW vs, NEW ss, NEW d, NEW u, NEW c, NEW s, Follows(vs, ss, d, u, c, s),
         IsDatabase(d), HasRows(d),
         NEW a \in ss, NEW a2, NEW d2, Serves(a, a2, d, d2, u), IsDatabase(d2)
  PROVE  Follows(vs, Answered(ss, a, a2), d2, u, c, s)
<1>1. SUFFICES ASSUME NEW v \in BookViews, Trusted(vs, v)
               PROVE  u \in DOMAIN d2.users /\ ViewFollows(v, vs, Answered(ss, a, a2), d2, u, c, s)
  BY DEF Follows
<1>2. u \in DOMAIN d.users /\ ViewFollows(v, vs, ss, d, u, c, s)
  BY <1>1 DEF Follows
<1>3. u \in DOMAIN d2.users
  BY <1>2, UserStays
<1>4. CASE v = "keys"
  BY <1>2, <1>3, <1>4, KeysServed DEF ViewFollows
<1>5. CASE v = "bindings"
  BY <1>2, <1>3, <1>5, BindingsServed DEF ViewFollows
<1>6. CASE v = "tables"
  BY <1>2, <1>3, <1>6, TablesServed DEF ViewFollows
<1>7. CASE v = "detail"
  BY <1>2, <1>3, <1>7, SheetServed DEF ViewFollows
<1>8. CASE v = "overview"
  BY <1>2, <1>3, <1>8, OverviewServed DEF ViewFollows
<1>. QED  BY <1>4, <1>5, <1>6, <1>7, <1>8 DEF BookViews

\* A request the view is not about, or has not been told to have gone through.
Harmless(v, a) ==
  \/ ~a.ok
  \/ v = "keys" /\ a.q[1] \notin KeyKinds
  \/ v = "tables" /\ a.q[1] \notin {"table_new", "table_delete"}
  \/ v = "detail" /\ a.q[1] # "table_delete"
  \/ v = "overview" /\ a.q[1] \notin BookKinds

\* Such a request may go.
LEMMA ViewDrop ==
  ASSUME NEW v \in BookViews, NEW vs, NEW ss, NEW d, NEW u, NEW c, NEW s, ViewFollows(v, vs, ss, d, u, c, s),
         NEW a \in ss, Harmless(v, a)
  PROVE  ViewFollows(v, vs, ss \ {a}, d, u, c, s)
<1>1. CASE v = "keys"
  BY <1>1, KeysDrop DEF ViewFollows, Harmless
<1>2. CASE v = "bindings"
  BY <1>2, BindingsDrop DEF ViewFollows, Harmless
<1>3. CASE v = "tables"
  BY <1>3, TablesDrop DEF ViewFollows, Harmless
<1>4. CASE v = "detail"
  BY <1>4, SheetDrop DEF ViewFollows, Harmless
<1>5. CASE v = "overview"
  BY <1>5, OverviewDrop DEF ViewFollows, Harmless
<1>. QED  BY <1>1, <1>2, <1>3, <1>4, <1>5 DEF BookViews

\* A request goes that changes nothing that is shown.
LEMMA FollowsDrop ==
  ASSUME NEW vs, NEW ss, NEW d, NEW u, NEW c, NEW s, Follows(vs, ss, d, u, c, s), NEW a \in ss,
         \A v \in BookViews : Trusted(vs, v) => Harmless(v, a)
  PROVE  Follows(vs, ss \ {a}, d, u, c, s)
BY ViewDrop DEF Follows

-----------------------------------------------------------------------------
(* What the server has just told *)

\* The key just told.
LEMMA FreshKeys ==
  ASSUME NEW d, HasRows(d), NEW u, u \in DOMAIN d.users, NEW w, w.content = Tell(d, u, "keys", w.shown)
  PROVE  KeysFollow(w, {}, d, u)
<1>1. w.content = d.mcp[u] /\ u \in Users
  BY DEF Tell, HasRows
<1>2. HasFields(d.mcp[u], {"exists", "enabled"})
  BY <1>1 DEF HasRows
<1>. QED  BY <1>1, <1>2 DEF KeysFollow

\* The accounts just told.
LEMMA FreshBindings ==
  ASSUME NEW d, HasRows(d), NEW u, u \in DOMAIN d.users, NEW w, w.content = Tell(d, u, "bindings", w.shown)
  PROVE  BindingsFollow(w, {}, d, u)
<1>1. w.content = [s \in d.users[u].joined |-> s \in d.bound[u]]
  BY DEF Tell
<1>. DEFINE in(s) == s \in d.bound[u]
<1>2. w.content = [s \in d.users[u].joined |-> in(s)] /\ \A s : in(s) \in BOOLEAN /\ (in(s) <=> s \in d.bound[u])
  BY <1>1
<1>. HIDE DEF in
<1>3. DOMAIN w.content = d.users[u].joined /\ \A s \in d.users[u].joined : w.content[s] = in(s)
  BY <1>2
<1>4. HasFields(w.content, d.users[u].joined)
  BY <1>2 DEF HasFields
<1>. QED  BY <1>2, <1>3, <1>4 DEF BindingsFollow

\* The tables just told, of the channel page and of the sheet.
LEMMA FreshRows ==
  ASSUME NEW d, HasRows(d), NEW u, NEW v \in {"tables", "detail"}, NEW w, w.shown \in Spaces,
         w.content = Tell(d, u, v, w.shown)
  PROVE  /\ TablesFollow(w, {}, d, w.shown)
         /\ SheetFollows(w, {}, d)
<1>1. w.content = [t \in d.tables[w.shown] |-> 1]
  BY DEF Tell
<1>2. DOMAIN w.content = d.tables[w.shown] /\ Rows(w.content)
  BY <1>1 DEF Rows
<1>3. d.tables[w.shown] \subseteq Made(d)
  BY DEF HasRows
<1>4. {a.told[2] : a \in NewIn({})} = {} /\ Deleted({}) = {} /\ NewIn({}) = {}
  BY DEF NewIn, Deleted
<1>5. d.tables[w.shown] = (DOMAIN w.content \cup {a.told[2] : a \in NewIn({})}) \ Deleted({})
  BY <1>2, <1>4
<1>6. d.tables[w.shown] = DOMAIN w.content \ Deleted({})
  BY <1>2, <1>4
<1>. QED  BY <1>2, <1>3, <1>4, <1>5, <1>6 DEF TablesFollow, SheetFollows

\* The books just told.
LEMMA FreshOverview ==
  ASSUME NEW d, IsDatabase(d), HasRows(d), NEW u, u \in DOMAIN d.users, NEW n,
         NEW b, b = Overview(d, u)
  PROVE  OverviewFollows(b, {}, d, u, Nowhere, n, d.site)
<1>. DEFINE rights == PermissionsForUser(d, u)
            told == IF rights \cap {"users:read", "users:manage"} = {} THEN {} ELSE DOMAIN d.users
            us == [x \in told |-> d.users[x]]
            count == [s \in AdminSpaces(d, u) |-> Cardinality(d.tables[s])]
            roles == [key \in DOMAIN d.roles |->
                        [permissions |-> d.roles[key], user_count |-> UsersWith(d.users, key)]]
            total == MapThenSumSet(LAMBDA s : count[s], DOMAIN count)
<1>1. b = [users |-> us, counts |-> CountsOf(us), spaces |-> count, tables |-> total,
           permissions |-> rights, roles |-> roles, site |-> d.site]
  BY Zenon DEF Overview
<1>2. total = SumOf(count, DOMAIN count)
  BY Zenon DEF SumOf
<1>3. HasFields(d.users, DOMAIN d.users) /\ \A x \in DOMAIN d.users : HasFields(d.users[x], AccountFields)
  BY DEF IsDatabase, IsAccount, AccountFields
<1>4. us = [x \in told |-> d.users[x]] /\ told = IF Sees(rights) THEN DOMAIN d.users ELSE {}
  BY DEF Sees
<1>5. count = [s \in AdminSpaces(d, u) |-> Cardinality(d.tables[s])] /\ AdminSpaces(d, u) = SpacesTold(d, u, rights)
      /\ AdminSpaces(d, u) \subseteq Spaces
  BY DEF AdminSpaces, SpacesTold
<1>6. /\ DOMAIN roles = DOMAIN d.roles
      /\ \A key \in DOMAIN d.roles : HasFields(roles[key], RoleFields) /\ roles[key].permissions = d.roles[key]
                                     /\ roles[key].user_count = UsersWith(d.users, key)
      /\ HasFields(roles, DOMAIN d.roles)
  BY DEF HasFields, RoleFields
<1>. HIDE DEF us, count, roles, total, rights, told
<1>7. HasFields(b, BooksFields)
  BY <1>1 DEF HasFields, BooksFields
<1>8. /\ b.users = us /\ b.counts = CountsOf(us) /\ b.spaces = count /\ b.tables = total
      /\ b.permissions = rights /\ b.roles = roles /\ b.site = d.site
  BY <1>1
<1>9. \A kinds : Pending({}, kinds) = {}
  BY DEF Pending
<1>10. DOMAIN us = told /\ \A x \in told : us[x] = d.users[x]
  BY <1>4
<1>11. UsersFollow(b, {}, d)
  <2>1. HasFields(us, DOMAIN us) /\ \A x \in DOMAIN us : HasFields(us[x], AccountFields)
    BY <1>3, <1>4 DEF HasFields
  <2>2. Sees(rights) => \A x : AgreeOn(x, us, d.users)
    BY <1>4, <1>10, AlikeTwice DEF AgreeOn
  <2>3. ~Sees(rights) => DOMAIN us = {}
    BY <1>4, <1>10
  <2>. QED  BY <1>8, <1>9, <2>1, <2>2, <2>3 DEF UsersFollow
<1>12. RolesFollow(b, {}, d)
  <2>1. UsersOf(b, d) = d.users
    <3>1. CASE Sees(rights)
      <4>1. us = [x \in DOMAIN d.users |-> d.users[x]]
        BY <1>4, <3>1
      <4>2. us = d.users
        BY <1>3, <4>1 DEF HasFields
      <4>. QED  BY <1>8, <4>2, <3>1 DEF UsersOf
    <3>2. CASE ~Sees(rights)
      BY <1>8, <3>2 DEF UsersOf
    <3>. QED  BY <3>1, <3>2
  <2>2. RolesMatch(b.roles, d)
    BY <1>6, <1>8 DEF RolesMatch
  <2>. QED  BY <1>6, <1>8, <1>9, <2>1, <2>2 DEF RolesFollow
<1>13. SiteFollows(b, {}, d, d.site)
  BY <1>8, <1>9 DEF SiteFollows, HasRows
<1>14. SpacesFollow(b, {}, d, u, Nowhere, n)
  <2>1. DOMAIN count = AdminSpaces(d, u) /\ HasFields(count, AdminSpaces(d, u))
    BY <1>5 DEF HasFields
  <2>2. \A s : Extra({}, s) = 0
    BY <1>9 DEF Extra
  <2>3. \A s \in DOMAIN count : count[s] = Cardinality(d.tables[s]) + Extra({}, s)
    <3>1. TAKE s \in DOMAIN count
    <3>2. count[s] = Cardinality(d.tables[s]) /\ Cardinality(d.tables[s]) \in Nat
      BY <1>5, <2>1, FewTables
    <3>. QED  BY <3>2, <2>2
  <2>. QED  BY <1>2, <1>5, <1>8, <2>1, <2>3 DEF SpacesFollow
<1>. QED  BY <1>7, <1>11, <1>12, <1>13, <1>14 DEF OverviewFollows

\* While nothing is under way, App's settings are the server's.
LEMMA SiteAgrees ==
  ASSUME NEW b, NEW d, NEW u, NEW k, NEW n, NEW s, OverviewFollows(b, {}, d, u, k, n, s), HasRows(d)
  PROVE  s = d.site /\ b.site = d.site
<1>1. HasFields(b.site, SiteFields) /\ HasFields(d.site, SiteFields) /\ s = b.site
  BY DEF OverviewFollows, SiteFollows, HasRows
<1>2. Pending({}, SiteKinds) = {}
  BY DEF Pending
<1>3. \A f \in SiteFields : d.site[f] = b.site[f]
  BY <1>2 DEF OverviewFollows, SiteFollows
<1>. QED  BY <1>1, <1>3 DEF HasFields

\* App's settings after an answer to a read.
SiteTold(r) == IF r.view = "overview" /\ r.ok THEN r.answer[2].site ELSE site

\* An answer that lands while no request was under way since it was given is the
\* truth; any other is held for out of date.
LEMMA LandFollows ==
  ASSUME PagesInv, AnswersInv, BooksInv, NEW r \in reads
  PROVE  /\ (r.view = "overview" => Shown(r) # views \/ r.pure \/ ~r.ok)
              => Follows(Shown(r), saves, db, session, ChannelOf(path), SiteTold(r))
         /\ KnownSpaces(Shown(r))
<1>. DEFINE n == r.view
            w == views[n]
            w2 == Landed(w, r)
            lands == r.view \in DOMAIN views /\ r.current
            vs == Shown(r)
            c == ChannelOf(path)
<1>1. /\ Follows(views, saves, db, session, c, site) /\ KnownSpaces(views) /\ HasRows(db)
      /\ ReadFollows(r, saves, db, session)
  BY DEF BooksInv
<1>2. IsRead(r) /\ TidyRead(r, views, c) /\ IsDatabase(db)
  BY DEF PagesInv, Tidy, TidyRead, AnswersInv
<1>3. CASE ~lands
  <2>1. vs = views
    BY <1>3 DEF Shown, Accepts
  <2>2. CASE r.view # "overview" \/ ~r.ok
    BY <1>1, <2>1, <2>2 DEF SiteTold
  <2>3. CASE r.view = "overview" /\ r.ok /\ r.pure
    <3>1. saves = {} /\ SiteTold(r) = db.site
      BY <1>1, <2>3 DEF ReadFollows, SiteTold
    <3>2. CASE Trusted(views, "overview")
      <4>1. ViewFollows("overview", views, saves, db, session, c, site)
        BY <1>1, <3>2 DEF Follows, BookViews
      <4>2. site = db.site
        BY <3>1, <4>1, <1>1, SiteAgrees DEF ViewFollows
      <4>. QED  BY <4>2, <3>1, <2>1, <1>1
    <3>3. CASE ~Trusted(views, "overview")
      BY <3>3, <2>1, <1>1, FollowsElse
    <3>. QED  BY <3>2, <3>3
  <2>4. CASE r.view = "overview" /\ r.ok /\ ~r.pure
    BY <2>1, <2>4, <1>1
  <2>. QED  BY <2>2, <2>3, <2>4
<1>4. CASE lands
  <2>1. vs = [views EXCEPT ![n] = w2]
    BY <1>4 DEF Shown, Accepts
  <2>2. DOMAIN vs = DOMAIN views /\ \A v \in DOMAIN views : vs[v] = IF v = n THEN w2 ELSE views[v]
    BY <2>1
  <2>3. IsView(w) /\ n \in DOMAIN views
    BY <1>4 DEF PagesInv, Tidy, TidyView
  <2>4. /\ ~r.ok => w2.shown = w.shown /\ w2.clean = w.clean /\ w2.content = w.content /\ (n # "about" => w2.failed)
        /\ r.ok => w2.shown = r.key /\ w2.clean = r.pure /\ (n # "space" => w2.content = r.answer[2])
        /\ n = "detail" => w2.asked = w.asked /\ w2.count = w.count
    BY <2>3 DEF Landed, IsView, HasFields, ViewFields
  <2>. HIDE DEF w2, vs
  <2>5. SheetKey(vs) = SheetKey(views) /\ SheetCount(vs) = SheetCount(views)
    BY <2>2, <2>4 DEF SheetKey, SheetCount
  <2>6. KnownSpaces(vs)
    <3>1. CASE n # "overview"
      BY <3>1, <2>2, <1>1 DEF KnownSpaces
    <3>2. CASE n = "overview" /\ ~r.ok
      BY <3>2, <2>2, <2>4 DEF KnownSpaces, Loaded
    <3>3. CASE n = "overview" /\ r.ok
      BY <3>3, <2>2, <2>4, <1>1 DEF KnownSpaces, ReadFollows
    <3>. QED  BY <3>1, <3>2, <3>3
  <2>7. CASE ~r.ok
    <3>1. Follows(vs, saves, db, session, c, site)
      BY <1>1, <2>2, <2>4, <2>5, <2>7, FollowsLike DEF Trusted
    <3>. QED  BY <3>1, <2>6, <2>7 DEF SiteTold, vs
  <2>8. CASE r.ok /\ ~r.pure
    <3>1. Follows(vs, saves, db, session, c, site)
      BY <1>1, <2>2, <2>4, <2>5, <2>8, FollowsLike DEF Trusted
    <3>2. n = "overview" => ~Trusted(vs, "overview")
      BY <2>2, <2>4, <2>8 DEF Trusted
    <3>3. Follows(vs, saves, db, session, c, SiteTold(r))
      BY <3>1, <3>2, FollowsElse DEF SiteTold
    <3>. QED  BY <3>3, <2>6 DEF vs
  <2>9. CASE r.ok /\ r.pure
    <3>1. /\ saves = {} /\ session \in DOMAIN db.users
          /\ n \in BookViews => r.answer[2] = Tell(db, session, n, r.key)
          /\ n = "tables" => r.key \in Spaces /\ r.key = c
          /\ n = "overview" => SiteTold(r) = db.site
      BY <1>1, <1>2, <1>4, <2>9 DEF ReadFollows, TidyRead, RoomViews, SiteTold
    <3>2. ASSUME NEW v \in BookViews, v # n, Trusted(vs, v)
          PROVE  ViewFollows(v, vs, saves, db, session, c, SiteTold(r))
      <4>1. Trusted(views, v) /\ vs[v] = views[v]
        BY <3>2, <2>2 DEF Trusted
      <4>2. ViewFollows(v, views, saves, db, session, c, site)
        BY <4>1, <1>1 DEF Follows
      <4>3. ViewFollows(v, vs, saves, db, session, c, site)
        BY <4>1, <4>2, <2>5, ViewLike
      <4>4. v = "overview" => SiteTold(r) = site
        BY <3>2 DEF SiteTold
      <4>. QED  BY <4>3, <4>4 DEF ViewFollows, BookViews
    <3>3. ASSUME n \in BookViews, Trusted(vs, n)
          PROVE  ViewFollows(n, vs, saves, db, session, c, SiteTold(r))
      <4>. DEFINE x == vs[n]
      <4>1. x.content = Tell(db, session, n, x.shown) /\ x.shown = r.key
        <5>1. n # "space"
          BY <3>3 DEF BookViews
        <5>. QED  BY <5>1, <2>2, <2>3, <2>4, <2>9, <3>1, <3>3
      <4>. HIDE DEF x
      <4>2. CASE n = "keys"
        BY <4>1, <4>2, <3>1, <1>1, FreshKeys DEF ViewFollows, x
      <4>3. CASE n = "bindings"
        BY <4>1, <4>3, <3>1, <1>1, FreshBindings DEF ViewFollows, x
      <4>4. CASE n = "tables"
        BY <4>1, <4>4, <3>1, <1>1, FreshRows DEF ViewFollows, x
      <4>5. CASE n = "detail"
        <5>1. r.key \in Manageable(views, path)
          BY <1>4, <4>5 DEF AnswersInv, Right, RightRead, ChannelViews
        <5>2. "overview" \in DOMAIN views
          BY <2>3, <4>5, <3>3, BookPlaces, NamedViews DEF AnswersInv, Standing
        <5>3. r.key \in Spaces
          BY <5>1, <5>2, <1>1 DEF Manageable, KnownSpaces
        <5>. QED  BY <4>1, <4>5, <3>1, <1>1, <5>3, FreshRows DEF ViewFollows, x
      <4>6. CASE n = "overview"
        <5>1. ~Loaded(views["overview"])
          BY <1>4, <4>6 DEF AnswersInv, Right, RightRead, Loaded
        <5>2. "detail" \notin DOMAIN views
          BY <5>1, NamedViews DEF AnswersInv, Standing, NamesOf
        <5>3. SheetKey(vs) = Nowhere
          BY <5>2, <2>2 DEF SheetKey
        <5>4. x.content = Overview(db, session)
          BY <4>1, <4>6 DEF Tell
        <5>5. OverviewFollows(x.content, {}, db, session, Nowhere, SheetCount(vs), db.site)
          BY <5>4, <3>1, <1>1, <1>2, FreshOverview
        <5>. QED  BY <4>6, <5>3, <5>5, <3>1 DEF ViewFollows, x
      <4>. QED  BY <3>3, <4>2, <4>3, <4>4, <4>5, <4>6 DEF BookViews
    <3>4. Follows(vs, saves, db, session, c, SiteTold(r))
      BY <3>1, <3>2, <3>3 DEF Follows
    <3>. QED  BY <3>4, <2>6 DEF vs
  <2>. QED  BY <2>7, <2>8, <2>9, <1>2 DEF IsRead
<1>. QED  BY <1>3, <1>4

-----------------------------------------------------------------------------
(* Every step leaves the copy right *)

\* What is held for out of date tells of the same channels.
LEMMA SoiledSpaces ==
  ASSUME NEW vs, \A v \in DOMAIN vs : IsView(vs[v])
  PROVE  KnownSpaces(vs) <=> KnownSpaces(Soiled(vs))
<1>1. /\ DOMAIN Soiled(vs) = DOMAIN vs
      /\ \A v \in DOMAIN vs : /\ Soiled(vs)[v].content = vs[v].content
                              /\ Soiled(vs)[v].loading = vs[v].loading /\ Soiled(vs)[v].failed = vs[v].failed
  BY DEF Soiled, IsView, HasFields, ViewFields
<1>. QED  BY <1>1 DEF KnownSpaces, Loaded

\* An answer to a read arrives.
LEMMA ArrivalBooks ==
  ASSUME PagesInv, AnswersInv, BooksInv, NEW r \in reads, ReadArrives(r)
  PROVE  BooksInv'
<1>. DEFINE rs == reads \ {r}
<1>1. /\ DOMAIN Shown(r) = DOMAIN views
      /\ DOMAIN Shown(r) \subseteq NamesOf(ScreenNow, path, Shown(r)["overview"])
  BY LandRight DEF AnswersInv
<1>2. /\ \A x \in rs : IsRead(x) /\ ReadFollows(x, saves, db, session)
      /\ \A a \in saves : IsKept(a)
      /\ HasRows(db) /\ KnownSpaces(views)
      /\ \A v \in DOMAIN views : IsView(views[v])
      /\ FirstViews(ScreenNow) \subseteq DOMAIN views
  BY DEF PagesInv, Tidy, TidyRead, TidyView, BooksInv, AnswersInv, Standing, NamesOf
<1>3. ASSUME NEW sel, NEW vs, Show(user, path, sel, vs, rs, saves), UNCHANGED <<session, db>>,
             sel = selected \/ ScreenNow # "room",
             DOMAIN vs = DOMAIN views, DOMAIN vs \subseteq NamesOf(ScreenNow, path, vs["overview"]),
             Follows(vs, saves, db, session, ChannelOf(path), site'), KnownSpaces(vs)
      PROVE  BooksInv'
  BY <1>2, <1>3, ShowBooks
<1>4. KnownSpaces(Shown(r))
  BY LandFollows
<1>5. CASE \E v : Arrives(v, r) /\ v # "overview"
  <2>1. Show(user, path, selected, Shown(r), rs, saves) /\ UNCHANGED <<session, db, site>> /\ r.view # "overview"
    BY <1>5 DEF Arrives
  <2>2. Follows(Shown(r), saves, db, session, ChannelOf(path), site')
    BY <2>1, LandFollows DEF SiteTold
  <2>. QED  BY <1>1, <1>3, <1>4, <2>1, <2>2
<1>6. CASE SpaceArrives(r)
  <2>. DEFINE sel == IF "space" \in DOMAIN views /\ Accepts(r) /\ r.ok THEN r.answer[2] ELSE selected
  <2>1. Show(user, path, sel, Shown(r), rs, saves) /\ UNCHANGED <<session, db, site>> /\ r.view # "overview"
    BY <1>6 DEF SpaceArrives
  <2>2. sel = selected \/ ScreenNow # "room"
    BY PlacedNames DEF PagesInv, Placed
  <2>3. Follows(Shown(r), saves, db, session, ChannelOf(path), site')
    BY <2>1, LandFollows DEF SiteTold
  <2>. HIDE DEF sel
  <2>. QED  BY <1>1, <1>3, <1>4, <2>1, <2>2, <2>3
<1>7. CASE OverviewArrives(r)
  <2>. DEFINE missed == Shown(r) = views /\ ~r.pure
              vs == IF missed THEN Soiled(views) ELSE Shown(r)
  <2>1. Show(user, path, selected, vs, rs, saves) /\ UNCHANGED <<session, db>> /\ site' = SiteTold(r)
    BY <1>7 DEF OverviewArrives, SiteTold
  <2>2. CASE missed
    <3>1. vs = Soiled(views)
      BY <2>2
    <3>2. DOMAIN vs = NamesOf(ScreenNow, path, vs["overview"]) /\ DOMAIN vs = DOMAIN views
      BY <3>1, <1>2, EditsMade, EditsStand DEF AnswersInv
    <3>3. Follows(vs, saves, db, session, ChannelOf(path), site') /\ KnownSpaces(vs)
      BY <3>1, <1>2, FollowsSoiled, SoiledSpaces
    <3>. HIDE DEF vs
    <3>. QED  BY <1>3, <2>1, <3>2, <3>3
  <2>3. CASE ~missed
    <3>1. Follows(Shown(r), saves, db, session, ChannelOf(path), site')
      BY <2>1, <2>3, LandFollows
    <3>. QED  BY <1>1, <1>3, <1>4, <2>1, <2>3, <3>1
  <2>. QED  BY <2>2, <2>3
<1>. QED
  BY <1>5, <1>6, <1>7 DEF ReadArrives, SpacesArrive, BoardArrives, AboutArrives, TablesArrive, HandsArrive,
     FundsArrive, BindingsArrive, RankingsArrive, BalancesArrive, DetailArrives, KeysArrive

\* Somebody signs in or out: nothing of what was shown stays.
LEMMA SessionBooks ==
  ASSUME AnswersInv, NEW u, NEW p, NEW sel, NEW rs, NEW ss, Show(u, p, sel, views, rs, ss),
         HasRows(db'), \A a \in ss : IsKept(a),
         \A r \in rs : IsRead(r) /\ \E w : ReadFollows(r, ss, db', w),
         SamePage => ScreenNow \in {"wait", "auth", "admin_auth"} /\ \A r \in rs : ReadFollows(r, ss, db', session'),
         sel = selected \/ ScreenNow # "room"
  PROVE  BooksInv'
<1>1. ASSUME SamePage  PROVE DOMAIN views = {} /\ FirstViews(ScreenNow) = {}
  <2>1. ScreenNow \in {"wait", "auth", "admin_auth"}
    BY <1>1
  <2>. QED  BY <2>1 DEF AnswersInv, Standing, NamesOf, FirstViews
<1>2. SamePage => /\ Follows(views, ss, db', session', ChannelOf(path), site')
                  /\ KnownSpaces(views)
                  /\ DOMAIN views \subseteq NamesOf(ScreenNow, path, views["overview"])
                  /\ FirstViews(ScreenNow) \subseteq DOMAIN views
  BY <1>1 DEF Follows, Trusted, KnownSpaces
<1>. QED  BY <1>2, ShowBooks

\* What a logout refuses stays a request.
LEMMA RefusedKept ==
  ASSUME NEW ss, \A a \in ss : IsKept(a)
  PROVE  (\A a \in Refused(ss) : IsKept(a)) /\ (ss = {} => Refused(ss) = {})
<1>1. ASSUME NEW a, IsKept(a)  PROVE IsKept([a EXCEPT !.phase = "answered"])
  BY <1>1 DEF IsKept, HasFields, SaveFields
<1>. QED  BY <1>1 DEF Refused

\* What a logout refuses was not answered yet.
LEMMA RefusedFollow ==
  ASSUME NEW rs, NEW ss, NEW d, NEW u, \A r \in rs : IsRead(r) /\ ReadFollows(r, ss, d, u), NEW ss2, ss = {} => ss2 = {}
  PROVE  \A r \in Refused(rs) : ReadFollows(r, ss2, d, u)
<1>1. ASSUME NEW r \in rs, r.phase = "sent"  PROVE ReadFollows([r EXCEPT !.phase = "answered"], ss2, d, u)
  <2>1. ~r.ok
    BY <1>1 DEF ReadFollows
  <2>2. [r EXCEPT !.phase = "answered"].ok = r.ok
    BY DEF IsRead, HasFields, ReadFields
  <2>. QED  BY <2>1, <2>2 DEF ReadFollows
<1>2. ASSUME NEW r \in rs  PROVE ReadFollows(r, ss2, d, u)
  BY <1>2 DEF ReadFollows
<1>. QED  BY <1>1, <1>2 DEF Refused

\* What the first effect, the login forms and the logouts do.
LEMMA SessionsBooks ==
  ASSUME PagesInv, AnswersInv, BooksInv,
         Start \/ LogoutLobby \/ LogoutConsole \/ \E u \in Users : Login(u) \/ LoginConsole(u) \/ Register(u)
  PROVE  BooksInv'
<1>0. /\ \A r \in reads : IsRead(r) /\ ReadFollows(r, saves, db, session)
      /\ \A a \in saves : IsKept(a)
      /\ HasRows(db) /\ IsDatabase(db)
  BY DEF PagesInv, Tidy, TidyRead, BooksInv, AnswersInv
<1>1. CASE Start
  <2>1. ScreenNow = "wait"
    BY <1>1 DEF Start, ScreenNow, Screen, ScreenAt
  <2>2. UNCHANGED <<session, db>> /\ \E u : Show(u, path, selected, views, reads, saves)
    BY <1>1 DEF Start
  <2>. QED  BY <1>0, <2>1, <2>2, SessionBooks
<1>2. ASSUME ScreenNow \in {"auth", "admin_auth"}, NEW r \in reads, NEW d, d.site = db.site, NEW u
      PROVE  ReadFollows(r, saves, d, u)
  <2>1. DOMAIN views = {}
    BY <1>2 DEF AnswersInv, Standing, NamesOf, FirstViews
  <2>2. ~r.current
    BY <2>1 DEF AnswersInv, Heard
  <2>. QED  BY <1>0, <1>2, <2>2 DEF ReadFollows
<1>3. ASSUME NEW u, Login(u) \/ LoginConsole(u)  PROVE BooksInv'
  <2>1. /\ db' = db /\ ScreenNow \in {"auth", "admin_auth"}
        /\ \E v, p : Show(v, p, selected, views, reads, saves)
    BY <1>3 DEF Login, LoginConsole
  <2>. QED  BY <1>0, <1>2, <2>1, SessionBooks
<1>4. ASSUME NEW u \in Users, Register(u)  PROVE BooksInv'
  <2>. DEFINE us == WithAccount(db.users, u, NewUser("player"))
  <2>1. db' = [db EXCEPT !.users = us] /\ ScreenNow = "auth"
        /\ Show(TellUser(db', u), path, selected, views, reads, saves)
    BY <1>4, Zenon DEF Register
  <2>2. DOMAIN us = DOMAIN db.users \cup {u}
    BY DEF WithAccount
  <2>. HIDE DEF us
  <2>3. db'.users = us /\ \A f \in DatabaseFields : f \notin {"users"} => db'[f] = db[f]
    BY <1>0, <2>1 DEF IsDatabase, HasFields, DatabaseFields
  <2>4. HasRows(db') /\ db'.site = db.site
    BY <1>0, <2>2, <2>3 DEF HasRows, Made, DatabaseFields
  <2>. QED  BY <1>0, <1>2, <2>1, <2>4, SessionBooks
<1>5. CASE LogoutLobby \/ LogoutConsole
  <2>1. PICK p, sel : Show(NoUser, p, sel, views, Refused(reads), Refused(saves)) /\ (sel = selected \/ ScreenNow # "room")
    BY <1>5 DEF LogoutLobby, LogoutConsole
  <2>2. ~SamePage
    <3>1. \A q, x : Screen(NoUser, q, x) \notin {"lobby", "console"}
      BY DEF Screen, ScreenAt, HasPermission, SignedIn
    <3>2. ScreenNow \in {"lobby", "console"} /\ user' = NoUser
      BY <1>5, <2>1 DEF LogoutLobby, LogoutConsole, Show
    <3>. QED  BY <3>1, <3>2 DEF SamePage
  <2>3. \A r \in Refused(reads) : IsRead(r)
    <3>1. Tidy(views, Refused(reads), ChannelOf(path))
      BY SpoiltReads DEF PagesInv
    <3>. QED  BY <3>1 DEF Tidy, TidyRead
  <2>4. (\A a \in Refused(saves) : IsKept(a)) /\ (saves = {} => Refused(saves) = {})
    BY <1>0, RefusedKept
  <2>5. \A r \in Refused(reads) : ReadFollows(r, Refused(saves), db, session)
    BY <1>0, <2>4, RefusedFollow
  <2>6. db' = db
    BY <1>5 DEF LogoutLobby, LogoutConsole
  <2>. QED  BY <1>0, <2>1, <2>2, <2>3, <2>4, <2>5, <2>6, SessionBooks
<1>. QED  BY <1>1, <1>3, <1>4, <1>5

\* A link, or a channel of the lobby, is followed.
LEMMA MovedBooks ==
  ASSUME PagesInv, AnswersInv, BooksInv, (\E p : Go(p)) \/ \E s : OpenSpace(s)
  PROVE  BooksInv'
<1>1. /\ \E p, sel : Show(user, p, sel, views, reads, saves) /\ (sel = selected \/ ScreenNow # "room")
      /\ UNCHANGED <<session, site, db>>
  BY DEF Go, OpenSpace
<1>2. /\ \A r \in reads : IsRead(r) /\ ReadFollows(r, saves, db, session)
      /\ \A a \in saves : IsKept(a)
      /\ HasRows(db) /\ KnownSpaces(views)
      /\ Follows(views, saves, db, session, ChannelOf(path), site)
      /\ DOMAIN views \subseteq NamesOf(ScreenNow, path, views["overview"])
      /\ FirstViews(ScreenNow) \subseteq DOMAIN views
  BY DEF PagesInv, Tidy, TidyRead, BooksInv, AnswersInv, Standing, NamesOf
<1>. QED  BY <1>1, <1>2, ShowBooks

\* What is late or asked again claims no more than before.
LEMMA SupersededFollow ==
  ASSUME NEW rs, NEW ss, NEW d, NEW u, \A r \in rs : IsRead(r) /\ ReadFollows(r, ss, d, u), NEW v, NEW key
  PROVE  \A r \in Superseded(v, rs) \cup {Read(v, key)} : ReadFollows(r, ss, d, u)
<1>1. \A r \in rs : ReadFollows([r EXCEPT !.current = FALSE], ss, d, u)
  BY ReadKeeps
<1>2. ReadFollows(Read(v, key), ss, d, u)
  BY ReadKeeps
<1>. QED  BY <1>1, <1>2 DEF Superseded

\* A component asks anew; the sheet for the same channel.
LEMMA AskBooks ==
  ASSUME PagesInv, BooksInv, NEW v, v # "overview", NEW w, IsView(w), Asks(v, w),
         v \in BookViews => w.content = views[v].content /\ w.shown = views[v].shown /\ w.clean = views[v].clean,
         v = "detail" => w.asked = views[v].asked /\ w.count = views[v].count
  PROVE  BooksInv'
<1>. DEFINE w2 == Asked(w, w.asked)
<1>1. w2.content = w.content /\ w2.shown = w.shown /\ w2.clean = w.clean /\ w2.asked = w.asked /\ w2.count = w.count
  BY DEF Asked, IsView, HasFields, ViewFields
<1>2. views' = [views EXCEPT ![v] = w2] /\ reads' = Superseded(v, reads) \cup {Read(v, w.asked)}
      /\ UNCHANGED <<pageVars, session, saves, site, db>>
  BY DEF Asks
<1>. HIDE DEF w2
<1>3. DOMAIN views' = DOMAIN views /\ \A x \in DOMAIN views : views'[x] = IF x = v THEN w2 ELSE views[x]
  BY <1>2
<1>4. \A r \in reads : IsRead(r) /\ ReadFollows(r, saves, db, session)
  BY DEF PagesInv, Tidy, TidyRead, BooksInv
<1>5. \A r \in reads' : ReadFollows(r, saves, db, session)
  BY <1>2, <1>4, SupersededFollow
<1>6. KnownSpaces(views')
  BY <1>3 DEF BooksInv, KnownSpaces
<1>7. SheetKey(views') = SheetKey(views) /\ SheetCount(views') = SheetCount(views)
  BY <1>1, <1>3 DEF SheetKey, SheetCount
<1>8. \A x \in BookViews : Trusted(views', x) =>
        Trusted(views, x) /\ views'[x].content = views[x].content /\ views'[x].shown = views[x].shown
  BY <1>1, <1>3 DEF Trusted
<1>9. Follows(views, saves, db, session, ChannelOf(path), site)
  BY DEF BooksInv
<1>10. Follows(views', saves, db, session, ChannelOf(path), site)
  BY <1>7, <1>8, <1>9, FollowsLike
<1>. QED  BY <1>2, <1>5, <1>6, <1>10 DEF BooksInv, pageVars

\* What a page's choices, refreshes and pages of records ask for.
LEMMA ChoiceBooks ==
  ASSUME PagesInv, AnswersInv, BooksInv,
         ChooseBoard \/ TurnHands \/ TurnFunds \/ ScopeRankings \/ PickBalances \/ RefreshBalances
           \/ RefreshSheet \/ OpenKeys
  PROVE  BooksInv'
<1>1. \A v \in DOMAIN views : IsView(views[v])
  BY DEF PagesInv, Tidy, TidyView
<1>2. \A w, key : IsView(w) => /\ IsView([w EXCEPT !.asked = key])
                               /\ [w EXCEPT !.asked = key].content = w.content
                               /\ [w EXCEPT !.asked = key].shown = w.shown
                               /\ [w EXCEPT !.asked = key].clean = w.clean
                               /\ IsView([w EXCEPT !.asked = key, !.shown = Nowhere])
  BY ZenonT(60) DEF IsView, HasFields, ViewFields
<1>3. ASSUME NEW v \in {"board", "hands", "funds", "rankings", "keys"}, NEW key, v \in DOMAIN views, AsksFor(v, key)
      PROVE  BooksInv'
  <2>. DEFINE w == views[v]
              w2 == [w EXCEPT !.asked = key]
  <2>1. IsView(w2) /\ w2.content = w.content /\ w2.shown = w.shown /\ w2.clean = w.clean /\ Asks(v, w2)
    BY <1>1, <1>2, <1>3 DEF AsksFor
  <2>. HIDE DEF w2
  <2>. QED  BY <1>3, <2>1, AskBooks
<1>4. CASE ChooseBoard
  <2>1. "board" \in DOMAIN views
    BY <1>4 DEF ChooseBoard, AnswersInv, Standing, NamesOf, FirstViews
  <2>. QED  BY <1>3, <1>4, <2>1 DEF ChooseBoard
<1>5. CASE TurnHands \/ TurnFunds
  <2>1. {"hands", "funds"} \subseteq DOMAIN views
    BY <1>5 DEF TurnHands, TurnFunds, AnswersInv, Standing, NamesOf, FirstViews
  <2>. QED  BY <1>3, <1>5, <2>1 DEF TurnHands, TurnFunds
<1>6. CASE ScopeRankings
  BY <1>3, <1>6 DEF ScopeRankings
<1>7. CASE OpenKeys
  <2>1. "keys" \in DOMAIN views
    BY <1>7 DEF OpenKeys, AnswersInv, Standing, NamesOf, FirstViews
  <2>. QED  BY <1>3, <1>7, <2>1 DEF OpenKeys
<1>8. CASE PickBalances
  <2>. DEFINE w == views["balances"]
              w2(s) == [w EXCEPT !.asked = s, !.shown = Nowhere]
  <2>1. PICK s : Asks("balances", w2(s))
    BY <1>8 DEF PickBalances
  <2>2. IsView(w2(s))
    BY <1>1, <1>2, <1>8 DEF PickBalances
  <2>. HIDE DEF w2
  <2>. QED  BY <2>1, <2>2, AskBooks DEF BookViews
<1>9. CASE RefreshBalances \/ RefreshSheet
  <2>1. PICK v \in ChannelViews : Asks(v, views[v]) /\ v \in DOMAIN views
    BY <1>9 DEF RefreshBalances, RefreshSheet, ChannelViews
  <2>2. IsView(views[v]) /\ v # "overview"
    BY <1>1, <2>1 DEF ChannelViews
  <2>. QED  BY <2>1, <2>2, AskBooks
<1>. QED  BY <1>4, <1>5, <1>6, <1>7, <1>8, <1>9

\* The sheet of a channel opens: it takes the number of tables over that the books have.
LEMMA OpenSheetBooks ==
  ASSUME PagesInv, AnswersInv, BooksInv, NEW s, {"overview", "detail"} \subseteq DOMAIN views,
         s \in ChannelDirectory(views["overview"].content), OpenSheet(s)
  PROVE  BooksInv'
<1>. DEFINE late == \E a \in saves : a.q[1] \in {"connection", "table_delete"}
            vs == IF late THEN Soiled(views) ELSE views
            count == vs["overview"].content.spaces[s]
            old == vs["detail"]
            w == [Asked(old, s) EXCEPT !.count = count]
<1>1. views' = [vs EXCEPT !["detail"] = w] /\ reads' = Superseded("detail", reads) \cup {Read("detail", s)}
      /\ UNCHANGED <<pageVars, session, saves, site, db>>
  BY Zenon DEF OpenSheet
<1>2. \A v \in DOMAIN views : IsView(views[v])
  BY DEF PagesInv, Tidy, TidyView
<1>3. \A r \in reads : IsRead(r) /\ ReadFollows(r, saves, db, session)
  BY DEF PagesInv, Tidy, TidyRead, BooksInv
<1>4. DOMAIN vs = DOMAIN views /\ IsView(old) /\ Follows(vs, saves, db, session, ChannelOf(path), site) /\ KnownSpaces(vs)
  <2>1. DOMAIN vs = DOMAIN views /\ IsView(vs["detail"])
    BY <1>2, SoiledTidy DEF PagesInv, Tidy, TidyView
  <2>2. Follows(vs, saves, db, session, ChannelOf(path), site) /\ KnownSpaces(vs)
    BY <1>2, FollowsSoiled, SoiledSpaces DEF BooksInv
  <2>. QED  BY <2>1, <2>2
<1>5. vs = IF late THEN Soiled(views) ELSE views
  OBVIOUS
<1>6. late => ~Trusted(vs, "overview")
  <2>1. late => vs = Soiled(views)
    BY <1>5
  <2>2. ~Soiled(views)["overview"].clean
    BY <1>2 DEF Soiled, IsView, HasFields, ViewFields
  <2>. QED  BY <2>1, <2>2 DEF Trusted
<1>7. ~late => \A a \in saves : a.q[1] \notin CountKinds
  BY DEF CountKinds
<1>8. s \in DOMAIN vs["overview"].content.spaces
  <2>1. vs["overview"].content = views["overview"].content
    BY <1>2, <1>5 DEF Soiled, IsView, HasFields, ViewFields
  <2>. QED  BY <2>1 DEF ChannelDirectory
<1>. HIDE DEF late, vs, old
<1>9. w.asked = s /\ w.count = count /\ w.content = old.content /\ w.shown = old.shown /\ w.clean = old.clean
  BY <1>4 DEF Asked, IsView, HasFields, ViewFields
<1>. HIDE DEF w
<1>10. DOMAIN views' = DOMAIN vs /\ \A x \in DOMAIN vs : views'[x] = IF x = "detail" THEN w ELSE vs[x]
  BY <1>1
<1>11. \A r \in reads' : ReadFollows(r, saves, db, session)
  BY <1>1, <1>3, SupersededFollow
<1>12. KnownSpaces(views')
  BY <1>4, <1>10 DEF KnownSpaces
<1>13. ASSUME NEW v \in BookViews, Trusted(views', v)
       PROVE  session \in DOMAIN db.users /\ ViewFollows(v, views', saves, db, session, ChannelOf(path), site)
  <2>1. Trusted(vs, v) /\ views'[v].content = vs[v].content /\ views'[v].shown = vs[v].shown
    BY <1>9, <1>10, <1>13 DEF Trusted, old
  <2>2. session \in DOMAIN db.users /\ ViewFollows(v, vs, saves, db, session, ChannelOf(path), site)
    BY <1>4, <2>1 DEF Follows
  <2>3. CASE v # "overview"
    BY <2>1, <2>2, <2>3, ViewLike
  <2>4. CASE v = "overview"
    <3>1. views'["overview"].content = vs["overview"].content
      BY <2>1, <2>4
    <3>2. OverviewFollows(vs["overview"].content, saves, db, session, SheetKey(vs), SheetCount(vs), site)
      BY <2>2, <2>4 DEF ViewFollows
    <3>3. \A a \in saves : a.q[1] \notin CountKinds
      BY <1>6, <1>7, <2>1, <2>4
    <3>4. OverviewFollows(vs["overview"].content, saves, db, session, s, count, site)
      BY <1>8, <3>2, <3>3, OverviewMoved
    <3>5. SheetKey(views') = s /\ SheetCount(views') = count
      BY <1>4, <1>9, <1>10 DEF SheetKey, SheetCount
    <3>. QED  BY <2>2, <2>4, <3>1, <3>4, <3>5 DEF ViewFollows
  <2>. QED  BY <2>3, <2>4
<1>14. Follows(views', saves, db, session, ChannelOf(path), site)
  BY <1>13 DEF Follows
<1>. QED  BY <1>1, <1>11, <1>12, <1>14 DEF BooksInv, pageVars

\* The sheet closes: no request of its is under way.
LEMMA CloseSheetBooks ==
  ASSUME PagesInv, BooksInv, CloseSheet
  PROVE  BooksInv'
<1>. DEFINE old == views["detail"]
            w == [old EXCEPT !.asked = Nowhere, !.shown = Nowhere, !.content = NoRows, !.failed = FALSE]
<1>1. views' = [views EXCEPT !["detail"] = w] /\ UNCHANGED <<pageVars, session, reads, saves, site, db>>
      /\ ~Holding({"connection", "table_clear", "table_delete"}) /\ "detail" \in DOMAIN views
  BY Zenon DEF CloseSheet
<1>2. IsView(old)
  BY <1>1 DEF PagesInv, Tidy, TidyView
<1>. HIDE DEF old
<1>3. w.asked = Nowhere /\ w.shown = Nowhere
  BY <1>2 DEF IsView, HasFields, ViewFields
<1>. HIDE DEF w
<1>4. DOMAIN views' = DOMAIN views /\ \A v \in DOMAIN views : views'[v] = IF v = "detail" THEN w ELSE views[v]
  BY <1>1
<1>5. Follows(views, saves, db, session, ChannelOf(path), site) /\ KnownSpaces(views)
  BY DEF BooksInv
<1>6. KnownSpaces(views')
  BY <1>4, <1>5 DEF KnownSpaces
<1>7. ASSUME NEW v \in BookViews, Trusted(views', v)
      PROVE  session \in DOMAIN db.users /\ ViewFollows(v, views', saves, db, session, ChannelOf(path), site)
  <2>1. Trusted(views, v) /\ views'[v] = views[v] /\ v # "detail"
    BY <1>3, <1>4, <1>7 DEF Trusted
  <2>2. session \in DOMAIN db.users /\ ViewFollows(v, views, saves, db, session, ChannelOf(path), site)
    BY <1>5, <2>1 DEF Follows
  <2>3. CASE v # "overview"
    BY <2>1, <2>2, <2>3, ViewLike
  <2>4. CASE v = "overview"
    <3>1. OverviewFollows(views["overview"].content, saves, db, session, SheetKey(views), SheetCount(views), site)
      BY <2>2, <2>4 DEF ViewFollows
    <3>2. SheetKey(views') = Nowhere
      BY <1>1, <1>3, <1>4 DEF SheetKey
    <3>3. \A a \in saves : a.q[1] \in CountKinds => ~a.held
      BY <1>1 DEF Holding, CountKinds
    <3>4. OverviewFollows(views["overview"].content, saves, db, session, SheetKey(views'), SheetCount(views'), site)
      BY <3>1, <3>2, <3>3, OverviewMoved
    <3>. QED  BY <2>1, <2>2, <2>4, <3>4 DEF ViewFollows
  <2>. QED  BY <2>3, <2>4
<1>8. Follows(views', saves, db, session, ChannelOf(path), site)
  BY <1>7 DEF Follows
<1>. QED  BY <1>1, <1>6, <1>8 DEF BooksInv, pageVars

\* The tab of the keys closes, and shows nothing.
LEMMA CloseKeysBooks ==
  ASSUME PagesInv, AnswersInv, BooksInv, CloseKeys
  PROVE  BooksInv'
<1>. DEFINE clean == views["keys"].clean
            w == [Mounted("keys", Nowhere, Nothing) EXCEPT !.clean = clean]
<1>1. /\ views' = [views EXCEPT !["keys"] = w]
      /\ reads' = {r \in reads : r.view # "keys"}
      /\ saves' = {[a EXCEPT !.held = a.held /\ a.q[1] \notin {"key", "revoke", "agent"}] : a \in saves}
      /\ UNCHANGED <<pageVars, session, site, db>>
  BY Zenon DEF CloseKeys
<1>. HIDE DEF clean
<1>2. w.shown = Nowhere
  BY DEF Mounted
<1>. HIDE DEF w
<1>3. DOMAIN views = {"keys"}
  BY DEF AnswersInv, Standing, NamesOf, FirstViews, CloseKeys
<1>4. DOMAIN views' = {"keys"} /\ views'["keys"].shown = Nowhere
  BY <1>1, <1>2, <1>3
<1>5. Follows(views', saves', db, session, ChannelOf(path), site) /\ KnownSpaces(views')
  BY <1>4 DEF Follows, Trusted, KnownSpaces
<1>6. ASSUME NEW a \in saves'  PROVE IsKept(a)
  <2>1. PICK b \in saves : a = [b EXCEPT !.held = b.held /\ b.q[1] \notin {"key", "revoke", "agent"}]
    BY <1>1
  <2>. DEFINE held == b.held /\ b.q[1] \notin {"key", "revoke", "agent"}
  <2>2. a = [b EXCEPT !.held = held] /\ IsKept(b) /\ held \in BOOLEAN
    BY <2>1 DEF BooksInv
  <2>. HIDE DEF held
  <2>. QED  BY <2>2 DEF IsKept, HasFields, SaveFields
<1>7. saves = {} => saves' = {}
  BY <1>1
<1>8. \A r \in reads' : ReadFollows(r, saves', db, session)
  BY <1>1, <1>7 DEF BooksInv, ReadFollows
<1>. QED  BY <1>1, <1>5, <1>6, <1>8 DEF BooksInv, pageVars

\* The room reads its tables again.
LEMMA PollBooks ==
  ASSUME BooksInv, Poll
  PROVE  BooksInv'
<1>1. reads' = reads \cup {Read("tables", ChannelOf(path))} /\ UNCHANGED <<pageVars, session, views, saves, site, db>>
  BY DEF Poll
<1>2. \A r \in reads' : ReadFollows(r, saves, db, session)
  BY <1>1, ReadKeeps DEF BooksInv
<1>. QED  BY <1>1, <1>2 DEF BooksInv, pageVars

\* The server answers a read: with what it holds now.
LEMMA AnswerBooks ==
  ASSUME PagesInv, AnswersInv, BooksInv, NEW r \in reads, AnswerRead(r)
  PROVE  BooksInv'
<1>. DEFINE told == <<r.view, Tell(db, session, r.view, r.key)>>
            refusal == [r EXCEPT !.phase = "answered"]
            pure == refusal.pure /\ saves = {}
            answer == [refusal EXCEPT !.ok = TRUE, !.pure = pure, !.answer = told]
            granted == session # NoUser /\ PermittedRead(db, session, r.view, Subject(r))
<1>1. /\ (granted /\ reads' = (reads \ {r}) \cup {answer}) \/ reads' = (reads \ {r}) \cup {refusal}
      /\ UNCHANGED <<pageVars, session, views, saves, site, db>>
  BY Zenon DEF AnswerRead
<1>2. IsRead(r) /\ ReadFollows(r, saves, db, session) /\ r.phase = "sent"
  BY DEF PagesInv, Tidy, TidyRead, BooksInv, AnswerRead
<1>3. ~refusal.ok /\ IsRead(refusal) /\ refusal.view = r.view /\ refusal.key = r.key /\ refusal.phase = "answered"
  BY <1>2 DEF IsRead, HasFields, ReadFields, ReadFollows
<1>. HIDE DEF refusal, pure, told
<1>4. answer.phase = "answered" /\ answer.view = r.view /\ answer.key = r.key /\ answer.pure = pure /\ answer.answer = told
  BY <1>3 DEF IsRead, HasFields, ReadFields
<1>. HIDE DEF answer
<1>5. ReadFollows(refusal, saves, db, session)
  BY <1>3 DEF ReadFollows
<1>6. granted => ReadFollows(answer, saves, db, session)
  <2>. SUFFICES ASSUME granted  PROVE ReadFollows(answer, saves, db, session)
    OBVIOUS
  <2>1. session \in DOMAIN db.users
    BY DEF AnswersInv
  <2>2. told[2] = Tell(db, session, r.view, r.key)
    BY DEF told
  <2>3. r.view = "tables" => r.key \in Spaces
    BY DEF PermittedRead, SpaceForActor, Subject
  <2>4. r.view = "overview" => told[2].site = db.site /\ DOMAIN told[2].spaces \subseteq Spaces
    <3>1. Tell(db, session, "overview", r.key) = Overview(db, session)
      BY DEF Tell
    <3>2. Overview(db, session).site = db.site /\ DOMAIN Overview(db, session).spaces = AdminSpaces(db, session)
      BY DEF Overview
    <3>. QED  BY <2>2, <3>1, <3>2 DEF AdminSpaces
  <2>5. pure => saves = {}
    BY DEF pure
  <2>. QED  BY <1>4, <2>1, <2>2, <2>3, <2>4, <2>5 DEF ReadFollows
<1>7. \A x \in reads' : ReadFollows(x, saves, db, session)
  BY <1>1, <1>5, <1>6 DEF BooksInv
<1>. QED  BY <1>1, <1>7 DEF BooksInv, pageVars

\* While a request is under way no answer to a read is the last word.
LEMMA ReadsElse ==
  ASSUME NEW ss, ss # {}, NEW d, NEW u, NEW r, ReadFollows(r, ss, d, u), NEW ss2, NEW d2, NEW u2
  PROVE  ReadFollows(r, ss2, d2, u2)
BY DEF ReadFollows

\* The server handles a request.
LEMMA HandleBooks ==
  ASSUME AnswersInv, BooksInv, NEW a \in saves, HandleSave(a)
  PROVE  BooksInv'
<1>. DEFINE granted == session # NoUser /\ Permitted(db, session, a.q) /\ Accepted(db, session, a.q)
            after == IF granted THEN Applied(db, session, a.q) ELSE db
            told == <<a.q[1], IF granted THEN Told(after, session, a.q) ELSE Nothing>>
            a2 == [a EXCEPT !.phase = "answered", !.ok = granted, !.told = told]
<1>1. db' = after /\ saves' = (saves \ {a}) \cup {a2} /\ UNCHANGED <<pageVars, session, views, reads, site>>
      /\ a.phase = "sent"
  BY Zenon DEF HandleSave
<1>2. IsDatabase(db) /\ session \in DOMAIN db.users \cup {NoUser} /\ IsKept(a) /\ HasRows(db)
  BY DEF AnswersInv, BooksInv
<1>3. IsDatabase(db')
  BY HandleAnswers DEF AnswersInv
<1>4. granted \in BOOLEAN /\ told[2] = IF granted THEN Told(after, session, a.q) ELSE Nothing
  OBVIOUS
<1>5. granted => after = Applied(db, session, a.q) /\ session \in DOMAIN db.users
                 /\ Permitted(db, session, a.q) /\ Accepted(db, session, a.q)
  BY <1>2
<1>6. ~granted => after = db
  OBVIOUS
<1>. HIDE DEF granted, after, told
<1>7. /\ \A f \in {"q", "mine", "held", "roles", "count", "brand"} : a2[f] = a[f]
      /\ IsKept(a2) /\ (a2.ok <=> granted) /\ a2.told = told /\ ~a.ok
  BY <1>1, <1>2, <1>4 DEF IsKept, HasFields, SaveFields
<1>. HIDE DEF a2
<1>8. Serves(a, a2, db, db', session)
  BY <1>1, <1>2, <1>4, <1>5, <1>6, <1>7 DEF Serves
<1>9. Follows(views, Answered(saves, a, a2), db', session, ChannelOf(path), site)
  BY <1>2, <1>3, <1>8, FollowsServed DEF BooksInv
<1>10. HasRows(db')
  <2>1. CASE granted
    <3>1. a.q[1] = "user_new" => a.q[2] \in Users
      BY <1>2 DEF IsKept
    <3>. QED  BY <2>1, <3>1, <1>1, <1>2, <1>5, AppliedRows
  <2>2. CASE ~granted
    BY <2>2, <1>1, <1>2, <1>6
  <2>. QED  BY <2>1, <2>2
<1>11. \A r \in reads' : ReadFollows(r, saves', db', session')
  <2>1. saves # {} /\ \A r \in reads : ReadFollows(r, saves, db, session)
    BY DEF BooksInv
  <2>. QED  BY <1>1, <2>1, ReadsElse
<1>12. Follows(views', saves', db', session', ChannelOf(path'), site')
  BY <1>1, <1>9 DEF Answered, pageVars
<1>13. (\A x \in saves' : IsKept(x)) /\ KnownSpaces(views')
  BY <1>1, <1>7 DEF BooksInv
<1>. QED  BY <1>10, <1>11, <1>12, <1>13 DEF BooksInv

\* What an answer can tell of, to whom it is awaited by while a view is trusted.
LEMMA TrustedSaves ==
  ASSUME BooksInv, NEW v \in BookViews, Trusted(views, v), NEW a \in saves
  PROVE  /\ v = "keys" => a.mine /\ (a.q[1] \in KeyKinds => a.held)
         /\ v = "bindings" => a.mine /\ a.q[1] = "bind"
         /\ v = "tables" => a.mine /\ a.q[1] \in RoomKinds /\ a.q[2] = views["tables"].shown
         /\ v = "detail" => a.mine /\ a.held /\ a.q[1] \in SheetKinds
         /\ v = "overview" => a.mine /\ a.q[1] \in ConsoleKinds
<1>1. ViewFollows(v, views, saves, db, session, ChannelOf(path), site)
  BY DEF BooksInv, Follows
<1>. QED  BY <1>1 DEF ViewFollows, KeysFollow, BindingsFollow, TablesFollow, SheetFollows, OverviewFollows

\* Two databases in which the users have the same accounts but for those of New API.
AlikeButBound(d, d2) == \A f \in DatabaseFields : f # "bound" => d2[f] = d[f]

\* The overview, from the rows it is drawn from.
OverviewOf(rights, us, mine, tables, roles, s) ==
  LET told  == IF rights \cap {"users:read", "users:manage"} = {} THEN {} ELSE DOMAIN us
      shown == [x \in told |-> us[x]]
      count == [k \in mine |-> Cardinality(tables[k])]
  IN  [users       |-> shown,
       counts      |-> CountsOf(shown),
       spaces      |-> count,
       tables      |-> MapThenSumSet(LAMBDA k : count[k], DOMAIN count),
       permissions |-> rights,
       roles       |-> [key \in DOMAIN roles |->
                          [permissions |-> roles[key], user_count |-> UsersWith(us, key)]],
       site        |-> s]

\* What the pages tell of, but for the list of those accounts, is the same for both.
LEMMA TellAlike ==
  ASSUME NEW d, NEW d2, AlikeButBound(d, d2), NEW u
  PROVE  /\ \A v, k : v # "bindings" => Tell(d2, u, v, k) = Tell(d, u, v, k)
         /\ \A k : TellMember(d2, u, k) = TellMember(d, u, k)
<1>1. /\ d2.users = d.users /\ d2.roles = d.roles /\ d2.owner = d.owner /\ d2.tables = d.tables
      /\ d2.site = d.site /\ d2.mcp = d.mcp
  BY DEF AlikeButBound, DatabaseFields
<1>2. /\ RoleOf(d2, u) = RoleOf(d, u) /\ (IsSuper(d2, u) <=> IsSuper(d, u))
      /\ PermissionsForUser(d2, u) = PermissionsForUser(d, u)
      /\ \A s : Assigned(d2, u, s) <=> Assigned(d, u, s)
      /\ \A p : HasRight(d2, u, p) <=> HasRight(d, u, p)
  BY <1>1 DEF RoleOf, IsSuper, PermissionsForUser, Assigned, HasRight
<1>3. \A s : CanManage(d2, u, s) = CanManage(d, u, s) /\ SpaceForActor(d2, u, s) = SpaceForActor(d, u, s)
  BY <1>1, <1>2, Zenon DEF CanManage, ManagesSpace, SpaceForActor, SpaceForUser
<1>4. \A s : TellSpace(d2, u, s) = TellSpace(d, u, s)
  BY <1>1, <1>3, Zenon DEF TellSpace
<1>5. AdminSpaces(d2, u) = AdminSpaces(d, u)
  BY <1>1, <1>2, Zenon DEF AdminSpaces
<1>6. Overview(d2, u) = Overview(d, u)
  <2>1. \A e : Overview(e, u) = OverviewOf(PermissionsForUser(e, u), e.users, AdminSpaces(e, u), e.tables, e.roles, e.site)
    BY Zenon DEF Overview, OverviewOf
  <2>. QED  BY <1>1, <1>2, <1>5, <2>1
<1>7. ASSUME NEW v, NEW k, v # "bindings"  PROVE Tell(d2, u, v, k) = Tell(d, u, v, k)
  <2>1. [s \in {x \in Spaces : SpaceForActor(d2, u, x)} |-> TellSpace(d2, u, s)]
          = [s \in {x \in Spaces : SpaceForActor(d, u, x)} |-> TellSpace(d, u, s)]
    BY <1>3, <1>4, Zenon
  <2>. QED  BY <1>1, <1>4, <1>6, <1>7, <2>1 DEF Tell
<1>8. \A k : TellMember(d2, u, k) = TellMember(d, u, k)
  BY <1>1, <1>4, Zenon DEF TellMember
<1>. QED  BY <1>7, <1>8

\* An account in New API is shown in one list alone.
LEMMA FollowsAlike ==
  ASSUME NEW vs, NEW ss, NEW d, NEW u, NEW c, NEW s, Follows(vs, ss, d, u, c, s), ~Trusted(vs, "bindings"),
         NEW d2, AlikeButBound(d, d2)
  PROVE  Follows(vs, ss, d2, u, c, s)
<1>1. /\ d2.users = d.users /\ d2.roles = d.roles /\ d2.owner = d.owner /\ d2.tables = d.tables
      /\ d2.made = d.made /\ d2.site = d.site /\ d2.mcp = d.mcp
  BY DEF AlikeButBound, DatabaseFields
<1>2. SUFFICES ASSUME NEW v \in BookViews, Trusted(vs, v)
               PROVE  u \in DOMAIN d2.users /\ ViewFollows(v, vs, ss, d2, u, c, s)
  BY DEF Follows
<1>3. u \in DOMAIN d2.users /\ ViewFollows(v, vs, ss, d, u, c, s) /\ v # "bindings"
  BY <1>1, <1>2 DEF Follows
<1>4. CASE v = "keys"
  BY <1>1, <1>3, <1>4 DEF ViewFollows, KeysFollow
<1>5. CASE v = "tables"
  <2>1. Made(d2) = Made(d)
    BY <1>1 DEF Made
  <2>. QED  BY <1>1, <1>3, <1>5, <2>1 DEF ViewFollows, TablesFollow
<1>6. CASE v = "detail"
  BY <1>1, <1>3, <1>6 DEF ViewFollows, SheetFollows
<1>7. CASE v = "overview"
  <2>. DEFINE b == vs["overview"].content
              k == SheetKey(vs)
              n == SheetCount(vs)
  <2>1. OverviewFollows(b, ss, d, u, k, n, s)
    BY <1>3, <1>7 DEF ViewFollows
  <2>. HIDE DEF b, k, n
  <2>2. UsersFollow(b, ss, d2)
    <3>1. UsersFollow(b, ss, d)
      BY <2>1 DEF OverviewFollows
    <3>. QED  BY <1>1, <3>1 DEF UsersFollow, AccountTold
  <2>3. RolesFollow(b, ss, d2)
    <3>1. RolesFollow(b, ss, d)
      BY <2>1 DEF OverviewFollows
    <3>2. /\ UsersOf(b, d2) = UsersOf(b, d)
          /\ RolesMatch(b.roles, d2) <=> RolesMatch(b.roles, d)
      <4>1. UsersOf(b, d2) = UsersOf(b, d)
        BY <1>1 DEF UsersOf
      <4>2. RolesMatch(b.roles, d2) <=> RolesMatch(b.roles, d)
        BY <1>1 DEF RolesMatch
      <4>. QED  BY <4>1, <4>2
    <3>3. \A a : RoleTold(a, b.roles, d2) <=> RoleTold(a, b.roles, d)
      <4>1. \A roles : RolesMatch(roles, d2) <=> RolesMatch(roles, d)
        BY <1>1 DEF RolesMatch
      <4>2. ASSUME NEW a  PROVE RoleTold(a, b.roles, d2) <=> RoleTold(a, b.roles, d)
        <5>. DEFINE roles == RolesAfter(a, b.roles)
        <5>1. RolesMatch(roles, d2) <=> RolesMatch(roles, d)
          BY <4>1
        <5>. HIDE DEF roles
        <5>. QED  BY <1>1, <5>1 DEF RoleTold, roles
      <4>. QED  BY <4>2
    <3>. QED  BY <3>1, <3>2, <3>3 DEF RolesFollow
  <2>4. SiteFollows(b, ss, d2, s)
    BY <1>1, <2>1 DEF OverviewFollows, SiteFollows
  <2>5. SpacesFollow(b, ss, d2, u, k, n)
    <3>1. SpacesFollow(b, ss, d, u, k, n)
      BY <2>1 DEF OverviewFollows
    <3>2. SpacesTold(d2, u, b.permissions) = SpacesTold(d, u, b.permissions)
      <4>1. /\ RoleOf(d2, u) = RoleOf(d, u)
            /\ \A x : Assigned(d2, u, x) <=> Assigned(d, u, x)
        BY <1>1 DEF RoleOf, Assigned
      <4>2. IsSuper(d2, u) <=> IsSuper(d, u)
        BY <4>1 DEF IsSuper
      <4>3. {x \in Spaces : d2.owner[x] = u \/ Assigned(d2, u, x)} = {x \in Spaces : d.owner[x] = u \/ Assigned(d, u, x)}
        BY <1>1, <4>1
      <4>. QED  BY <4>2, <4>3 DEF SpacesTold
    <3>. QED  BY <1>1, <3>1, <3>2 DEF SpacesFollow
  <2>6. OverviewFollows(b, ss, d2, u, k, n, s)
    BY <2>1, <2>2, <2>3, <2>4, <2>5 DEF OverviewFollows
  <2>. QED  BY <1>3, <1>7, <2>6 DEF ViewFollows, b, k, n
<1>. QED  BY <1>3, <1>4, <1>5, <1>6, <1>7 DEF BookViews

\* New API makes an account, and the rows stay what they are.
LEMMA WithAccountRows ==
  ASSUME NEW d, IsDatabase(d), HasRows(d), NEW u, u \in DOMAIN d.users, NEW k, SpaceForUser(d, u, k),
         NEW d2, d2 = WithAccountAt(d, u, k)
  PROVE  HasRows(d2) /\ AlikeButBound(d, d2)
<1>. DEFINE q == <<"bind", k>>
<1>1. Permitted(d, u, q) /\ Accepted(d, u, q) /\ q[1] = "bind"
  BY DEF Permitted, Accepted
<1>2. d2 = Applied(d, u, q)
  BY Zenon DEF Applied, WithAccountAt
<1>. HIDE DEF q
<1>3. HasRows(d2)
  BY <1>1, <1>2, AppliedRows
<1>4. AlikeButBound(d, d2)
  BY <1>1, <1>2, AppliedBinding DEF AlikeButBound
<1>. QED  BY <1>3, <1>4

\* The server makes an account before it answers a read of a channel: the list of the
\* accounts is not held for right then.
LEMMA AccountReadBooks ==
  ASSUME PagesInv, AnswersInv, BooksInv, NEW r \in reads, AccountMade(r)
  PROVE  BooksInv'
<1>. DEFINE told == IF r.view = "detail" THEN Tell(db, session, r.view, r.key) ELSE TellMember(db, session, r.key)
            pure == r.pure /\ saves = {}
            x == [r EXCEPT !.phase = "answered", !.ok = TRUE, !.pure = pure, !.answer = <<r.view, told>>]
<1>1. /\ db' = WithAccountAt(db, session, r.key) /\ UNCHANGED <<pageVars, session, saves, site>>
      /\ reads' = {Unaware(y) : y \in reads \ {r}} \cup {x}
      /\ views' = [v \in DOMAIN views |-> IF v = "bindings" THEN [views[v] EXCEPT !.clean = FALSE] ELSE views[v]]
  BY Zenon DEF AccountMade
<1>2. /\ IsDatabase(db) /\ HasRows(db) /\ session \in DOMAIN db.users
      /\ SpaceForUser(db, session, r.key) /\ r.view \in ChannelLookups
  BY DEF AnswersInv, BooksInv, AccountMade
<1>3. HasRows(db') /\ AlikeButBound(db, db')
  BY <1>1, <1>2, WithAccountRows
<1>4. (\A y \in reads : IsRead(y)) /\ \A v \in DOMAIN views : IsView(views[v])
  BY DEF PagesInv, Tidy, TidyRead, TidyView
<1>5. /\ db'.users = db.users /\ db'.site = db.site
      /\ \A v, k : v # "bindings" => Tell(db', session, v, k) = Tell(db, session, v, k)
  BY <1>3, TellAlike DEF AlikeButBound, DatabaseFields
<1>6. /\ x.view = r.view /\ x.key = r.key /\ x.phase = "answered" /\ x.pure = pure
      /\ x.answer = <<r.view, told>>
  <2>. HIDE DEF told, pure
  <2>. QED  BY <1>4 DEF IsRead, HasFields, ReadFields
<1>. HIDE DEF x
<1>7. ReadFollows(x, saves, db', session)
  <2>0. (pure => saves = {}) /\ x.answer[2] = told
    BY <1>6
  <2>1. r.view \in BookViews => r.view = "detail" /\ told = Tell(db', session, r.view, r.key)
    BY <1>2, <1>5 DEF ChannelLookups, BookViews
  <2>2. r.view \notin {"tables", "overview"}
    BY <1>2 DEF ChannelLookups
  <2>. HIDE DEF told, pure
  <2>. QED  BY <1>2, <1>5, <1>6, <2>0, <2>1, <2>2 DEF ReadFollows
<1>8. ASSUME NEW y \in reads  PROVE ReadFollows(Unaware(y), saves, db', session)
  <2>1. ReadFollows(y, saves, db, session)
    BY DEF BooksInv
  <2>2. CASE y.view = "bindings" /\ y.phase = "answered"
    <3>. DEFINE z == [y EXCEPT !.pure = FALSE]
    <3>1. ~z.pure /\ z.ok = y.ok /\ z.phase = y.phase /\ z.view = y.view
      BY <1>4 DEF IsRead, HasFields, ReadFields
    <3>2. Unaware(y) = z
      BY <2>2 DEF Unaware
    <3>. HIDE DEF z
    <3>. QED  BY <2>1, <2>2, <3>1, <3>2 DEF ReadFollows
  <2>3. CASE ~(y.view = "bindings" /\ y.phase = "answered")
    <3>1. Unaware(y) = y
      BY <2>3 DEF Unaware
    <3>2. ReadFollows(y, saves, db', session)
      BY <1>5, <2>1, <2>3 DEF ReadFollows
    <3>. QED  BY <3>1, <3>2
  <2>. QED  BY <2>2, <2>3
<1>9. \A y \in reads' : ReadFollows(y, saves', db', session')
  BY <1>1, <1>7, <1>8
<1>10. /\ DOMAIN views' = DOMAIN views /\ \A v \in DOMAIN views : v # "bindings" => views'[v] = views[v]
       /\ ~Trusted(views', "bindings")
  BY <1>1, <1>4 DEF Trusted, IsView, HasFields, ViewFields
<1>11. Follows(views', saves, db, session, ChannelOf(path), site)
  <2>1. SheetKey(views') = SheetKey(views) /\ SheetCount(views') = SheetCount(views)
    BY <1>10 DEF SheetKey, SheetCount
  <2>2. \A v \in BookViews : Trusted(views', v) =>
          Trusted(views, v) /\ views'[v].content = views[v].content /\ views'[v].shown = views[v].shown
    BY <1>10 DEF Trusted
  <2>. QED  BY <2>1, <2>2, FollowsLike DEF BooksInv
<1>12. Follows(views', saves, db', session, ChannelOf(path), site)
  BY <1>3, <1>10, <1>11, FollowsAlike
<1>13. KnownSpaces(views')
  BY <1>10 DEF BooksInv, KnownSpaces
<1>. QED  BY <1>1, <1>3, <1>9, <1>12, <1>13 DEF BooksInv, pageVars

\* The server handles a join, and New API makes an account with it: nothing is
\* trusted then that shows one.
LEMMA JoinedAccountBooks ==
  ASSUME AnswersInv, BooksInv, NEW a \in saves, JoinedWithAccount(a)
  PROVE  BooksInv'
<1>. DEFINE joined == Applied(db, session, a.q)
            after == WithAccountAt(joined, session, a.q[2])
            told == <<a.q[1], Told(after, session, a.q)>>
            a2 == [a EXCEPT !.phase = "answered", !.ok = TRUE, !.told = told]
<1>1. /\ db' = after /\ saves' = (saves \ {a}) \cup {a2}
      /\ UNCHANGED <<pageVars, session, views, reads, site>>
      /\ a.phase = "sent" /\ a.q[1] = "join" /\ session # NoUser
  BY Zenon DEF JoinedWithAccount
<1>2. IsDatabase(db) /\ session \in DOMAIN db.users /\ IsKept(a) /\ HasRows(db) /\ a.q[2] \in Spaces
  BY <1>1 DEF AnswersInv, BooksInv, IsSave
<1>3. Permitted(db, session, a.q) /\ Accepted(db, session, a.q)
  BY <1>1 DEF Permitted, Accepted
<1>4. IsDatabase(joined) /\ session \in DOMAIN joined.users /\ SpaceForUser(joined, session, a.q[2])
  BY <1>1, <1>2, <1>3, AppliedDatabase, JoinedUser
<1>5. HasRows(joined)
  BY <1>1, <1>2, <1>3, AppliedRows
<1>6. joined = Applied(db, session, a.q) /\ told[2] = Told(after, session, a.q)
  OBVIOUS
<1>. HIDE DEF joined
<1>7. HasRows(after) /\ AlikeButBound(joined, after)
  BY <1>4, <1>5, WithAccountRows
<1>. HIDE DEF after
<1>8. told[2] = Told(joined, session, a.q)
  <2>1. Told(after, session, a.q) = TellMember(after, session, a.q[2])
        /\ Told(joined, session, a.q) = TellMember(joined, session, a.q[2])
    BY <1>1 DEF Told
  <2>. QED  BY <1>6, <1>7, <2>1, TellAlike
<1>. HIDE DEF told
<1>9. /\ \A f \in {"q", "mine", "held", "roles", "count", "brand"} : a2[f] = a[f]
      /\ IsKept(a2) /\ a2.ok /\ a2.told = told /\ ~a.ok
  BY <1>1, <1>2 DEF IsKept, HasFields, SaveFields
<1>. HIDE DEF a2
<1>10. Serves(a, a2, db, joined, session)
  BY <1>2, <1>3, <1>6, <1>8, <1>9 DEF Serves
<1>11. Follows(views, Answered(saves, a, a2), joined, session, ChannelOf(path), site)
  BY <1>2, <1>4, <1>10, FollowsServed DEF BooksInv
<1>12. ~Trusted(views, "bindings")
  BY <1>1, TrustedSaves DEF BookViews
<1>13. Follows(views', saves', db', session', ChannelOf(path'), site')
  <2>1. Follows(views, Answered(saves, a, a2), after, session, ChannelOf(path), site)
    BY <1>7, <1>11, <1>12, FollowsAlike
  <2>. QED  BY <1>1, <2>1 DEF Answered, pageVars
<1>14. \A r \in reads' : ReadFollows(r, saves', db', session')
  <2>1. saves # {} /\ \A r \in reads : ReadFollows(r, saves, db, session)
    BY DEF BooksInv
  <2>. QED  BY <1>1, <2>1, ReadsElse
<1>15. (\A y \in saves' : IsKept(y)) /\ KnownSpaces(views')
  BY <1>1, <1>9 DEF BooksInv
<1>. QED  BY <1>1, <1>7, <1>13, <1>14, <1>15 DEF BooksInv

\* A request goes, and with it perhaps what is shown.
LEMMA DropBooks ==
  ASSUME PagesInv, BooksInv, NEW a \in saves, saves' = saves \ {a}, UNCHANGED <<pageVars, session, reads, site, db>>,
         views' = Soiled(views) \/ (views' = views /\ \A v \in BookViews : Trusted(views, v) => Harmless(v, a))
  PROVE  BooksInv'
<1>1. \A r \in reads : ReadFollows(r, saves', db, session)
  <2>1. saves # {} /\ \A r \in reads : ReadFollows(r, saves, db, session)
    BY DEF BooksInv
  <2>. QED  BY <2>1, ReadsElse
<1>2. \A v \in DOMAIN views : IsView(views[v])
  BY DEF PagesInv, Tidy, TidyView
<1>3. Follows(views', saves', db, session, ChannelOf(path), site) /\ KnownSpaces(views')
  <2>1. CASE views' = Soiled(views)
    BY <1>2, <2>1, FollowsSoiled, SoiledSpaces DEF BooksInv
  <2>2. CASE views' = views /\ \A v \in BookViews : Trusted(views, v) => Harmless(v, a)
    BY <2>2, FollowsDrop DEF BooksInv
  <2>. QED  BY <2>1, <2>2
<1>. QED  BY <1>1, <1>3 DEF BooksInv, pageVars

\* An answer gets lost: what is shown may be out of date then.
LEMMA LostBooks ==
  ASSUME PagesInv, BooksInv, NEW a \in saves, LoseReply(a) \/ SaveRefused(a)
  PROVE  BooksInv'
<1>1. /\ saves' = saves \ {a} /\ UNCHANGED <<pageVars, session, reads, site, db>>
      /\ views' = Soiled(views) \/ (views' = views /\ ~a.ok)
  BY DEF LoseReply, SaveRefused
<1>. QED  BY <1>1, DropBooks DEF Harmless

\* Nobody waits for the answer any more, or it changes nothing that is shown.
LEMMA GoneBooks ==
  ASSUME PagesInv, BooksInv, NEW a \in saves, PageIsGone(a)
  PROVE  BooksInv'
<1>1. saves' = saves \ {a} /\ UNCHANGED <<pageVars, session, reads, site, db, views>>
  BY DEF PageIsGone
<1>2. ASSUME NEW v \in BookViews, Trusted(views, v)  PROVE Harmless(v, a)
  <2>1. \/ a.q[1] \in {"adjust", "amount", "reset"}
        \/ a.q[1] \in KeyKinds /\ ~a.held
        \/ ~a.mine
    BY DEF PageIsGone, Succeeds
  <2>2. IsKept(a)
    BY DEF BooksInv
  <2>. QED
    BY <1>2, <2>1, <2>2, TrustedSaves DEF Harmless, BookViews, IsKept, BookKinds, RoomKinds, SheetKinds,
       ConsoleKinds, KeyKinds, UserKinds, RoleKinds, SiteKinds, CountKinds
<1>. QED  BY <1>1, <1>2, DropBooks

\* An edit leaves the channels of the books as they were.
LEMMA EditedSpaces ==
  ASSUME AnswersInv, BooksInv, NEW vs, Edits(views, vs)
  PROVE  KnownSpaces(vs)
<1>1. CASE "overview" \notin DOMAIN vs
  BY <1>1 DEF KnownSpaces
<1>2. CASE "overview" \in DOMAIN vs
  <2>1. "overview" \in DOMAIN views /\ Right(views, reads, path, Openable) /\ KnownSpaces(views)
    BY <1>2 DEF Edits, AnswersInv, BooksInv
  <2>. QED  BY <2>1, EditedBooks DEF KnownSpaces
<1>. QED  BY <1>1, <1>2

\* App is rendered again after an answer has edited what is shown.
LEMMA EditBooks ==
  ASSUME PagesInv, AnswersInv, BooksInv, NEW a \in saves, NEW u, NEW p, NEW sel, NEW vs,
         Show(u, p, sel, vs, reads, saves \ {a}), UNCHANGED <<session, db>>, Edits(views, vs),
         Follows(vs, saves \ {a}, db, session, ChannelOf(path), site'),
         sel = selected \/ ScreenNow # "room"
  PROVE  BooksInv'
<1>1. DOMAIN vs = NamesOf(ScreenNow, path, vs["overview"])
  BY EditsStand DEF AnswersInv
<1>2. FirstViews(ScreenNow) \subseteq DOMAIN vs
  BY <1>1 DEF NamesOf
<1>3. KnownSpaces(vs)
  BY EditedSpaces
<1>4. \A r \in reads : IsRead(r) /\ ReadFollows(r, saves \ {a}, db, session)
  <2>1. saves # {} /\ \A r \in reads : IsRead(r) /\ ReadFollows(r, saves, db, session)
    BY DEF PagesInv, Tidy, TidyRead, BooksInv
  <2>. QED  BY <2>1, ReadsElse
<1>5. (\A x \in saves \ {a} : IsKept(x)) /\ HasRows(db)
  BY DEF BooksInv
<1>. QED  BY <1>1, <1>2, <1>3, <1>4, <1>5, ShowBooks

\* The answer changes nothing that is shown.
LEMMA UneditedBooks ==
  ASSUME PagesInv, AnswersInv, BooksInv, NEW a \in saves, NEW u, NEW p, NEW sel,
         Show(u, p, sel, views, reads, saves \ {a}), UNCHANGED <<session, db, site>>,
         \A v \in BookViews : Trusted(views, v) => Harmless(v, a),
         sel = selected \/ ScreenNow # "room"
  PROVE  BooksInv'
<1>1. Edits(views, views)
  BY EditsMade DEF PagesInv, Tidy, TidyView
<1>2. Follows(views, saves \ {a}, db, session, ChannelOf(path), site)
  BY FollowsDrop DEF BooksInv
<1>. QED  BY <1>1, <1>2, EditBooks

\* It changes the books alone.
LEMMA BooksEdited ==
  ASSUME PagesInv, AnswersInv, BooksInv, NEW a \in saves, a.q[1] \in UserKinds \cup RoleKinds \cup SiteKinds,
         NEW books, NEW s, Becomes(a, WithBooks(a, books), s), SameBooks(Books, books),
         OverviewFollows(Books, saves, db, session, SheetKey(views), SheetCount(views), site)
           => OverviewFollows(books, saves \ {a}, db, session, SheetKey(views), SheetCount(views), s)
  PROVE  BooksInv'
<1>. DEFINE vs == WithBooks(a, books)
            c == ChannelOf(path)
<1>1. /\ Show(user, path, selected, vs, reads, saves \ {a})
      /\ UNCHANGED <<session, db>> /\ site' = s
  BY DEF Becomes
<1>2. \A v \in DOMAIN views : IsView(views[v])
  BY DEF PagesInv, Tidy, TidyView
<1>3. Edits(views, vs)
  BY <1>2, EditsMade DEF WithBooks, Books, ChannelLists
<1>4. /\ DOMAIN vs = DOMAIN views
      /\ \A v \in DOMAIN views : v # "overview" => vs[v] = views[v]
      /\ "overview" \in DOMAIN views => /\ vs["overview"].clean = views["overview"].clean
                                        /\ vs["overview"].shown = views["overview"].shown
                                        /\ HasBooks(a) => vs["overview"].content = books
  BY <1>2 DEF WithBooks, IsView, HasFields, ViewFields
<1>. HIDE DEF vs
<1>5. SheetKey(vs) = SheetKey(views) /\ SheetCount(vs) = SheetCount(views)
  BY <1>4 DEF SheetKey, SheetCount
<1>6. ASSUME NEW v \in BookViews, Trusted(vs, v)
      PROVE  session \in DOMAIN db.users /\ ViewFollows(v, vs, saves \ {a}, db, session, c, s)
  <2>1. Trusted(views, v)
    BY <1>4, <1>6 DEF Trusted
  <2>2. session \in DOMAIN db.users /\ ViewFollows(v, views, saves, db, session, c, site)
    BY <2>1 DEF BooksInv, Follows
  <2>3. v \in {"keys", "overview"}
    BY <2>1, TrustedSaves DEF BookViews, RoomKinds, SheetKinds, UserKinds, RoleKinds, SiteKinds
  <2>4. CASE v = "keys"
    <3>1. KeysFollow(views["keys"], saves \ {a}, db, session)
      BY <2>2, <2>4, KeysDrop DEF ViewFollows, KeyKinds, UserKinds, RoleKinds, SiteKinds
    <3>2. vs["keys"] = views["keys"]
      BY <1>4, <2>1, <2>4 DEF Trusted
    <3>. QED  BY <2>2, <2>4, <3>1, <3>2 DEF ViewFollows
  <2>5. CASE v = "overview"
    <3>1. HasBooks(a)
      BY <2>1, <2>5, TrustedSaves DEF HasBooks, Trusted
    <3>2. vs["overview"].content = books
      BY <3>1, <1>4 DEF HasBooks
    <3>3. OverviewFollows(Books, saves, db, session, SheetKey(views), SheetCount(views), site)
      BY <2>2, <2>5 DEF ViewFollows, Books
    <3>. QED  BY <1>5, <2>2, <2>5, <3>2, <3>3 DEF ViewFollows
  <2>. QED  BY <2>3, <2>4, <2>5
<1>7. Follows(vs, saves \ {a}, db, session, c, site')
  BY <1>1, <1>6 DEF Follows
<1>. QED  BY <1>1, <1>3, <1>7, EditBooks

\* A setting was saved.
LEMMA SettingBooks ==
  ASSUME PagesInv, AnswersInv, BooksInv, NEW a \in saves, a.ok, a.q[1] \in SiteKinds,
         NEW new, DOMAIN new = Tells(a.q), \A f \in DOMAIN new : new[f] = Setting(a, f), SettingArrives(a, new)
  PROVE  BooksInv'
<1>. DEFINE books == [Books EXCEPT !.site = Altered(Books.site, new)]
            s == Altered(site, new)
<1>1. Becomes(a, WithBooks(a, books), s)
  BY Zenon DEF SettingArrives
<1>2. SameBooks(Books, books)
  BY BooksSame
<1>3. OverviewFollows(Books, saves, db, session, SheetKey(views), SheetCount(views), site)
        => OverviewFollows(books, saves \ {a}, db, session, SheetKey(views), SheetCount(views), s)
  BY OverviewSite
<1>. HIDE DEF books, s
<1>. QED  BY <1>1, <1>2, <1>3, BooksEdited

\* Which settings an answer tells of.
LEMMA SettingsBooks ==
  ASSUME PagesInv, AnswersInv, BooksInv, NEW a \in saves,
         RegistrationSaved(a) \/ BrandSaved(a) \/ FaviconReset(a) \/ LoginHeroSaved(a) \/ WeChatLoginSaved(a)
  PROVE  BooksInv'
<1>1. CASE RegistrationSaved(a)
  <2>. DEFINE new == [registration |-> a.q[2]]
  <2>1. SettingArrives(a, new) /\ a.ok /\ a.q[1] = "registration"
    BY <1>1 DEF RegistrationSaved, Succeeds
  <2>2. DOMAIN new = Tells(a.q) /\ \A f \in DOMAIN new : new[f] = Setting(a, f)
    BY <2>1 DEF Tells, Setting
  <2>. HIDE DEF new
  <2>. QED  BY <2>1, <2>2, SettingBooks DEF SiteKinds
<1>2. CASE LoginHeroSaved(a)
  <2>. DEFINE new == [hero |-> a.q[2]]
  <2>1. SettingArrives(a, new) /\ a.ok /\ a.q[1] = "hero"
    BY <1>2 DEF LoginHeroSaved, Succeeds
  <2>2. DOMAIN new = Tells(a.q) /\ \A f \in DOMAIN new : new[f] = Setting(a, f)
    BY <2>1 DEF Tells, Setting
  <2>. HIDE DEF new
  <2>. QED  BY <2>1, <2>2, SettingBooks DEF SiteKinds
<1>3. CASE WeChatLoginSaved(a)
  <2>. DEFINE new == [wechat |-> a.q[2]]
  <2>1. SettingArrives(a, new) /\ a.ok /\ a.q[1] = "wechat"
    BY <1>3 DEF WeChatLoginSaved, Succeeds
  <2>2. DOMAIN new = Tells(a.q) /\ \A f \in DOMAIN new : new[f] = Setting(a, f)
    BY <2>1 DEF Tells, Setting
  <2>. HIDE DEF new
  <2>. QED  BY <2>1, <2>2, SettingBooks DEF SiteKinds
<1>4. CASE BrandSaved(a)
  <2>. DEFINE new == [name |-> a.told[2].name, icon |-> a.told[2].icon]
  <2>1. SettingArrives(a, new) /\ a.ok /\ a.q[1] \in {"name", "icon"} /\ a.q # <<"icon", "default">>
    BY <1>4 DEF BrandSaved, Succeeds
  <2>2. DOMAIN new = Tells(a.q) /\ \A f \in DOMAIN new : new[f] = Setting(a, f)
    BY <2>1 DEF Tells, Setting
  <2>. HIDE DEF new
  <2>. QED  BY <2>1, <2>2, SettingBooks DEF SiteKinds
<1>5. CASE FaviconReset(a)
  <2>. DEFINE new == [icon |-> "default", name |-> a.brand]
  <2>1. SettingArrives(a, new) /\ a.ok /\ a.q[1] = "icon" /\ a.q = <<"icon", "default">>
    BY <1>5 DEF FaviconReset, Succeeds
  <2>2. DOMAIN new = Tells(a.q) /\ \A f \in DOMAIN new : new[f] = Setting(a, f)
    BY <2>1 DEF Tells, Setting
  <2>. HIDE DEF new
  <2>. QED  BY <2>1, <2>2, SettingBooks DEF SiteKinds
<1>. QED  BY <1>1, <1>2, <1>3, <1>4, <1>5

\* An account was saved or deleted, or is hidden from the ranking or shown there.
LEMMA AccountBooks ==
  ASSUME PagesInv, AnswersInv, BooksInv, NEW a \in saves, UserSaved(a) \/ UserDeleted(a) \/ RankingToggled(a)
  PROVE  BooksInv'
<1>. DEFINE us == IF a.q[1] = "user_delete" THEN [y \in DOMAIN Books.users \ {a.q[2]} |-> Books.users[y]]
                  ELSE WithAccount(Books.users, a.q[2], a.told[2])
            books == RecalculateOverview(Books, us)
<1>1. a.ok /\ a.q[1] \in UserKinds
  BY DEF UserSaved, UserDeleted, RankingToggled, Succeeds, UserKinds
<1>2. Becomes(a, WithBooks(a, books), site)
  <2>1. CASE UserDeleted(a)
    <3>1. a.q[1] = "user_delete" /\ Becomes(a, WithBooks(a, WithoutUser(Books, a.q[2])), site)
      BY <2>1 DEF UserDeleted, Succeeds
    <3>2. books = WithoutUser(Books, a.q[2])
      BY <3>1, Zenon DEF WithoutUser
    <3>. QED  BY <3>1, <3>2, Zenon
  <2>2. CASE UserSaved(a) \/ RankingToggled(a)
    <3>1. a.q[1] # "user_delete" /\ Becomes(a, WithBooks(a, WithUser(Books, a.q[2], a.told[2])), site)
      BY <2>2 DEF UserSaved, RankingToggled, Succeeds
    <3>2. books = WithUser(Books, a.q[2], a.told[2])
      BY <3>1, Zenon DEF WithUser
    <3>. QED  BY <3>1, <3>2, Zenon
  <2>. QED  BY <2>1, <2>2
<1>3. SameBooks(Books, books)
  BY BooksSame
<1>4. OverviewFollows(Books, saves, db, session, SheetKey(views), SheetCount(views), site)
        => OverviewFollows(books, saves \ {a}, db, session, SheetKey(views), SheetCount(views), site)
  <2>1. us = IF a.q[1] = "user_delete" THEN [y \in DOMAIN Books.users \ {a.q[2]} |-> Books.users[y]]
             ELSE WithAccount(Books.users, a.q[2], a.told[2])
    OBVIOUS
  <2>2. books = RecalculateOverview(Books, us)
    OBVIOUS
  <2>. HIDE DEF us, books
  <2>. QED  BY <1>1, <2>1, <2>2, OverviewUsers
<1>. HIDE DEF us, books
<1>. QED  BY <1>1, <1>2, <1>3, <1>4, BooksEdited

\* A role was saved or deleted.
LEMMA RoleBooks ==
  ASSUME PagesInv, AnswersInv, BooksInv, NEW a \in saves, RolesSaved(a)
  PROVE  BooksInv'
<1>. DEFINE roles == IF a.q[1] = "role_save" THEN RoleSaved(a.roles, a.q[2], a.told[2])
                     ELSE RoleDeleted(a.roles, a.q[2])
            books == [Books EXCEPT !.roles = roles]
<1>1. a.ok /\ a.q[1] \in RoleKinds /\ Becomes(a, WithBooks(a, books), site)
  BY Zenon DEF RolesSaved, Succeeds
<1>2. SameBooks(Books, books)
  BY BooksSame
<1>3. roles = RolesAfter(a, a.roles)
  BY <1>1 DEF RolesAfter, RoleKinds
<1>4. OverviewFollows(Books, saves, db, session, SheetKey(views), SheetCount(views), site)
        => OverviewFollows(books, saves \ {a}, db, session, SheetKey(views), SheetCount(views), site)
  <2>1. books = [Books EXCEPT !.roles = RolesAfter(a, a.roles)]
    BY <1>3
  <2>. HIDE DEF books
  <2>. QED  BY <1>1, <2>1, OverviewRoles
<1>. HIDE DEF books
<1>. QED  BY <1>1, <1>2, <1>4, BooksEdited

\* One list of a page is edited, the answer having changed none of the others.
LEMMA ContentBooks ==
  ASSUME PagesInv, AnswersInv, BooksInv, NEW a \in saves, NEW n \in {"keys", "tables", "bindings"},
         NEW x, Becomes(a, [views EXCEPT ![n].content = x], site),
         n = "bindings" => DOMAIN x \subseteq DOMAIN views[n].content,
         \A v \in BookViews : v # n /\ Trusted(views, v) => Harmless(v, a),
         \A w : Trusted(views, n) /\ w.content = x /\ w.shown = views[n].shown =>
           /\ n = "keys" /\ KeysFollow(views["keys"], saves, db, session) => KeysFollow(w, saves \ {a}, db, session)
           /\ n = "tables" /\ TablesFollow(views["tables"], saves, db, ChannelOf(path))
                => TablesFollow(w, saves \ {a}, db, ChannelOf(path))
           /\ n = "bindings" /\ BindingsFollow(views["bindings"], saves, db, session)
                => BindingsFollow(w, saves \ {a}, db, session)
  PROVE  BooksInv'
<1>. DEFINE old == views[n]
            new == [old EXCEPT !.content = x]
            vs == [views EXCEPT ![n] = new]
            c == ChannelOf(path)
<1>1. Show(user, path, selected, vs, reads, saves \ {a}) /\ UNCHANGED <<session, db, site>>
  BY Zenon DEF Becomes
<1>2. \A v \in DOMAIN views : IsView(views[v])
  BY DEF PagesInv, Tidy, TidyView
<1>3. n \in DOMAIN views => IsView(old)
  BY <1>2
<1>4. DOMAIN vs = DOMAIN views /\ \A v \in DOMAIN views : vs[v] = IF v = n THEN new ELSE views[v]
  OBVIOUS
<1>. HIDE DEF old, vs
<1>5. IsView(old) => /\ new.content = x /\ new.shown = old.shown /\ new.clean = old.clean
                     /\ new.asked = old.asked /\ new.loading = old.loading /\ new.failed = old.failed
  BY DEF IsView, HasFields, ViewFields
<1>. HIDE DEF new
<1>6. Edits(views, vs)
  <2>1. \A v \in DOMAIN views : Edited(v, views[v], vs[v])
    BY <1>3, <1>4, <1>5 DEF Edited, ChannelLists, SameBooks, old
  <2>. QED  BY <1>4, <2>1 DEF Edits
<1>7. SheetKey(vs) = SheetKey(views) /\ SheetCount(vs) = SheetCount(views)
  BY <1>4 DEF SheetKey, SheetCount
<1>8. ASSUME NEW v \in BookViews, Trusted(vs, v)
      PROVE  session \in DOMAIN db.users /\ ViewFollows(v, vs, saves \ {a}, db, session, c, site)
  <2>1. Trusted(views, v)
    BY <1>3, <1>4, <1>5, <1>8 DEF Trusted, old
  <2>2. session \in DOMAIN db.users /\ ViewFollows(v, views, saves, db, session, c, site)
    BY <2>1 DEF BooksInv, Follows
  <2>3. CASE v # n
    <3>1. ViewFollows(v, views, saves \ {a}, db, session, c, site)
      BY <2>1, <2>2, <2>3, ViewDrop
    <3>2. vs[v].content = views[v].content /\ vs[v].shown = views[v].shown
      BY <1>4, <2>1, <2>3 DEF Trusted
    <3>. QED  BY <1>7, <2>2, <3>1, <3>2, ViewLike
  <2>4. CASE v = n
    <3>1. vs[n].content = x /\ vs[n].shown = views[n].shown
      BY <1>3, <1>4, <1>5, <2>1, <2>4 DEF Trusted, old
    <3>. QED  BY <2>1, <2>2, <2>4, <3>1 DEF ViewFollows
  <2>. QED  BY <2>3, <2>4
<1>9. Follows(vs, saves \ {a}, db, session, c, site')
  BY <1>1, <1>8 DEF Follows
<1>. QED  BY <1>1, <1>6, <1>9, EditBooks

\* A key was made, given back or switched.
LEMMA KeyBooks ==
  ASSUME PagesInv, AnswersInv, BooksInv, NEW a \in saves, KeyGenerated(a) \/ KeyRevoked(a) \/ AgentSwitched(a)
  PROVE  BooksInv'
<1>. DEFINE keys == views["keys"].content
            x == KeyAfter(keys, a.q)
<1>1. a.ok /\ a.q[1] \in KeyKinds
  BY DEF KeyGenerated, KeyRevoked, AgentSwitched, Succeeds, KeyKinds
<1>2. Becomes(a, [views EXCEPT !["keys"].content = x], site)
  BY DEF KeyGenerated, KeyRevoked, AgentSwitched, KeysShow, Succeeds, KeyAfter
<1>3. x = KeyAfter(views["keys"].content, a.q)
  OBVIOUS
<1>. HIDE DEF x
<1>4. \A w : w.content = x /\ KeysFollow(views["keys"], saves, db, session) => KeysFollow(w, saves \ {a}, db, session)
  BY <1>1, <1>3, KeysShown
<1>5. ASSUME NEW v \in BookViews, v # "keys", Trusted(views, v)  PROVE Harmless(v, a)
  BY <1>1, <1>5, TrustedSaves DEF Harmless, BookViews, KeyKinds, RoomKinds, SheetKinds, ConsoleKinds, UserKinds,
     RoleKinds, SiteKinds
<1>. QED  BY <1>2, <1>4, <1>5, ContentBooks

\* An account of a channel was given.
LEMMA BindingBooks ==
  ASSUME PagesInv, AnswersInv, BooksInv, NEW a \in saves, BindingUpdated(a)
  PROVE  BooksInv'
<1>. DEFINE old == views["bindings"].content
            x == [s \in DOMAIN old |-> old[s] \/ s = a.q[2]]
<1>1. a.ok /\ a.q[1] = "bind"
  BY DEF BindingUpdated, Succeeds
<1>2. Becomes(a, [views EXCEPT !["bindings"].content = x], site)
  BY Zenon DEF BindingUpdated
<1>3. DOMAIN x = DOMAIN old /\ x = [s \in DOMAIN views["bindings"].content |-> views["bindings"].content[s] \/ s = a.q[2]]
  OBVIOUS
<1>. HIDE DEF x
<1>4. \A w : w.content = x /\ BindingsFollow(views["bindings"], saves, db, session)
               => BindingsFollow(w, saves \ {a}, db, session)
  BY <1>1, <1>3, BindingsShown
<1>5. ASSUME NEW v \in BookViews, v # "bindings", Trusted(views, v)  PROVE Harmless(v, a)
  BY <1>1, <1>5, TrustedSaves DEF Harmless, BookViews, KeyKinds, RoomKinds, SheetKinds, ConsoleKinds, UserKinds,
     RoleKinds, SiteKinds
<1>. QED  BY <1>2, <1>3, <1>4, <1>5, ContentBooks

\* On the page of a channel there are no keys, bindings or books of the console.
LEMMA RoomAlone ==
  ASSUME AnswersInv, ScreenNow = "room", NEW v \in BookViews, Trusted(views, v)
  PROVE  v = "tables"
BY BookPlaces DEF AnswersInv, Standing, Trusted, BookViews

\* A table of the page's channel was made, cleared or deleted.
LEMMA RoomBooks ==
  ASSUME PagesInv, AnswersInv, BooksInv, NEW a \in saves, TableCreated(a) \/ RoomTableDone(a)
  PROVE  BooksInv'
<1>. DEFINE rows == views["tables"].content
            c == ChannelOf(path)
<1>1. a.ok /\ ScreenNow = "room"
  BY DEF TableCreated, RoomTableDone, Succeeds, InRoom
<1>2. \A v \in BookViews : v # "tables" /\ Trusted(views, v) => Harmless(v, a)
  BY <1>1, RoomAlone
<1>3. CASE a.q[1] = "table_clear"
  <2>1. Becomes(a, views, site)
    BY <1>3 DEF TableCreated, RoomTableDone, Succeeds
  <2>2. Harmless("tables", a)
    BY <1>3 DEF Harmless
  <2>. QED  BY <1>2, <2>1, <2>2, UneditedBooks DEF Becomes
<1>4. CASE a.q[1] = "table_new"
  <2>. DEFINE x == WithTable(rows, a.told[2])
  <2>1. Becomes(a, [views EXCEPT !["tables"].content = x], site)
    BY <1>4, Zenon DEF TableCreated, RoomTableDone, Succeeds
  <2>2. \A w : w.content = x /\ w.shown = views["tables"].shown /\ TablesFollow(views["tables"], saves, db, c)
                 => TablesFollow(w, saves \ {a}, db, c)
    BY <1>1, <1>4, TablesGrow
  <2>. HIDE DEF x
  <2>. QED  BY <1>2, <2>1, <2>2, ContentBooks
<1>5. CASE a.q[1] = "table_delete"
  <2>. DEFINE x == WithoutTable(rows, a.q[3])
  <2>1. Becomes(a, [views EXCEPT !["tables"].content = x], site)
    BY <1>5, Zenon DEF TableCreated, RoomTableDone, Succeeds
  <2>2. \A w : w.content = x /\ w.shown = views["tables"].shown /\ TablesFollow(views["tables"], saves, db, c)
                 => TablesFollow(w, saves \ {a}, db, c)
    BY <1>1, <1>5, TablesShrink
  <2>. HIDE DEF x
  <2>. QED  BY <1>2, <2>1, <2>2, ContentBooks
<1>. QED  BY <1>3, <1>4, <1>5 DEF TableCreated, RoomTableDone, Succeeds

\* On the page of the console there is the sheet, and there are the books.
LEMMA ConsoleAlone ==
  ASSUME AnswersInv, ScreenNow = "console", NEW v \in BookViews, Trusted(views, v)
  PROVE  v \in {"detail", "overview"}
BY BookPlaces DEF AnswersInv, Standing, Trusted, BookViews

\* A table of the sheet was cleared: it shows the same rows.
LEMMA ClearedBooks ==
  ASSUME PagesInv, AnswersInv, BooksInv, NEW a \in saves, SheetTableCleared(a)
  PROVE  BooksInv'
<1>1. a.q[1] = "table_clear" /\ ScreenNow = "console" /\ Becomes(a, views, site)
  BY DEF SheetTableCleared, Succeeds, InSheet
<1>2. \A v \in BookViews : Trusted(views, v) => Harmless(v, a)
  BY <1>1, ConsoleAlone DEF Harmless, BookKinds, UserKinds, RoleKinds, SiteKinds, CountKinds
<1>. QED  BY <1>1, <1>2, UneditedBooks DEF Becomes

\* The sheet is edited, and what the books say of its channel.
LEMMA SheetBooks ==
  ASSUME PagesInv, AnswersInv, BooksInv, NEW a \in saves, a.ok, a.q[1] \in CountKinds, ScreenNow = "console",
         NEW rows, NEW count, SheetShows(a, rows, count),
         count = IF a.q[1] = "connection" THEN a.count ELSE IF a.count = 0 THEN 0 ELSE a.count - 1,
         rows = IF a.q[1] = "connection" THEN views["detail"].content ELSE WithoutTable(views["detail"].content, a.q[3])
  PROVE  BooksInv'
<1>. DEFINE old == views["detail"]
            sheet == [old EXCEPT !.content = rows, !.count = count]
            mid == IF a.held THEN [views EXCEPT !["detail"] = sheet] ELSE views
            books == SpaceChanged(mid["overview"].content, a.q[2], count)
            vs == [mid EXCEPT !["overview"].content = books]
            c == ChannelOf(path)
<1>1. \A v \in DOMAIN views : IsView(views[v])
  BY DEF PagesInv, Tidy, TidyView
<1>2. Becomes(a, vs, site)
  BY Zenon DEF SheetShows
<1>3. DOMAIN mid = DOMAIN views /\ \A v \in DOMAIN views : mid[v] = IF a.held /\ v = "detail" THEN sheet ELSE views[v]
  OBVIOUS
<1>4. "detail" \in DOMAIN views => /\ IsView(sheet) /\ Edited("detail", old, sheet)
                                   /\ sheet.content = rows /\ sheet.count = count /\ sheet.asked = old.asked
                                   /\ sheet.shown = old.shown /\ sheet.clean = old.clean
  <2>1. "detail" \in DOMAIN views => IsView(old)
    BY <1>1
  <2>. HIDE DEF old
  <2>2. IsView(old) => /\ IsView(sheet) /\ sheet.content = rows /\ sheet.count = count
                       /\ sheet.asked = old.asked /\ sheet.shown = old.shown /\ sheet.clean = old.clean
                       /\ sheet.loading = old.loading /\ sheet.failed = old.failed
    BY DEF IsView, HasFields, ViewFields
  <2>3. "detail" \in DOMAIN views => /\ IsView(sheet) /\ sheet.content = rows /\ sheet.count = count
                                     /\ sheet.asked = old.asked /\ sheet.shown = old.shown /\ sheet.clean = old.clean
                                     /\ sheet.loading = old.loading /\ sheet.failed = old.failed
    BY <2>1, <2>2
  <2>. HIDE DEF sheet
  <2>. QED  BY <2>3 DEF Edited, ChannelLists
<1>5. SameBooks(mid["overview"].content, books)
  BY BooksSame
<1>6. "overview" \in DOMAIN views => mid["overview"] = views["overview"]
  BY <1>3
<1>7. books = SpaceChanged(mid["overview"].content, a.q[2], count)
  OBVIOUS
<1>8. vs = [mid EXCEPT !["overview"].content = books]
  OBVIOUS
<1>. HIDE DEF sheet, mid, books
<1>9. ASSUME NEW v \in DOMAIN views  PROVE IsView(mid[v]) /\ Edited(v, views[v], mid[v])
  BY <1>1, <1>3, <1>4, <1>9 DEF Edited, SameBooks, old
<1>10. Edits(views, mid) /\ \A v \in DOMAIN mid : IsView(mid[v])
  BY <1>3, <1>9 DEF Edits
<1>11. Edits(mid, vs)
  BY <1>5, <1>10, EditsMade DEF ChannelLists
<1>12. Edits(views, vs)
  BY <1>10, <1>11, EditsTwice
<1>13. /\ DOMAIN vs = DOMAIN views
       /\ \A v \in DOMAIN views : v # "overview" => vs[v] = mid[v]
       /\ "overview" \in DOMAIN views => /\ vs["overview"].content = books
                                         /\ vs["overview"].shown = views["overview"].shown
                                         /\ vs["overview"].clean = views["overview"].clean
  <2>. DEFINE w == mid["overview"]
              w2 == [w EXCEPT !.content = books]
  <2>1. vs = [mid EXCEPT !["overview"] = w2]
    BY <1>8
  <2>2. "overview" \in DOMAIN views => IsView(w) /\ w = views["overview"]
    BY <1>3, <1>6, <1>10
  <2>. HIDE DEF vs, w
  <2>3. IsView(w) => w2.content = books /\ w2.shown = w.shown /\ w2.clean = w.clean
    BY DEF IsView, HasFields, ViewFields
  <2>. HIDE DEF w2
  <2>. QED  BY <1>3, <2>1, <2>2, <2>3
<1>. HIDE DEF vs
<1>14. ASSUME Trusted(vs, "detail")
       PROVE  session \in DOMAIN db.users /\ ViewFollows("detail", vs, saves \ {a}, db, session, c, site)
  <2>1. "detail" \in DOMAIN views /\ vs["detail"] = mid["detail"]
    BY <1>13, <1>14 DEF Trusted
  <2>2. Trusted(views, "detail")
    BY <1>3, <1>4, <1>14, <2>1 DEF Trusted, old
  <2>3. a.held
    BY <2>2, TrustedSaves DEF BookViews
  <2>4. vs["detail"].content = rows /\ vs["detail"].shown = old.shown
    BY <1>3, <1>4, <2>1, <2>3
  <2>5. session \in DOMAIN db.users /\ SheetFollows(old, saves, db)
    BY <2>2 DEF BooksInv, Follows, ViewFollows, BookViews
  <2>. DEFINE new == vs["detail"]
  <2>6. new.content = rows /\ new.shown = old.shown
    BY <2>4
  <2>. HIDE DEF new
  <2>7. CASE a.q[1] = "connection"
    <3>1. SheetFollows(new, saves \ {a}, db)
      BY <2>5, <2>6, <2>7, SheetDrop
    <3>. QED  BY <2>5, <3>1 DEF ViewFollows, new
  <2>8. CASE a.q[1] = "table_delete"
    <3>1. new.content = WithoutTable(old.content, a.q[3])
      BY <2>6, <2>8
    <3>2. SheetFollows(new, saves \ {a}, db)
      BY <2>5, <2>6, <2>8, <3>1, SheetShrinks
    <3>. QED  BY <2>5, <3>2 DEF ViewFollows, new
  <2>. QED  BY <2>7, <2>8 DEF CountKinds
<1>15. ASSUME Trusted(vs, "overview")
       PROVE  session \in DOMAIN db.users /\ ViewFollows("overview", vs, saves \ {a}, db, session, c, site)
  <2>. DEFINE k == SheetKey(views)
              n == SheetCount(views)
              m == SheetCount(vs)
  <2>1. Trusted(views, "overview") /\ vs["overview"].content = books
    BY <1>13, <1>15 DEF Trusted
  <2>2. session \in DOMAIN db.users /\ OverviewFollows(Books, saves, db, session, k, n, site)
    BY <2>1 DEF BooksInv, Follows, ViewFollows, BookViews, Books
  <2>3. HasRows(db) /\ IsKept(a)
    BY DEF BooksInv
  <2>4. a.held => "detail" \in DOMAIN views
    <3>1. SpacesFollow(Books, saves, db, session, k, n)
      BY <2>2 DEF OverviewFollows
    <3>2. DOMAIN Books.spaces \subseteq Spaces
      BY <2>3, <3>1, SpacesNumbers
    <3>3. a.held => k \in Spaces
      BY <3>1, <3>2 DEF SpacesFollow
    <3>. QED  BY <3>3, KeysAssumption DEF SheetKey
  <2>5. SheetKey(vs) = k
    BY <1>3, <1>4, <1>13 DEF SheetKey
  <2>6. (a.held => m = count) /\ (~a.held => m = n)
    BY <1>3, <1>4, <1>13, <2>4 DEF SheetCount
  <2>7. books = SpaceChanged(Books, a.q[2], count)
    BY <1>6, <1>7, <2>1 DEF Trusted, Books
  <2>. HIDE DEF k, n, m
  <2>8. OverviewFollows(books, saves \ {a}, db, session, k, m, site)
    BY <2>2, <2>3, <2>6, <2>7, OverviewSpaces
  <2>. QED  BY <2>1, <2>2, <2>5, <2>8 DEF ViewFollows, m
<1>16. Follows(vs, saves \ {a}, db, session, c, site)
  <2>1. ASSUME NEW v \in BookViews, Trusted(vs, v)  PROVE v \in {"detail", "overview"}
    <3>1. v \in DOMAIN views
      BY <1>13, <2>1 DEF Trusted
    <3>. QED  BY <3>1, BookPlaces DEF AnswersInv, Standing, BookViews
  <2>. QED  BY <1>14, <1>15, <2>1 DEF Follows
<1>. QED  BY <1>2, <1>12, <1>16, EditBooks DEF Becomes

\* The connection of a channel was saved, or a table of its sheet deleted.
LEMMA SheetsBooks ==
  ASSUME PagesInv, AnswersInv, BooksInv, NEW a \in saves, ConnectionSaved(a) \/ SheetTableDeleted(a)
  PROVE  BooksInv'
<1>1. a.ok /\ ScreenNow = "console"
  BY DEF ConnectionSaved, SheetTableDeleted, Succeeds, InSheet
<1>2. CASE ConnectionSaved(a)
  <2>1. a.q[1] = "connection" /\ SheetShows(a, views["detail"].content, a.count)
    BY <1>2 DEF ConnectionSaved, Succeeds
  <2>. QED  BY <1>1, <2>1, SheetBooks DEF CountKinds
<1>3. CASE SheetTableDeleted(a)
  <2>. DEFINE rows == WithoutTable(views["detail"].content, a.q[3])
              count == IF a.count = 0 THEN 0 ELSE a.count - 1
  <2>1. a.q[1] = "table_delete" /\ SheetShows(a, rows, count)
    BY <1>3 DEF SheetTableDeleted, Succeeds
  <2>2. /\ count = IF a.q[1] = "connection" THEN a.count ELSE IF a.count = 0 THEN 0 ELSE a.count - 1
        /\ rows = IF a.q[1] = "connection" THEN views["detail"].content ELSE WithoutTable(views["detail"].content, a.q[3])
    BY <2>1
  <2>. HIDE DEF rows, count
  <2>. QED  BY <1>1, <2>1, <2>2, SheetBooks DEF CountKinds
<1>. QED  BY <1>2, <1>3

\* The ranking is loaded again.
LEMMA RankingBooks ==
  ASSUME PagesInv, AnswersInv, BooksInv, NEW a \in saves, RankingsChanged(a)
  PROVE  BooksInv'
<1>. DEFINE key == a.q[2]
            old == views["rankings"]
            w == Asked(old, key)
            vs == [views EXCEPT !["rankings"] = w]
            rs == Superseded("rankings", reads) \cup {Read("rankings", key)}
            c == ChannelOf(path)
<1>1. Show(user, path, selected, vs, rs, saves \ {a}) /\ UNCHANGED <<session, db, site>> /\ a.q[1] \in {"amount", "reset"}
  BY Zenon DEF RankingsChanged, Succeeds
<1>2. \A r \in reads : IsRead(r) /\ ReadFollows(r, saves, db, session)
  BY DEF PagesInv, Tidy, TidyRead, BooksInv
<1>3. \A r \in rs : IsRead(r)
  BY <1>2, SupersededReads, NewRead DEF ViewNames
<1>4. \A r \in rs : ReadFollows(r, saves, db, session)
  BY <1>2, SupersededFollow
<1>5. \A r \in rs : ReadFollows(r, saves \ {a}, db, session)
  <2>1. saves # {}
    OBVIOUS
  <2>. HIDE DEF rs
  <2>. QED  BY <1>4, <2>1, ReadsElse
<1>6. DOMAIN vs = DOMAIN views /\ \A v \in BookViews : vs[v] = views[v]
  BY DEF BookViews
<1>. HIDE DEF vs, rs
<1>7. vs["overview"] = views["overview"]
  BY <1>6 DEF BookViews
<1>8. \A v \in BookViews : Trusted(views, v) => Harmless(v, a)
  BY <1>1, TrustedSaves DEF Harmless, BookViews, KeyKinds, RoomKinds, BookKinds, UserKinds, RoleKinds, SiteKinds, CountKinds
<1>9. Follows(views, saves \ {a}, db, session, c, site)
  BY <1>8, FollowsDrop DEF BooksInv
<1>10. Follows(vs, saves \ {a}, db, session, c, site)
  <2>1. SheetKey(vs) = SheetKey(views) /\ SheetCount(vs) = SheetCount(views)
    BY <1>6 DEF SheetKey, SheetCount, BookViews
  <2>2. \A v \in BookViews : Trusted(vs, v) =>
          Trusted(views, v) /\ vs[v].content = views[v].content /\ vs[v].shown = views[v].shown
    BY <1>6 DEF Trusted
  <2>. QED  BY <1>9, <2>1, <2>2, FollowsLike
<1>11. KnownSpaces(vs)
  BY <1>6, <1>7 DEF KnownSpaces, BooksInv
<1>12. DOMAIN vs = NamesOf(ScreenNow, path, vs["overview"])
  BY <1>6, <1>7 DEF AnswersInv, Standing
<1>13. FirstViews(ScreenNow) \subseteq DOMAIN vs
  BY <1>12 DEF NamesOf
<1>14. (\A x \in saves \ {a} : IsKept(x)) /\ HasRows(db)
  BY DEF BooksInv
<1>. QED  BY <1>1, <1>3, <1>5, <1>10, <1>11, <1>12, <1>13, <1>14, ShowBooks

\* The profile or the credentials were changed: no view is about them.
LEMMA ProfileBooks ==
  ASSUME PagesInv, AnswersInv, BooksInv, NEW a \in saves, ProfileUpdated(a) \/ CredentialsUpdated(a)
  PROVE  BooksInv'
<1>1. /\ Show(a.told[2], path, selected, views, reads, saves \ {a}) /\ UNCHANGED <<session, site, db>>
      /\ a.q[1] \in {"profile", "avatar", "credentials"}
  BY DEF ProfileUpdated, CredentialsUpdated, Succeeds
<1>2. \A v \in BookViews : Trusted(views, v) => Harmless(v, a)
  BY <1>1, TrustedSaves DEF Harmless, BookViews, KeyKinds, RoomKinds, BookKinds, UserKinds, RoleKinds, SiteKinds, CountKinds
<1>. QED  BY <1>1, <1>2, UneditedBooks

\* A channel was joined: the page of a channel, if it is shown, goes on with that
\* one, and nothing of it is trusted.
LEMMA JoinBooks ==
  ASSUME PagesInv, AnswersInv, BooksInv, NEW a \in saves, SpaceJoined(a)
  PROVE  BooksInv'
<1>. DEFINE sel == a.told[2]
            p == <<"channels", sel.id>>
<1>1. a.q[1] = "join" /\ UNCHANGED <<session, site, db>>
  BY DEF SpaceJoined, Succeeds
<1>2. \A v \in BookViews : Trusted(views, v) => v \in {"keys"} /\ Harmless(v, a)
  BY <1>1, TrustedSaves DEF Harmless, BookViews, KeyKinds, RoomKinds, SheetKinds, ConsoleKinds, UserKinds, RoleKinds, SiteKinds
<1>3. CASE ScreenNow # "room"
  <2>1. Show(user, p, sel, views, reads, saves \ {a})
    BY <1>3 DEF SpaceJoined
  <2>. HIDE DEF sel, p
  <2>. QED  BY <1>1, <1>2, <1>3, <2>1, UneditedBooks
<1>4. CASE ScreenNow = "room"
  <2>1. Show(user, p, sel, RoomFollows(sel), RoomAsks(sel), saves \ {a})
    BY <1>4 DEF SpaceJoined
  <2>2. Tidy(RoomFollows(sel), RoomAsks(sel), sel.id) /\ DOMAIN RoomFollows(sel) = DOMAIN views
    BY RoomMoves
  <2>. HIDE DEF sel, p
  <2>. DEFINE vs == RoomFollows(sel)
              rs == RoomAsks(sel)
  <2>3. DOMAIN views = {"about", "tables"}
    BY <1>4 DEF AnswersInv, Standing, NamesOf, FirstViews
  <2>4. ~Trusted(vs, "tables")
    <3>1. IsView(views["tables"]) /\ ~Trusted(views, "tables")
      BY <1>2, <2>3 DEF PagesInv, Tidy, TidyView, BookViews
    <3>2. CASE sel.id = ChannelOf(path)
      <4>1. vs["tables"] = views["tables"]
        BY <2>3, <3>2 DEF RoomFollows
      <4>. QED  BY <2>2, <3>1, <4>1 DEF Trusted
    <3>3. CASE sel.id # ChannelOf(path)
      <4>1. PICK before : vs = Soiled(before)
        BY <3>3, Zenon DEF RoomFollows
      <4>2. IsView(vs["tables"]) /\ "tables" \in DOMAIN vs
        BY <2>2, <2>3 DEF Tidy, TidyView
      <4>. HIDE DEF vs
      <4>3. "tables" \in DOMAIN before /\ vs["tables"] = [before["tables"] EXCEPT !.clean = FALSE]
        BY <4>1, <4>2 DEF Soiled
      <4>4. vs["tables"].clean = FALSE
        BY <4>2, <4>3 DEF IsView, HasFields, ViewFields
      <4>. QED  BY <4>4 DEF Trusted
    <3>. QED  BY <3>2, <3>3
  <2>5. \A r \in rs : IsRead(r)
    BY <2>2 DEF Tidy, TidyRead
  <2>6. \A r \in reads : IsRead(r) /\ ReadFollows(r, saves, db, session)
    BY DEF PagesInv, Tidy, TidyRead, BooksInv
  <2>7. \A r \in rs : ReadFollows(r, saves, db, session)
    <3>1. CASE rs = reads
      BY <2>6, <3>1
    <3>2. CASE rs # reads
      <4>1. \A r \in rs : \/ \E x \in reads : r = [x EXCEPT !.pure = FALSE]
                          \/ \E v, key : r = Read(v, key)
        BY <3>2, Zenon DEF RoomAsks
      <4>2. \A x : IsRead(x) /\ ReadFollows(x, saves, db, session) =>
              ReadFollows([x EXCEPT !.pure = FALSE], saves, db, session)
        <5>1. ASSUME NEW x, IsRead(x), ReadFollows(x, saves, db, session), NEW y, y = [x EXCEPT !.pure = FALSE]
              PROVE  ReadFollows(y, saves, db, session)
          <6>1. /\ y.pure = FALSE /\ y.ok = x.ok /\ y.phase = x.phase /\ y.view = x.view /\ y.key = x.key
                /\ y.answer = x.answer
            BY <5>1 DEF IsRead, HasFields, ReadFields
          <6>. QED  BY <5>1, <6>1 DEF ReadFollows
        <5>. QED  BY <5>1
      <4>3. \A v, key : ReadFollows(Read(v, key), saves, db, session)
        BY ReadKeeps
      <4>. HIDE DEF rs
      <4>. QED  BY <2>6, <4>1, <4>2, <4>3
    <3>. QED  BY <3>1, <3>2
  <2>8. \A r \in rs : ReadFollows(r, saves \ {a}, db, session)
    <3>1. saves # {}
      OBVIOUS
    <3>. HIDE DEF rs
    <3>. QED  BY <2>7, <3>1, ReadsElse
  <2>. HIDE DEF vs, rs
  <2>9. DOMAIN vs = {"about", "tables"}
    BY <2>2, <2>3 DEF vs
  <2>10. Follows(vs, saves \ {a}, db, session, ChannelOf(path), site) /\ KnownSpaces(vs)
    BY <2>4, <2>9 DEF Follows, Trusted, KnownSpaces, BookViews
  <2>11. DOMAIN vs \subseteq NamesOf(ScreenNow, path, vs["overview"]) /\ FirstViews(ScreenNow) \subseteq DOMAIN vs
    BY <1>4, <2>9 DEF NamesOf, FirstViews
  <2>12. (\A x \in saves \ {a} : IsKept(x)) /\ HasRows(db)
    BY DEF BooksInv
  <2>13. Show(user, p, sel, vs, rs, saves \ {a})
    BY <2>1 DEF vs, rs
  <2>. QED  BY <1>1, <2>4, <2>5, <2>8, <2>10, <2>11, <2>12, <2>13, ShowBooks
<1>. QED  BY <1>3, <1>4

\* Whatever answer arrives, the copy stays right.
LEMMA SavedBooks ==
  ASSUME PagesInv, AnswersInv, BooksInv, NEW a \in saves, SaveArrives(a)
  PROVE  BooksInv'
BY LostBooks, GoneBooks, SettingsBooks, AccountBooks, RoleBooks, RankingBooks, SheetsBooks, ClearedBooks, RoomBooks,
   KeyBooks, BindingBooks, ProfileBooks, JoinBooks DEF SaveArrives

-----------------------------------------------------------------------------
(* What the pages send *)

\* What the sections of the users and of the channels send.
LEMMA UsersGiven ==
  ASSUME NEW books, NEW me, NEW q \in UsersSection(books, me)
  PROVE  /\ q[1] \in {"user_new", "user_edit", "user_delete"} /\ "users:manage" \in books.permissions
         /\ q[1] = "user_new" => q[2] \in Users
<1>1. CASE q \in CreateUserDialog(books)
  <2>1. "users:manage" \in books.permissions
    BY <1>1 DEF CreateUserDialog
  <2>2. PICK x \in Users \ DOMAIN books.users, key \in RoleSelect(books, "player") : q = <<"user_new", x, key>>
    BY <1>1, <2>1 DEF CreateUserDialog
  <2>. QED  BY <2>1, <2>2
<1>2. CASE q \notin CreateUserDialog(books)
  <2>1. PICK x \in DOMAIN books.users : CanEdit(books, me, x) /\ q \in EditUserDialog(books, x) \cup DeleteUserDialog(me, x)
    BY <1>2 DEF UsersSection
  <2>2. CASE q \in EditUserDialog(books, x)
    <3>. DEFINE given(key) == IF RoleUsesChannelScope(books, key) THEN ChannelScopeField(books, x) ELSE {{}}
    <3>. HIDE DEF given
    <3>1. PICK key \in RoleSelect(books, books.users[x].role) :
            q \in {<<"user_edit", x, key, status, managed>> : status \in {"active", "disabled"}, managed \in given(key)}
      BY <2>2 DEF EditUserDialog, given
    <3>2. q[1] = "user_edit"
      BY <3>1
    <3>. QED  BY <2>1, <3>2 DEF CanEdit
  <2>3. CASE q \in DeleteUserDialog(me, x)
    <3>1. \E force : q = <<"user_delete", x, force>>
      BY <2>3 DEF DeleteUserDialog
    <3>. QED  BY <2>1, <3>1 DEF CanEdit
  <2>. QED  BY <2>1, <2>2, <2>3
<1>. QED  BY <1>1, <1>2

\* What the sheet offers is about the channel it shows, and the tables in it.
LEMMA SheetOffered ==
  ASSUME NEW view, NEW q \in ChannelManager(view)
  PROVE  /\ q[1] \in SheetKinds /\ q[2] = view.asked /\ view.asked # Nowhere /\ view.shown # Nowhere
         /\ q[1] = "table_delete" => q[3] \in DOMAIN view.content
<1>1. /\ view.asked # Nowhere /\ view.shown # Nowhere
      /\ \/ q = <<"connection", view.asked>>
         \/ \E kind \in {"table_clear", "table_delete"}, t \in DOMAIN view.content : q = <<kind, view.asked, t>>
  BY DEF ChannelManager
<1>. QED  BY <1>1 DEF SheetKinds

\* What the page of a channel sends.
LEMMA RoomOffered ==
  ASSUME NEW vs, NEW q \in ChannelMain(vs)
  PROVE  q[1] \in RoomKinds /\ (q[1] = "table_delete" => q[3] \in DOMAIN vs["tables"].content)
<1>. DEFINE about == vs["about"].content
            rows == vs["tables"].content
<1>1. \/ q = <<"table_new", about.id>>
      \/ \E kind \in {"table_clear", "table_delete"}, t \in DOMAIN rows : q = <<kind, about.id, t>>
  BY DEF ChannelMain, CreateTableDialog, TableManagement
<1>. HIDE DEF about, rows
<1>2. q[1] \in RoomKinds /\ (q[1] = "table_delete" => q[3] \in DOMAIN rows)
  BY <1>1 DEF RoomKinds
<1>. QED  BY <1>2 DEF rows

\* What the console sends: about accounts only what somebody who sees them may; of
\* the sheet only while it is shown.
LEMMA ConsoleOffered ==
  ASSUME NEW me, NEW p, NEW vs, NEW q \in AdminConsole(me, p, vs), NEW b, b = vs["overview"].content
  PROVE  /\ Loaded(vs["overview"])
         /\ q[1] \in ConsoleKinds
         /\ q[1] = "user_new" => q[2] \in Users
         /\ q[1] \in UserKinds => "users:manage" \in b.permissions \/ q[2] \in DOMAIN b.users
         /\ q[1] \in SheetKinds \/ "detail" \in ConsoleViews(p, vs["overview"]) =>
              "detail" \in ConsoleViews(p, vs["overview"]) /\ q \in ChannelManager(vs["detail"])
<1>. DEFINE section == ParseRoute(p).section
            overview == vs["overview"]
            views_ == ConsoleViews(p, overview)
<1>1. Loaded(overview) /\ SectionAllowed(b, section)
  BY DEF AdminConsole
<1>2. section \in Sections
  BY <1>1 DEF SectionAllowed, Sections
<1>3. "detail" \in views_ <=> section = "channels"
  BY <1>1, <1>2 DEF ConsoleViews, Sections
<1>. HIDE DEF views_
<1>4. CASE section = "users"
  <2>1. q \in UsersSection(b, me)
    BY <1>1, <1>4 DEF AdminConsole
  <2>. QED  BY <1>1, <1>3, <1>4, <2>1, UsersGiven DEF ConsoleKinds, UserKinds, SheetKinds, views_
<1>5. CASE section = "roles"
  <2>1. q \in RoleManager(b)
    BY <1>1, <1>5 DEF AdminConsole
  <2>2. q[1] \in RoleKinds
    BY <2>1, RolesOffered DEF RoleKinds
  <2>. QED  BY <1>1, <1>3, <1>5, <2>2 DEF ConsoleKinds, UserKinds, RoleKinds, SheetKinds, views_
<1>6. CASE section = "rankings"
  <2>. DEFINE ranking == vs["rankings"]
  <2>1. q \in RankingManager(b, ranking)
    BY <1>1, <1>6 DEF AdminConsole
  <2>. HIDE DEF ranking
  <2>2. q[1] \in {"hide", "reset", "amount"} /\ (q[1] = "hide" => q[2] \in DOMAIN b.users)
    BY <2>1 DEF RankingManager
  <2>. QED  BY <1>1, <1>3, <1>6, <2>2 DEF ConsoleKinds, UserKinds, SheetKinds, views_
<1>7. CASE section = "channels"
  <2>1. q \in ChannelManager(vs["detail"])
    BY <1>1, <1>7 DEF AdminConsole
  <2>2. q[1] \in SheetKinds
    BY <2>1, SheetOffered
  <2>. QED  BY <1>1, <1>3, <1>7, <2>1, <2>2 DEF ConsoleKinds, UserKinds, SheetKinds, views_
<1>8. CASE section = "balances"
  <2>. DEFINE balances == vs["balances"]
  <2>1. q \in BalanceManager(balances)
    BY <1>1, <1>8 DEF AdminConsole
  <2>. HIDE DEF balances
  <2>2. q[1] = "adjust"
    BY <2>1 DEF BalanceManager
  <2>. QED  BY <1>1, <1>3, <1>8, <2>2 DEF ConsoleKinds, UserKinds, SheetKinds, views_
<1>9. CASE section = "settings"
  <2>1. q \in Branding(b) \cup LoginHero(b) \cup WeChatLoginSettings(b) \cup RegistrationPolicy(b)
    BY <1>1, <1>9 DEF AdminConsole
  <2>2. q[1] \in SiteKinds
    BY <2>1 DEF Branding, LoginHero, WeChatLoginSettings, RegistrationPolicy, SiteKinds
  <2>. QED  BY <1>1, <1>3, <1>9, <2>2 DEF ConsoleKinds, UserKinds, SiteKinds, SheetKinds, views_
<1>. QED
  <2>1. CASE section \notin {"users", "roles", "rankings", "channels", "balances", "settings"}
    BY <1>1, <2>1 DEF SectionAllowed
  <2>. QED  BY <1>4, <1>5, <1>6, <1>7, <1>8, <1>9, <2>1

\* What is sent to make an account names one there may be.
LEMMA MadeOffered ==
  ASSUME NEW me, NEW p, NEW screen, NEW vs, NEW q \in Offers(me, p, screen, vs), q[1] = "user_new"
  PROVE  q[2] \in Users
<1>1. CASE screen = "lobby"
  BY <1>1 DEF Offers, SpaceDialog
<1>2. CASE screen = "room"
  BY <1>2, RoomOffered DEF Offers, RoomKinds
<1>3. CASE screen = "bindings"
  BY <1>3 DEF Offers, BindingDialog
<1>4. CASE screen = "settings"
  BY <1>4 DEF Offers, ProfileSettings, AccountSecuritySettings, MCPKeySettings
<1>5. CASE screen = "balances"
  BY <1>5 DEF Offers, BalanceManager
<1>6. CASE screen = "console"
  BY <1>6, ConsoleOffered DEF Offers
<1>. QED  BY <1>1, <1>2, <1>3, <1>4, <1>5, <1>6 DEF Offers

\* What the handler of a request keeps.
LEMMA KeptIs ==
  ASSUME NEW q, q[1] = "user_new" => q[2] \in Users
  PROVE  /\ IsKept(Kept(q)) /\ Kept(q).q = q /\ Kept(q).mine /\ Kept(q).held /\ ~Kept(q).ok
         /\ q[1] \in RoleKinds => Kept(q).roles = Books.roles
         /\ q[1] = "icon" => Kept(q).brand = Books.site.name
         /\ Kept(q).count = SheetCount(views)
<1>1. HasFields(Kept(q), SaveFields)
  BY DEF Kept, HasFields, SaveFields
<1>. QED  BY <1>1 DEF IsKept, Kept, Books, SheetCount

\* A request of the console goes out that spoils nothing.
LEMMA OverviewSubmitted ==
  ASSUME PagesInv, AnswersInv, BooksInv, Trusted(views, "overview"), NEW q \in Offers(user, path, ScreenNow, views),
         ~Blocked(q), \A c \in saves : ~Overlap(c.q, q)
  PROVE  OverviewFollows(Books, saves \cup {Kept(q)}, db, session, SheetKey(views), SheetCount(views), site)
<1>. DEFINE a == Kept(q)
            k == SheetKey(views)
            n == SheetCount(views)
<1>1. OverviewFollows(Books, saves, db, session, k, n, site)
  BY DEF BooksInv, Follows, ViewFollows, BookViews, Books
<1>2. ScreenNow = "console" /\ q \in AdminConsole(user, path, views)
  <2>1. ScreenNow = "console"
    BY BookPlaces DEF AnswersInv, Standing, Trusted, BookViews
  <2>. QED  BY <2>1 DEF Offers
<1>3. /\ Loaded(views["overview"]) /\ q[1] \in ConsoleKinds
      /\ q[1] = "user_new" => q[2] \in Users
      /\ q[1] \in UserKinds => "users:manage" \in Books.permissions \/ q[2] \in DOMAIN Books.users
      /\ q[1] \in SheetKinds => "detail" \in ConsoleViews(path, views["overview"]) /\ q \in ChannelManager(views["detail"])
  BY <1>2, ConsoleOffered DEF Books
<1>4. /\ IsKept(a) /\ a.q = q /\ a.mine /\ a.held /\ ~a.ok
      /\ q[1] \in RoleKinds => a.roles = Books.roles
      /\ q[1] = "icon" => a.brand = Books.site.name
      /\ a.count = n
  BY <1>3, KeptIs
<1>5. q[1] \in UserKinds => Sees(Books.permissions) /\ \A c \in saves : c.q[1] \in UserKinds => c.q[2] # q[2]
  <2>1. UsersFollow(Books, saves, db)
    BY <1>1 DEF OverviewFollows
  <2>2. q[1] \in UserKinds => Sees(Books.permissions)
    BY <1>3, <2>1 DEF UsersFollow, Sees
  <2>. QED  BY <2>2 DEF Overlap
<1>6. q[1] \in UserKinds => \A c \in saves : c.q[1] \notin RoleKinds
  BY DEF Overlap
<1>7. q[1] \in RoleKinds => \A c \in saves : c.q[1] \notin RoleKinds \cup UserKinds
  BY DEF Overlap
<1>8. \A c \in saves : ~Meet(q, c.q)
  <2>1. \A c \in saves : c.mine
    BY <1>1 DEF OverviewFollows
  <2>2. ASSUME NEW c \in saves, Meet(q, c.q)  PROVE {c.q[1], q[1]} \subseteq {"name", "icon"} \/ c.q[1] = q[1]
    <3>1. PICK f \in Tells(q) : f \in Tells(c.q)
      BY <2>2 DEF Meet
    <3>. QED  BY <2>2, <3>1 DEF Meet, Tells, SiteKinds
  <2>3. ASSUME NEW c \in saves, Meet(q, c.q)  PROVE FALSE
    <3>1. CASE {c.q[1], q[1]} \subseteq {"name", "icon"}
      BY <3>1 DEF Overlap
    <3>2. CASE c.q[1] = q[1] /\ q[1] \in {"registration", "hero"}
      BY <2>1, <3>2 DEF Blocked, PageBusyKinds
    <3>3. CASE c.q[1] = q[1] /\ q[1] = "wechat"
      BY <3>3 DEF Overlap
    <3>. QED  BY <2>2, <2>3, <3>1, <3>2, <3>3 DEF Meet, SiteKinds
  <2>. QED  BY <2>3
<1>9. q[1] \in CountKinds => /\ q[2] = k /\ k # Nowhere
                             /\ \A c \in saves : c.q[1] \notin CountKinds
  <2>. SUFFICES ASSUME q[1] \in CountKinds  PROVE q[2] = k /\ k # Nowhere /\ \A c \in saves : c.q[1] \notin CountKinds
    OBVIOUS
  <2>1. "detail" \in DOMAIN views /\ q \in ChannelManager(views["detail"])
    BY <1>2, <1>3 DEF SheetKinds, CountKinds, AnswersInv, Standing, NamesOf
  <2>2. q[2] = k /\ k # Nowhere
    BY <2>1, SheetOffered DEF SheetKey
  <2>3. SpacesFollow(Books, saves, db, session, k, n)
    BY <1>1 DEF OverviewFollows
  <2>. HIDE DEF k, n
  <2>4. \A c \in saves : c.q[1] \in CountKinds => c.q[2] = k
    BY <2>2, <2>3 DEF SpacesFollow
  <2>. QED  BY <2>2, <2>4 DEF Overlap, CountKinds
<1>. HIDE DEF a, k, n
<1>10. OverviewFollows(Books, saves \cup {a}, db, session, k, n, site)
  BY <1>1, <1>3, <1>4, <1>5, <1>6, <1>7, <1>8, <1>9, OverviewSent
<1>. QED  BY <1>10 DEF a, k, n

\* A request of the sheet goes out.
LEMMA SheetSubmitted ==
  ASSUME PagesInv, AnswersInv, BooksInv, Trusted(views, "detail"), NEW q \in Offers(user, path, ScreenNow, views),
         ~Blocked(q)
  PROVE  SheetFollows(views["detail"], saves \cup {Kept(q)}, db)
<1>. DEFINE w == views["detail"]
            a == Kept(q)
<1>1. SheetFollows(w, saves, db) /\ HasRows(db)
  BY DEF BooksInv, Follows, ViewFollows, BookViews
<1>2. ScreenNow = "console" /\ q \in AdminConsole(user, path, views)
  <2>1. ScreenNow = "console"
    BY BookPlaces DEF AnswersInv, Standing, Trusted, BookViews
  <2>. QED  BY <2>1 DEF Offers
<1>3. "detail" \in ConsoleViews(path, views["overview"])
  BY <1>2 DEF Trusted, AnswersInv, Standing, NamesOf, FirstViews
<1>4. Loaded(views["overview"]) /\ q \in ChannelManager(w) /\ (q[1] = "user_new" => q[2] \in Users)
  BY <1>2, <1>3, ConsoleOffered
<1>5. /\ q[1] \in SheetKinds /\ q[2] = w.asked /\ w.asked # Nowhere
      /\ q[1] = "table_delete" => q[3] \in DOMAIN w.content
  BY <1>4, SheetOffered
<1>6. w.asked \in Spaces
  <2>1. {"overview", "detail"} \subseteq DOMAIN views
    BY <1>2 DEF Trusted, AnswersInv, Standing, NamesOf, FirstViews
  <2>2. RightView("detail", w, views, path, Openable)
    BY <2>1 DEF AnswersInv, Right
  <2>3. Manageable(views, path) \subseteq Spaces
    BY <1>4, <2>1 DEF Manageable, BooksInv, KnownSpaces
  <2>. QED  BY <1>5, <2>2, <2>3 DEF RightView, ChannelViews
<1>7. IsKept(a) /\ a.q = q /\ a.mine /\ a.held /\ ~a.ok
  BY <1>4, KeptIs
<1>8. \A c \in saves : c.q[1] # "table_delete"
  BY <1>1 DEF SheetFollows, Blocked, ModalKinds
<1>. HIDE DEF w, a
<1>9. SheetFollows(w, saves \cup {a}, db)
  BY <1>1, <1>5, <1>6, <1>7, <1>8, SheetSent
<1>. QED  BY <1>9 DEF w, a

\* A request of the page of a channel goes out, about that channel.
LEMMA RoomSubmitted ==
  ASSUME AnswersInv, BooksInv, Trusted(views, "tables"), NEW q \in Offers(user, path, ScreenNow, views), ~Astray(q)
  PROVE  TablesFollow(views["tables"], saves \cup {Kept(q)}, db, ChannelOf(path))
<1>. DEFINE w == views["tables"]
            a == Kept(q)
<1>1. TablesFollow(w, saves, db, ChannelOf(path))
  BY DEF BooksInv, Follows, ViewFollows, BookViews
<1>2. ScreenNow = "room" /\ q \in ChannelMain(views)
  <2>1. ScreenNow = "room"
    BY BookPlaces DEF AnswersInv, Standing, Trusted, BookViews
  <2>. QED  BY <2>1 DEF Offers
<1>3. q[1] \in RoomKinds /\ (q[1] = "table_delete" => q[3] \in DOMAIN w.content)
  BY <1>2, RoomOffered
<1>4. q[2] = w.shown
  BY <1>1, <1>2 DEF Astray, TablesFollow
<1>5. IsKept(a) /\ a.q = q /\ a.mine /\ a.held /\ ~a.ok
  BY <1>3, KeptIs DEF RoomKinds
<1>. HIDE DEF w, a
<1>6. TablesFollow(w, saves \cup {a}, db, ChannelOf(path))
  BY <1>1, <1>3, <1>4, <1>5, TablesSent
<1>. QED  BY <1>6 DEF w, a

\* A request about the keys or the accounts of the channels goes out.
LEMMA OwnSubmitted ==
  ASSUME AnswersInv, BooksInv, NEW v \in {"keys", "bindings"}, Trusted(views, v),
         NEW q \in Offers(user, path, ScreenNow, views), ~Blocked(q)
  PROVE  /\ v = "keys" => KeysFollow(views[v], saves \cup {Kept(q)}, db, session)
         /\ v = "bindings" => BindingsFollow(views[v], saves \cup {Kept(q)}, db, session)
<1>. DEFINE w == views[v]
            a == Kept(q)
<1>1. IsKept(a) /\ a.q = q /\ a.mine /\ a.held /\ ~a.ok
  BY MadeOffered, KeptIs
<1>2. CASE v = "keys"
  <2>1. KeysFollow(w, saves, db, session)
    BY <1>2 DEF BooksInv, Follows, ViewFollows, BookViews
  <2>2. q[1] \in KeyKinds => \A c \in saves : c.q[1] \notin KeyKinds
    BY <2>1 DEF KeysFollow, Blocked
  <2>. HIDE DEF w, a
  <2>3. KeysFollow(w, saves \cup {a}, db, session)
    BY <1>1, <2>1, <2>2, KeysSent
  <2>. QED  BY <1>2, <2>3 DEF w, a
<1>3. CASE v = "bindings"
  <2>1. BindingsFollow(w, saves, db, session)
    BY <1>3 DEF BooksInv, Follows, ViewFollows, BookViews
  <2>2. ScreenNow = "bindings"
    BY <1>3, BookPlaces DEF AnswersInv, Standing, Trusted, BookViews
  <2>3. q[1] = "bind"
    BY <2>2 DEF Offers, BindingDialog
  <2>. HIDE DEF w, a
  <2>4. BindingsFollow(w, saves \cup {a}, db, session)
    BY <1>1, <2>1, <2>3, BindingsSent
  <2>. QED  BY <1>3, <2>4 DEF w, a
<1>. QED  BY <1>2, <1>3

\* A request goes out: what its answer could spoil is held for out of date.
LEMMA SubmitBooks ==
  ASSUME PagesInv, AnswersInv, BooksInv, NEW q \in Offers(user, path, ScreenNow, views), Submit(q)
  PROVE  BooksInv'
<1>. DEFINE a == Kept(q)
            c == ChannelOf(path)
            spoilt == Astray(q) \/ \E x \in saves : Overlap(x.q, q)
<1>1. /\ UNCHANGED <<pageVars, session, site, db>> /\ saves' = saves \cup {a} /\ ~Blocked(q)
      /\ views' = IF spoilt THEN Soiled(views) ELSE views
      /\ reads' = {[r EXCEPT !.pure = r.pure /\ r.phase = "sent"] : r \in reads}
  BY Zenon DEF Submit
<1>2. \A v \in DOMAIN views : IsView(views[v])
  BY DEF PagesInv, Tidy, TidyView
<1>3. IsKept(a)
  BY MadeOffered, KeptIs
<1>4. ASSUME NEW s \in reads'  PROVE ReadFollows(s, saves', db, session)
  <2>1. PICK r \in reads : s = [r EXCEPT !.pure = r.pure /\ r.phase = "sent"]
    BY <1>1
  <2>. DEFINE pure == r.pure /\ r.phase = "sent"
  <2>2. s = [r EXCEPT !.pure = pure] /\ IsRead(r) /\ ReadFollows(r, saves, db, session)
    BY <2>1 DEF PagesInv, Tidy, TidyRead, BooksInv
  <2>3. r.phase # "sent" => ~pure
    OBVIOUS
  <2>. HIDE DEF pure
  <2>4. /\ s.ok = r.ok /\ s.phase = r.phase /\ s.view = r.view /\ s.key = r.key /\ s.answer = r.answer /\ s.pure = pure
    BY <2>2 DEF IsRead, HasFields, ReadFields
  <2>. QED  BY <2>2, <2>3, <2>4 DEF ReadFollows
<1>5. Follows(views', saves', db, session, c, site) /\ KnownSpaces(views')
  <2>1. CASE spoilt
    <3>1. views' = Soiled(views)
      BY <1>1, <2>1
    <3>. QED  BY <1>2, <3>1, FollowsSoiled, SoiledSpaces DEF BooksInv
  <2>2. CASE ~spoilt
    <3>1. views' = views /\ ~Astray(q) /\ \A x \in saves : ~Overlap(x.q, q)
      BY <1>1, <2>2
    <3>2. ASSUME NEW v \in BookViews, Trusted(views, v)
          PROVE  session \in DOMAIN db.users /\ ViewFollows(v, views, saves \cup {a}, db, session, c, site)
      <4>1. session \in DOMAIN db.users
        BY <3>2 DEF BooksInv, Follows
      <4>2. CASE v = "overview"
        BY <1>1, <3>1, <3>2, <4>1, <4>2, OverviewSubmitted DEF ViewFollows, Books
      <4>3. CASE v = "detail"
        BY <1>1, <3>2, <4>1, <4>3, SheetSubmitted DEF ViewFollows
      <4>4. CASE v = "tables"
        BY <3>1, <3>2, <4>1, <4>4, RoomSubmitted DEF ViewFollows
      <4>5. CASE v \in {"keys", "bindings"}
        BY <1>1, <3>2, <4>1, <4>5, OwnSubmitted DEF ViewFollows
      <4>. QED  BY <4>2, <4>3, <4>4, <4>5 DEF BookViews
    <3>. QED  BY <1>1, <3>1, <3>2 DEF Follows, BooksInv
  <2>. QED  BY <2>1, <2>2
<1>. QED  BY <1>1, <1>3, <1>4, <1>5 DEF BooksInv, pageVars

-----------------------------------------------------------------------------
(* The copy that follows is the server's *)

\* Two accounts that are alike are the same but for the channels joined.
LEMMA AlikePlain ==
  ASSUME NEW x, NEW y, HasFields(x, AccountFields), HasFields(y, AccountFields), Alike(x, y)
  PROVE  [x EXCEPT !.joined = {}] = [y EXCEPT !.joined = {}]
<1>. DEFINE x2 == [x EXCEPT !.joined = {}]
            y2 == [y EXCEPT !.joined = {}]
<1>1. HasFields(x2, AccountFields) /\ HasFields(y2, AccountFields)
  BY DEF HasFields, AccountFields
<1>2. \A f \in AccountFields : x2[f] = y2[f]
  BY DEF HasFields, AccountFields, Alike
<1>. HIDE DEF x2, y2
<1>3. x2 = y2
  BY <1>1, <1>2 DEF HasFields
<1>. QED  BY <1>3 DEF x2, y2

\* As many are counted of them.
LEMMA CountsPlain ==
  ASSUME NEW us, NEW vs, DOMAIN us = DOMAIN vs, \A x \in DOMAIN us : us[x].role = vs[x].role /\ us[x].status = vs[x].status
  PROVE  CountsOf(us) = CountsOf(vs)
<1>1. \A key : UsersWith(us, key) = UsersWith(vs, key)
  <2>1. \A key : {u \in DOMAIN us : us[u].role = key} = {u \in DOMAIN vs : vs[u].role = key}
    OBVIOUS
  <2>. QED  BY <2>1 DEF UsersWith
<1>2. {u \in DOMAIN us : us[u].status = "active"} = {u \in DOMAIN vs : vs[u].status = "active"}
  OBVIOUS
<1>. QED  BY <1>1, <1>2 DEF CountsOf

\* While nothing is under way, all books that follow, told to the same rights, are
\* the same but for the channels joined.
LEMMA BooksUnique ==
  ASSUME NEW d, HasRows(d), NEW u, NEW b, NEW c, NEW k, NEW n, NEW s, NEW k2, NEW n2, NEW s2,
         OverviewFollows(b, {}, d, u, k, n, s), OverviewFollows(c, {}, d, u, k2, n2, s2), b.permissions = c.permissions
  PROVE  Comparable(b) = Comparable(c)
<1>. DEFINE rights == b.permissions
<1>1. \A kinds : Pending({}, kinds) = {}
  BY DEF Pending
<1>2. UsersFollow(b, {}, d) /\ UsersFollow(c, {}, d)
  BY DEF OverviewFollows
<1>3. DOMAIN b.users = DOMAIN c.users
      /\ \A x \in DOMAIN b.users : /\ HasFields(b.users[x], AccountFields) /\ HasFields(c.users[x], AccountFields)
                                   /\ Alike(b.users[x], c.users[x])
  <2>1. CASE ~Sees(rights)
    BY <1>2, <2>1 DEF UsersFollow
  <2>2. CASE Sees(rights)
    <3>1. \A x : AgreeOn(x, b.users, d.users) /\ AgreeOn(x, c.users, d.users)
      BY <1>1, <1>2, <2>2 DEF UsersFollow
    <3>2. \A x : x \in DOMAIN b.users <=> x \in DOMAIN c.users
      BY <3>1 DEF AgreeOn
    <3>3. \A x \in DOMAIN b.users : HasFields(b.users[x], AccountFields)
      BY <1>2 DEF UsersFollow
    <3>4. \A x \in DOMAIN c.users : HasFields(c.users[x], AccountFields)
      BY <1>2 DEF UsersFollow
    <3>5. \A x \in DOMAIN b.users : Alike(b.users[x], c.users[x])
      BY <3>1, <3>2, AlikeTwice DEF AgreeOn
    <3>. QED  BY <3>2, <3>3, <3>4, <3>5
  <2>. QED  BY <2>1, <2>2
<1>4. b.counts = c.counts
  <2>1. CountsOf(b.users) = CountsOf(c.users)
    BY <1>3, CountsPlain DEF Alike, AccountFields
  <2>. QED  BY <1>2, <2>1 DEF UsersFollow
<1>5. b.roles = c.roles
  <2>1. \A key : UsersWith(UsersOf(b, d), key) = UsersWith(UsersOf(c, d), key)
    BY <1>1, <1>2, CountsAgree
  <2>2. RolesFollow(b, {}, d) /\ RolesFollow(c, {}, d)
    BY DEF OverviewFollows
  <2>3. RolesMatch(b.roles, d) /\ RolesMatch(c.roles, d)
    BY <1>1, <2>2 DEF RolesFollow
  <2>4. DOMAIN b.roles = DOMAIN d.roles /\ DOMAIN c.roles = DOMAIN d.roles
    BY <2>3 DEF RolesMatch, HasFields
  <2>5. ASSUME NEW key \in DOMAIN d.roles  PROVE b.roles[key] = c.roles[key]
    <3>1. HasFields(b.roles[key], RoleFields) /\ b.roles[key].user_count = UsersWith(UsersOf(b, d), key)
      BY <2>2, <2>4 DEF RolesFollow
    <3>2. HasFields(c.roles[key], RoleFields) /\ c.roles[key].user_count = UsersWith(UsersOf(c, d), key)
      BY <2>2, <2>4 DEF RolesFollow
    <3>3. b.roles[key].permissions = c.roles[key].permissions
      BY <2>3, <2>4 DEF RolesMatch
    <3>. DEFINE x == b.roles[key]
                y == c.roles[key]
    <3>4. HasFields(x, RoleFields) /\ HasFields(y, RoleFields) /\ x.user_count = y.user_count /\ x.permissions = y.permissions
      BY <3>1, <3>2, <3>3, <2>1
    <3>. HIDE DEF x, y
    <3>5. x = y
      BY <3>4 DEF HasFields, RoleFields
    <3>. QED  BY <3>5 DEF x, y
  <2>. QED  BY <2>3, <2>5 DEF RolesMatch, HasFields
<1>6. b.site = c.site
  BY SiteAgrees
<1>7. b.spaces = c.spaces /\ b.tables = c.tables
  <2>1. SpacesFollow(b, {}, d, u, k, n) /\ SpacesFollow(c, {}, d, u, k2, n2)
    BY DEF OverviewFollows
  <2>2. HasFields(b.spaces, SpacesTold(d, u, rights)) /\ HasFields(c.spaces, SpacesTold(d, u, rights))
    BY <2>1 DEF SpacesFollow
  <2>3. DOMAIN b.spaces = DOMAIN c.spaces
    BY <2>2 DEF HasFields
  <2>4. \A x \in DOMAIN b.spaces : b.spaces[x] = c.spaces[x]
    BY <2>1, <2>3 DEF SpacesFollow
  <2>5. b.spaces = c.spaces
    BY <2>2, <2>3, <2>4 DEF HasFields
  <2>6. b.tables = SumOf(b.spaces, DOMAIN b.spaces) /\ c.tables = SumOf(c.spaces, DOMAIN c.spaces)
    BY <2>1 DEF SpacesFollow
  <2>. QED  BY <2>5, <2>6
<1>. DEFINE plain(us) == [x \in DOMAIN us |-> [us[x] EXCEPT !.joined = {}]]
<1>8. plain(b.users) = plain(c.users)
  <2>. DEFINE f(x) == [b.users[x] EXCEPT !.joined = {}]
              g(x) == [c.users[x] EXCEPT !.joined = {}]
  <2>1. \A x \in DOMAIN b.users : f(x) = g(x)
    BY <1>3, AlikePlain
  <2>2. plain(b.users) = [x \in DOMAIN b.users |-> f(x)] /\ plain(c.users) = [x \in DOMAIN c.users |-> g(x)]
    OBVIOUS
  <2>. HIDE DEF f, g, plain
  <2>. QED  BY <1>3, <2>1, <2>2
<1>9. \A books : Comparable(books) = [books EXCEPT !.users = plain(books.users)]
  BY Zenon DEF Comparable
<1>. HIDE DEF plain
<1>10. HasFields(b, BooksFields) /\ HasFields(c, BooksFields)
  BY DEF OverviewFollows
<1>. DEFINE x == [b EXCEPT !.users = plain(b.users)]
            y == [c EXCEPT !.users = plain(c.users)]
<1>11. HasFields(x, BooksFields) /\ HasFields(y, BooksFields)
  BY <1>10 DEF HasFields, BooksFields
<1>12. \A f \in BooksFields : x[f] = y[f]
  BY <1>4, <1>5, <1>6, <1>7, <1>8, <1>10 DEF HasFields, BooksFields
<1>13. Comparable(b) = x /\ Comparable(c) = y
  BY <1>9
<1>. HIDE DEF x, y
<1>. QED  BY <1>11, <1>12, <1>13 DEF HasFields

\* The keys, the accounts and the tables that follow are what the server would tell.
LEMMA RowsUnique ==
  ASSUME NEW w, NEW d, IsDatabase(d), NEW u, u \in DOMAIN d.users
  PROVE  /\ KeysFollow(w, {}, d, u) => w.content = Tell(d, u, "keys", w.shown)
         /\ BindingsFollow(w, {}, d, u) => w.content = Tell(d, u, "bindings", w.shown)
         /\ \A c : TablesFollow(w, {}, d, c) => w.content = Tell(d, u, "tables", w.shown)
         /\ SheetFollows(w, {}, d) => w.content = Tell(d, u, "detail", w.shown)
<1>1. ASSUME KeysFollow(w, {}, d, u)  PROVE w.content = Tell(d, u, "keys", w.shown)
  BY <1>1 DEF KeysFollow, Tell
<1>2. ASSUME BindingsFollow(w, {}, d, u)  PROVE w.content = Tell(d, u, "bindings", w.shown)
  <2>. DEFINE in(s) == s \in d.bound[u]
              old == w.content
  <2>1. \A s \in d.users[u].joined : old[s] \in BOOLEAN /\ (in(s) <=> old[s])
    BY <1>2 DEF BindingsFollow
  <2>2. HasFields(old, d.users[u].joined)
    BY <1>2 DEF BindingsFollow
  <2>3. \A s : in(s) \in BOOLEAN
    OBVIOUS
  <2>4. Tell(d, u, "bindings", w.shown) = [s \in d.users[u].joined |-> in(s)]
    BY DEF Tell
  <2>. HIDE DEF in, old
  <2>5. \A s \in d.users[u].joined : old[s] = in(s)
    BY <2>1, <2>3
  <2>6. old = [s \in d.users[u].joined |-> in(s)]
    BY <2>2, <2>5 DEF HasFields
  <2>. QED  BY <2>4, <2>6 DEF old
<1>3. NewIn({}) = {} /\ Deleted({}) = {} /\ {a.told[2] : a \in NewIn({})} = {}
  BY DEF NewIn, Deleted
<1>4. ASSUME Rows(w.content), DOMAIN w.content = d.tables[w.shown], NEW v \in {"tables", "detail"}
      PROVE  w.content = Tell(d, u, v, w.shown)
  BY <1>4 DEF Rows, Tell
<1>5. ASSUME NEW c, TablesFollow(w, {}, d, c)  PROVE w.content = Tell(d, u, "tables", w.shown)
  <2>1. Rows(w.content) /\ DOMAIN w.content = d.tables[w.shown]
    BY <1>3, <1>5 DEF TablesFollow
  <2>. QED  BY <1>4, <2>1
<1>6. ASSUME SheetFollows(w, {}, d)  PROVE w.content = Tell(d, u, "detail", w.shown)
  <2>1. Rows(w.content) /\ DOMAIN w.content = d.tables[w.shown]
    BY <1>3, <1>6 DEF SheetFollows
  <2>. QED  BY <1>4, <2>1
<1>. QED  BY <1>1, <1>2, <1>5, <1>6

\* The sheet of a channel counts its tables, if the books are right.
LEMMA SheetCounts ==
  ASSUME PagesInv, AnswersInv, BooksInv, saves = {}, Trusted(views, "detail"),
         views["detail"].shown = views["detail"].asked, views["overview"].clean
  PROVE  views["detail"].count = Cardinality(DOMAIN views["detail"].content)
<1>. DEFINE w == views["detail"]
            over == views["overview"]
<1>1. ScreenNow = "console"
  BY BookPlaces DEF AnswersInv, Standing, Trusted, BookViews
<1>2. "overview" \in DOMAIN views /\ "detail" \in ConsoleViews(path, over)
  BY <1>1 DEF Trusted, AnswersInv, Standing, NamesOf, FirstViews
<1>3. Loaded(over) /\ over.asked = Everything
  <2>1. RightView("overview", over, views, path, Openable)
    BY <1>2 DEF AnswersInv, Right
  <2>. QED  BY <1>2, <2>1 DEF RightView, ConsoleViews
<1>4. Trusted(views, "overview")
  <2>1. TidyView("overview", over, reads, ChannelOf(path))
    BY <1>2 DEF PagesInv, Tidy
  <2>. QED  BY <1>2, <1>3, <2>1, KeysAssumption DEF TidyView, Trusted
<1>5. OverviewFollows(Books, {}, db, session, w.asked, w.count, site)
  BY <1>4 DEF BooksInv, Follows, ViewFollows, BookViews, Books, SheetKey, SheetCount, Trusted
<1>6. SheetFollows(w, {}, db) /\ HasRows(db)
  BY DEF BooksInv, Follows, ViewFollows, BookViews
<1>7. DOMAIN w.content = db.tables[w.shown] /\ w.shown \in Spaces
  <2>1. Deleted({}) = {}
    BY DEF Deleted
  <2>. QED  BY <1>6, <2>1 DEF SheetFollows
<1>8. w.shown = w.asked /\ w.asked # Nowhere
  BY DEF Trusted
<1>. HIDE DEF w
<1>9. w.count = Cardinality(db.tables[w.asked]) + Extra({}, w.asked)
  BY <1>5, <1>8 DEF OverviewFollows, SpacesFollow
<1>10. Extra({}, w.asked) = 0 /\ Cardinality(db.tables[w.asked]) \in Nat
  BY <1>6, <1>7, <1>8, FewTables DEF Extra, Pending
<1>. QED  BY <1>7, <1>8, <1>9, <1>10 DEF w

\* So the copy is what the server would tell.
LEMMA BooksInvMatch == PagesInv /\ AnswersInv /\ BooksInv => BooksMatchServer
<1>. SUFFICES ASSUME PagesInv, AnswersInv, BooksInv, saves = {},
                     NEW v \in {"overview", "tables", "keys", "detail", "bindings"} \cap DOMAIN views, Current(views[v])
              PROVE  /\ v = "overview" => BooksFollow(views[v].content)
                     /\ v = "detail" => OpenedFollows(views[v])
                     /\ v \in {"tables", "keys", "bindings"} => views[v].content = Tell(db, session, v, views[v].shown)
  BY DEF BooksMatchServer
<1>1. Trusted(views, v) /\ v \in BookViews
  BY DEF Current, Trusted, BookViews
<1>2. /\ session \in DOMAIN db.users /\ ViewFollows(v, views, {}, db, session, ChannelOf(path), site)
      /\ IsDatabase(db) /\ HasRows(db)
  BY <1>1 DEF BooksInv, Follows, AnswersInv
<1>3. CASE v = "overview"
  <2>. DEFINE k == SheetKey(views)
              n == SheetCount(views)
              told == Overview(db, session)
  <2>1. OverviewFollows(Books, {}, db, session, k, n, site)
    BY <1>2, <1>3 DEF ViewFollows, Books
  <2>2. told.permissions = PermissionsForUser(db, session)
    BY DEF Overview
  <2>3. told = Overview(db, session)
    OBVIOUS
  <2>. HIDE DEF told, k, n
  <2>4. OverviewFollows(told, {}, db, session, Nowhere, 0, db.site)
    BY <1>2, <2>3, FreshOverview
  <2>5. site = db.site
    BY <1>2, <2>1, SiteAgrees
  <2>6. Books.permissions = PermissionsForUser(db, session) => Comparable(Books) = Comparable(told)
    BY <1>2, <2>1, <2>2, <2>4, BooksUnique
  <2>. QED  BY <1>3, <2>5, <2>6 DEF BooksFollow, told, Books
<1>4. CASE v = "detail"
  <2>1. views["detail"].content = Tell(db, session, "detail", views["detail"].shown)
    BY <1>2, <1>4, RowsUnique DEF ViewFollows
  <2>. QED  BY <1>1, <1>4, <2>1, SheetCounts DEF OpenedFollows
<1>5. CASE v = "tables"
  <2>1. TablesFollow(views["tables"], {}, db, ChannelOf(path))
    BY <1>2, <1>5 DEF ViewFollows
  <2>2. views["tables"].content = Tell(db, session, "tables", views["tables"].shown)
    BY <1>2, <2>1, RowsUnique
  <2>. QED  BY <1>5, <2>2
<1>6. CASE v = "keys"
  BY <1>2, <1>6, RowsUnique DEF ViewFollows
<1>7. CASE v = "bindings"
  <2>1. BindingsFollow(views["bindings"], {}, db, session)
    BY <1>2, <1>7 DEF ViewFollows
  <2>2. views["bindings"].content = Tell(db, session, "bindings", views["bindings"].shown)
    BY <1>2, <2>1, RowsUnique
  <2>. QED  BY <1>7, <2>2
<1>. QED  BY <1>3, <1>4, <1>5, <1>6, <1>7

-----------------------------------------------------------------------------
(* The copy is the server's, always *)

\* At first nothing is shown.
LEMMA InitBooks == Init => BooksInv
<1>. SUFFICES ASSUME Init  PROVE BooksInv
  OBVIOUS
<1>1. DOMAIN views = {} /\ reads = {} /\ saves = {}
  BY DEF Init
<1>2. HasRows(db)
  BY RowsAssumption DEF Init, Story
<1>3. Follows(views, saves, db, session, ChannelOf(path), site) /\ KnownSpaces(views)
  BY <1>1 DEF Follows, Trusted, KnownSpaces
<1>. QED  BY <1>1, <1>2, <1>3 DEF BooksInv

\* The story stays the one that was chosen.
StoryTold == story \in DOMAIN Stories

\* No step changes the story.
LEMMA StoryStays ==
  ASSUME StoryTold, [Next]_vars
  PROVE  StoryTold'
<1>1. \A a : SaveArrives(a) => story' = story
  BY DEF SaveArrives, SaveRefused, PageIsGone, RegistrationSaved, BrandSaved, FaviconReset, LoginHeroSaved,
         WeChatLoginSaved, SettingArrives, Becomes, UserSaved, UserDeleted, RankingToggled, RolesSaved,
         RankingsChanged, ConnectionSaved, SheetTableCleared, SheetTableDeleted, SheetShows, TableCreated,
         RoomTableDone, KeyGenerated, KeyRevoked, AgentSwitched, KeysShow, BindingUpdated, ProfileUpdated,
         CredentialsUpdated, SpaceJoined
<1>2. \A a : HandleSave(a) \/ JoinedWithAccount(a) \/ LoseReply(a) => story' = story
  BY Zenon DEF HandleSave, JoinedWithAccount, LoseReply
<1>3. \A q : Submit(q) => story' = story
  BY Zenon DEF Submit
<1>4. \A r : AnswerRead(r) \/ AccountMade(r) \/ ReadArrives(r) => story' = story
  <2>1. \A r : AnswerRead(r) \/ AccountMade(r) => story' = story
    BY Zenon DEF AnswerRead, AccountMade
  <2>2. \A r : ReadArrives(r) => story' = story
    BY Zenon DEF ReadArrives, SpaceArrives, SpacesArrive, BoardArrives, AboutArrives, TablesArrive, HandsArrive,
       FundsArrive, BindingsArrive, OverviewArrives, RankingsArrive, BalancesArrive, DetailArrives, KeysArrive, Arrives
  <2>. QED  BY <2>1, <2>2
<1>5. \A u : Login(u) \/ LoginConsole(u) \/ Register(u) => story' = story
  BY Zenon DEF Login, LoginConsole, Register
<1>6. (Start \/ LogoutLobby \/ LogoutConsole => story' = story)
  BY Zenon DEF Start, LogoutLobby, LogoutConsole
<1>7. \A p : Go(p) \/ OpenSpace(p) => story' = story
  BY Zenon DEF Go, OpenSpace
<1>8. ChooseBoard \/ TurnHands \/ TurnFunds \/ ScopeRankings \/ PickBalances \/ RefreshBalances
        \/ RefreshSheet \/ OpenKeys => story' = story
  BY Zenon DEF ChooseBoard, TurnHands, TurnFunds, ScopeRankings, PickBalances, RefreshBalances, RefreshSheet, OpenKeys,
     AsksFor, Asks
<1>9. CloseSheet \/ CloseKeys \/ Poll => story' = story
  BY Zenon DEF CloseSheet, CloseKeys, Poll
<1>10. \A s : OpenSheet(s) => story' = story
  BY Zenon DEF OpenSheet
<1>11. UNCHANGED vars => story' = story
  BY DEF vars
<1>12. story' = story
  BY <1>1, <1>2, <1>3, <1>4, <1>5, <1>6, <1>7, <1>8, <1>9, <1>10, <1>11, Zenon DEF Next
<1>. QED  BY <1>12 DEF StoryTold

\* Every step keeps the copy right.
LEMMA NextBooks ==
  ASSUME PagesInv, AnswersInv, BooksInv, StoryTold, [Next]_vars
  PROVE  BooksInv'
<1>1. CASE Start \/ LogoutLobby \/ LogoutConsole \/ \E u \in Story.people : Login(u) \/ LoginConsole(u) \/ Register(u)
  <2>1. Story.people \subseteq Users
    BY RowsAssumption DEF StoryTold, Story
  <2>. QED  BY <1>1, <2>1, SessionsBooks
<1>2. CASE (\E p : Go(p)) \/ \E s : OpenSpace(s)
  BY <1>2, MovedBooks
<1>3. CASE ChooseBoard \/ TurnHands \/ TurnFunds \/ ScopeRankings \/ PickBalances \/ RefreshBalances
             \/ RefreshSheet \/ OpenKeys
  BY <1>3, ChoiceBooks
<1>4. CASE CloseSheet \/ CloseKeys \/ Poll
  BY <1>4, CloseSheetBooks, CloseKeysBooks, PollBooks
<1>5. ASSUME {"overview", "detail"} \subseteq DOMAIN views,
             NEW s \in ChannelDirectory(views["overview"].content), OpenSheet(s)
      PROVE  BooksInv'
  BY <1>5, OpenSheetBooks
<1>6. ASSUME NEW r \in reads, AnswerRead(r) \/ AccountMade(r) \/ ReadArrives(r)  PROVE BooksInv'
  BY <1>6, AnswerBooks, AccountReadBooks, ArrivalBooks
<1>7. ASSUME NEW q \in Offers(user, path, ScreenNow, views), Submit(q)  PROVE BooksInv'
  BY <1>7, SubmitBooks
<1>8. ASSUME NEW a \in saves, HandleSave(a) \/ JoinedWithAccount(a) \/ LoseReply(a) \/ SaveArrives(a)
      PROVE  BooksInv'
  BY <1>8, HandleBooks, JoinedAccountBooks, LostBooks, SavedBooks
<1>9. CASE UNCHANGED vars
  <2>1. UNCHANGED <<pageVars, session, views, reads, saves, site, db>>
    BY <1>9 DEF vars, pageVars
  <2>. QED  BY <2>1 DEF BooksInv, pageVars
<1>. QED  BY <1>1, <1>2, <1>3, <1>4, <1>5, <1>6, <1>7, <1>8, <1>9 DEF Next

\* Whatever requests and answers overlap, get lost or come after the page has moved
\* on, whoever signs in or out meanwhile: where none of the overlaps that are known
\* to spoil it has happened and nothing is under way, every list, sum and setting
\* the pages have edited answer by answer is what the server would tell now.
THEOREM WebBooksMatchServer == Spec => []BooksMatchServer
<1>1. Init => PagesInv /\ AnswersInv /\ BooksInv /\ StoryTold
  BY InitPages, InitAnswers, InitBooks DEF Init, StoryTold
<1>2. PagesInv /\ AnswersInv /\ BooksInv /\ StoryTold /\ [Next]_vars
        => PagesInv' /\ AnswersInv' /\ BooksInv' /\ StoryTold'
  BY NextPages, NextAnswers, NextBooks, StoryStays
<1>3. PagesInv /\ AnswersInv /\ BooksInv => BooksMatchServer
  BY BooksInvMatch
<1>. QED  BY <1>1, <1>2, <1>3, PTL DEF Spec
=============================================================================
